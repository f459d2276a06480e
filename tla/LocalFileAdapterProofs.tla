----------------------- MODULE LocalFileAdapterProofs -----------------------
(***************************************************************************)
(* Proofs about FileLocks, for every set of paths, lock objects and        *)
(* (finitely many) requests, and about LocalFileAdapter, for any number of *)
(* concurrent calls, any set of files and any choice of timeouts.          *)
(*                                                                         *)
(* ObjectOK says of one LockState object, its fields st and the requests   *)
(* rq what holds in the middle of an operation, before serviceQueue runs;  *)
(* Awake is what serviceQueue adds.  The inductive invariant IInv is that  *)
(* of every object, together with the agreement of the Map with the        *)
(* requests (MapOK).                                                       *)
(*                                                                         *)
(* CallOK says what a call's two lock requests are at each point of its    *)
(* code.  It makes every step of the adapter a step of the lock manager    *)
(* (LocksUsed), so that the invariant of the locks holds here too.         *)
(***************************************************************************)
EXTENDS LocalFileAdapter, FiniteSetTheorems, SequenceTheorems, WellFoundedInduction, TLAPS

-----------------------------------------------------------------------------
(* The lock manager *)

Holders(rq, s, mode) ==
    {r \in Requests : rq[r].status = "held" /\ rq[r].lock = s /\ rq[r].mode = mode}

ObjectOK(s, st, rq) ==
    /\ st.readers = Cardinality(Holders(rq, s, "read"))
    /\ st.writer <=> Holders(rq, s, "write") # {}
    /\ \A r1, r2 \in Holders(rq, s, "write") : r1 = r2
    /\ st.writer => st.readers = 0
    /\ \A i, j \in 1..Len(st.queue) : st.queue[i] = st.queue[j] => i = j
    /\ \A i \in 1..Len(st.queue) :
        rq[st.queue[i]].status = "queued" /\ rq[st.queue[i]].lock = s
    /\ \A r \in Requests : rq[r].status = "queued" /\ rq[r].lock = s =>
        \E i \in 1..Len(st.queue) : st.queue[i] = r

Awake(st, rq) ==
    st.queue # <<>> =>
        st.writer \/ (st.readers > 0 /\ rq[st.queue[1]].mode = "write")

MapOK(fl, rq) ==
    /\ \A r \in Requests : rq[r].status \in {"queued", "held"} =>
        rq[r].path \in Paths /\ rq[r].lock \in LockIds /\ fl[rq[r].path] = rq[r].lock
    /\ \A p, q \in Paths : fl[p] # None /\ fl[p] = fl[q] => p = q
    /\ \A p \in Paths : fl[p] # None =>
        \E r \in Requests : rq[r].status = "held" /\ rq[r].path = p

IInv ==
    /\ TypeOK
    /\ \A s \in LockIds : ObjectOK(s, locks[s], reqs) /\ Awake(locks[s], reqs)
    /\ MapOK(fileLocks, reqs)

-----------------------------------------------------------------------------
(* Helpers *)

\* The first n members of a queue without repetitions are n requests.
LEMMA FirstOfCardinality ==
    ASSUME NEW q \in Seq(Requests),
           \A i, j \in 1..Len(q) : q[i] = q[j] => i = j,
           NEW n \in 0..Len(q)
    PROVE  /\ FirstOf(q, n) \subseteq Requests
           /\ IsFiniteSet(FirstOf(q, n))
           /\ Cardinality(FirstOf(q, n)) = n
<1> DEFINE f == [i \in 1..n |-> q[i]]
<1>1. FirstOf(q, n) \subseteq Requests
  BY DEF FirstOf
<1>2. f \in Bijection(1..n, FirstOf(q, n))
  BY DEF FirstOf, Bijection, Injection, Surjection, IsInjective
<1>3. IsFiniteSet(1..n) /\ Cardinality(1..n) = n
  BY FS_Interval
<1>4. ExistsBijection(1..n, FirstOf(q, n))
  BY <1>2 DEF ExistsBijection
<1>. QED
  BY <1>1, <1>3, <1>4, FS_Bijection

\* Sets of requests are finite, so their cardinality is a number that grows by
\* what is added and is zero for the empty set only.
LEMMA RequestSets ==
    ASSUME NEW A \in SUBSET Requests
    PROVE  /\ IsFiniteSet(A)
           /\ Cardinality(A) \in Nat
           /\ Cardinality(A) = 0 <=> A = {}
           /\ \A x \in A : Cardinality(A \ {x}) = Cardinality(A) - 1
           /\ \A x \in Requests \ A : Cardinality(A \cup {x}) = Cardinality(A) + 1
<1>1. IsFiniteSet(A)
  BY LockConstants, FS_Subset
<1>. QED
  BY <1>1, FS_CardinalityType, FS_EmptySet, FS_RemoveElement, FS_AddElement

\* Where the members of a queue stand once its i-th one has left.
LEMMA WithoutElements ==
    ASSUME NEW q \in Seq(Requests), NEW i \in 1..Len(q)
    PROVE  /\ Without(q, i) \in Seq(Requests)
           /\ Len(Without(q, i)) = Len(q) - 1
           /\ \A j \in 1..(Len(q) - 1) :
                Without(q, i)[j] = IF j < i THEN q[j] ELSE q[j + 1]
<1> DEFINE a == SubSeq(q, 1, i - 1)
           b == SubSeq(q, i + 1, Len(q))
<1>1. a \in Seq(Requests) /\ Len(a) = i - 1 /\ \A j \in 1..(i - 1) : a[j] = q[j]
  BY SubSeqProperties
<1>2. /\ b \in Seq(Requests) /\ Len(b) = Len(q) - i
      /\ \A j \in 1..(Len(q) - i) : b[j] = q[i + j]
  BY SubSeqProperties
<1>4. Without(q, i) = a \o b
  BY DEF Without
<1>. HIDE DEF a, b
<1>3. /\ a \o b \in Seq(Requests) /\ Len(a \o b) = Len(q) - 1
      /\ \A j \in 1..(Len(q) - 1) : (a \o b)[j] = IF j <= i - 1 THEN a[j] ELSE b[j - (i - 1)]
  <2>1. Len(a) + Len(b) = Len(q) - 1
    BY <1>1, <1>2
  <2>2. /\ a \o b \in Seq(Requests) /\ Len(a \o b) = Len(a) + Len(b)
        /\ \A j \in 1..(Len(a) + Len(b)) :
             (a \o b)[j] = IF j <= Len(a) THEN a[j] ELSE b[j - Len(a)]
    BY <1>1, <1>2, ConcatProperties
  <2>. QED
    BY <1>1, <2>1, <2>2
<1>5. \A j \in 1..(Len(q) - 1) : (a \o b)[j] = IF j < i THEN q[j] ELSE q[j + 1]
  <2>. SUFFICES ASSUME NEW j \in 1..(Len(q) - 1)
                PROVE  (a \o b)[j] = IF j < i THEN q[j] ELSE q[j + 1]
    OBVIOUS
  <2>1. CASE j < i
    BY <2>1, <1>1, <1>3
  <2>2. CASE j >= i
    BY <2>2, <1>2, <1>3
  <2>3. j < i \/ j >= i
    OBVIOUS
  <2>. QED
    BY <2>1, <2>2, <2>3
<1>. QED
  BY <1>3, <1>4, <1>5

-----------------------------------------------------------------------------
(* What each operation does to the object it works on *)

\* An object looks the same to requests none of which changed while it was
\* live on that object.
LEMMA OtherObjects ==
    ASSUME NEW s \in LockIds, NEW st \in LockState,
           NEW rq \in [Requests -> Request], NEW rq2 \in [Requests -> Request],
           \A r \in Requests : \/ rq2[r] = rq[r]
                               \/ /\ ~(rq[r].status \in {"queued", "held"} /\ rq[r].lock = s)
                                  /\ ~(rq2[r].status \in {"queued", "held"} /\ rq2[r].lock = s),
           ObjectOK(s, st, rq), Awake(st, rq)
    PROVE  ObjectOK(s, st, rq2) /\ Awake(st, rq2)
<1>1. \A mode \in Modes : Holders(rq2, s, mode) = Holders(rq, s, mode)
  BY DEF Holders
<1>2. \A i \in 1..Len(st.queue) : st.queue[i] \in Requests /\ rq2[st.queue[i]] = rq[st.queue[i]]
  BY DEF ObjectOK, LockState
<1>3. \A r \in Requests : rq2[r].status = "queued" /\ rq2[r].lock = s =>
        \E i \in 1..Len(st.queue) : st.queue[i] = r
  BY DEF ObjectOK
<1>4. ObjectOK(s, st, rq2)
  BY <1>1, <1>2, <1>3 DEF ObjectOK, Modes
<1>5. Awake(st, rq2)
  BY <1>2 DEF Awake, LockState
<1>. QED
  BY <1>4, <1>5

\* A newcomer that finds the lock free for its mode.
LEMMA TakenOK ==
    ASSUME NEW s \in LockIds, NEW st \in LockState, NEW rq \in [Requests -> Request],
           NEW rq2 \in [Requests -> Request], NEW r \in Requests,
           ObjectOK(s, st, rq), Admits(rq2[r].mode, st),
           rq[r].status = "idle", \A x \in Requests \ {r} : rq2[x] = rq[x],
           rq2[r].status = "held", rq2[r].lock = s
    PROVE  LET st2 == Taken(rq2[r].mode, st)
           IN  st2 \in LockState /\ ObjectOK(s, st2, rq2) /\ Awake(st2, rq2)
<1> DEFINE st2 == Taken(rq2[r].mode, st)
<1>1. rq2[r].mode \in {"read", "write"} /\ \A x \in Requests \ {r} : rq2[x] = rq[x]
  BY DEF Request, Modes
<1>2. st2 \in LockState /\ st2.queue = <<>> /\ st.queue = <<>>
  <2>1. CASE rq2[r].mode = "read"
    BY <2>1 DEF Taken, LockState, Admits
  <2>2. CASE rq2[r].mode = "write"
    BY <2>2 DEF Taken, LockState, Admits
  <2>. QED
    BY <1>1, <2>1, <2>2
<1>3. \A mode \in Modes : Holders(rq2, s, mode) =
        IF mode = rq2[r].mode THEN Holders(rq, s, mode) \cup {r} ELSE Holders(rq, s, mode)
  BY <1>1 DEF Holders
<1>4. r \notin Holders(rq, s, "read") /\ Holders(rq, s, "read") \subseteq Requests
  BY DEF Holders
<1>5. Holders(rq, s, "write") = {}
  BY DEF Admits, ObjectOK
<1>6. rq2[r].mode = "read" => ObjectOK(s, st2, rq2)
  <2>. HAVE rq2[r].mode = "read"
  <2>1. st2.readers = Cardinality(Holders(rq2, s, "read"))
    BY <1>3, <1>4, RequestSets DEF ObjectOK, Taken, LockState, Modes
  <2>2. ~st2.writer /\ Holders(rq2, s, "write") = {}
    BY <1>3, <1>5 DEF Taken, LockState, Modes, Admits
  <2>3. \A x \in Requests : ~(rq2[x].status = "queued" /\ rq2[x].lock = s)
    BY <1>1, <1>2 DEF ObjectOK
  <2>. QED
    BY <2>1, <2>2, <2>3, <1>2 DEF ObjectOK
<1>7. rq2[r].mode = "write" => ObjectOK(s, st2, rq2)
  <2>. HAVE rq2[r].mode = "write"
  <2>1. st2.readers = Cardinality(Holders(rq2, s, "read")) /\ st2.readers = 0
    BY <1>3 DEF ObjectOK, Taken, LockState, Modes, Admits
  <2>2. st2.writer /\ Holders(rq2, s, "write") = {r}
    BY <1>3, <1>5 DEF Taken, LockState, Modes
  <2>3. \A x \in Requests : ~(rq2[x].status = "queued" /\ rq2[x].lock = s)
    BY <1>1, <1>2 DEF ObjectOK
  <2>. QED
    BY <2>1, <2>2, <2>3, <1>2 DEF ObjectOK
<1>8. Awake(st2, rq2)
  BY <1>2 DEF Awake
<1>. QED
  BY <1>1, <1>2, <1>6, <1>7, <1>8

\* A newcomer that has to queue.
LEMMA QueuedOK ==
    ASSUME NEW s \in LockIds, NEW st \in LockState, NEW rq \in [Requests -> Request],
           NEW rq2 \in [Requests -> Request], NEW r \in Requests,
           ObjectOK(s, st, rq),
           rq[r].status = "idle", \A x \in Requests \ {r} : rq2[x] = rq[x],
           rq2[r].status = "queued", rq2[r].lock = s
    PROVE  LET st2 == [st EXCEPT !.queue = Append(@, r)]
           IN  st2 \in LockState /\ ObjectOK(s, st2, rq2)
<1> DEFINE st2 == [st EXCEPT !.queue = Append(@, r)]
<1>1. \A x \in Requests \ {r} : rq2[x] = rq[x]
  OBVIOUS
<1>2. /\ st2 \in LockState /\ st2.readers = st.readers /\ st2.writer = st.writer
      /\ st.queue \in Seq(Requests)
      /\ Len(st2.queue) = Len(st.queue) + 1
      /\ \A i \in 1..Len(st.queue) : st2.queue[i] = st.queue[i]
      /\ st2.queue[Len(st.queue) + 1] = r
  BY DEF LockState
<1>3. \A mode \in Modes : Holders(rq2, s, mode) = Holders(rq, s, mode)
  BY <1>1 DEF Holders
<1>4. \A i \in 1..Len(st.queue) : st.queue[i] \in Requests /\ st.queue[i] # r
  BY <1>2 DEF ObjectOK
<1>5. \A i, j \in 1..Len(st2.queue) : st2.queue[i] = st2.queue[j] => i = j
  BY <1>2, <1>4 DEF ObjectOK
<1>6. \A i \in 1..Len(st2.queue) :
        rq2[st2.queue[i]].status = "queued" /\ rq2[st2.queue[i]].lock = s
  BY <1>1, <1>2, <1>4 DEF ObjectOK
<1>7. \A x \in Requests : rq2[x].status = "queued" /\ rq2[x].lock = s =>
        \E i \in 1..Len(st2.queue) : st2.queue[i] = x
  BY <1>1, <1>2 DEF ObjectOK
<1>8. ObjectOK(s, st2, rq2)
  BY <1>2, <1>3, <1>5, <1>6, <1>7 DEF ObjectOK, Modes
<1>. QED
  BY <1>2, <1>8

\* A holder that gives its lock back.
LEMMA GivenBackOK ==
    ASSUME NEW s \in LockIds, NEW st \in LockState, NEW rq \in [Requests -> Request],
           NEW r \in Requests, ObjectOK(s, st, rq),
           rq[r].status = "held", rq[r].lock = s
    PROVE  LET st2 == GivenBack(rq[r].mode, st)
               rq2 == [rq EXCEPT ![r] = NoRequest]
           IN  st2 \in LockState /\ ObjectOK(s, st2, rq2)
<1> DEFINE st2 == GivenBack(rq[r].mode, st)
           rq2 == [rq EXCEPT ![r] = NoRequest]
<1>1. /\ rq[r].mode \in {"read", "write"}
      /\ \A x \in Requests \ {r} : rq2[x] = rq[x]
      /\ rq2[r].status = "idle"
  BY DEF Request, Modes, NoRequest
<1>2. \A mode \in Modes : Holders(rq2, s, mode) = Holders(rq, s, mode) \ {r}
  BY <1>1 DEF Holders
<1>3. st2.queue = st.queue
  BY <1>1 DEF GivenBack, LockState
<1>4. Holders(rq, s, "read") \subseteq Requests /\ Holders(rq, s, "write") \subseteq Requests
  BY DEF Holders
<1>5. \A i \in 1..Len(st.queue) : rq2[st.queue[i]] = rq[st.queue[i]]
  BY <1>1 DEF ObjectOK, LockState
<1>6. \A x \in Requests : rq2[x].status = "queued" /\ rq2[x].lock = s =>
        \E i \in 1..Len(st.queue) : st.queue[i] = x
  BY <1>1 DEF ObjectOK
<1>7. rq[r].mode = "read" => st2 \in LockState /\ ObjectOK(s, st2, rq2)
  <2>. HAVE rq[r].mode = "read"
  <2>1. r \in Holders(rq, s, "read") /\ r \notin Holders(rq, s, "write")
    BY DEF Holders
  <2>2. st.readers = Cardinality(Holders(rq, s, "read")) /\ st.readers > 0
    BY <2>1, <1>4, RequestSets DEF ObjectOK
  <2>3. st2 = [st EXCEPT !.readers = st.readers - 1] /\ st.readers - 1 \in Nat
    BY <2>2 DEF GivenBack, LockState
  <2>4. st2 \in LockState /\ st2.readers = st.readers - 1 /\ st2.writer = st.writer
    BY <2>3 DEF LockState
  <2>. HIDE DEF st2, rq2
  <2>5. st2.readers = Cardinality(Holders(rq2, s, "read"))
    BY <2>1, <2>2, <2>4, <1>2, <1>4, RequestSets DEF Modes
  <2>6. Holders(rq2, s, "write") = Holders(rq, s, "write")
    BY <2>1, <1>2 DEF Modes
  <2>7. ~st.writer
    BY <2>2 DEF ObjectOK, LockState
  <2>. QED
    BY <2>4, <2>5, <2>6, <2>7, <1>3, <1>5, <1>6 DEF ObjectOK
<1>8. rq[r].mode = "write" => st2 \in LockState /\ ObjectOK(s, st2, rq2)
  <2>. HAVE rq[r].mode = "write"
  <2>1. r \in Holders(rq, s, "write") /\ r \notin Holders(rq, s, "read")
    BY DEF Holders
  <2>2. st2 \in LockState /\ st2.readers = st.readers /\ ~st2.writer
    BY DEF GivenBack, LockState
  <2>. HIDE DEF st2, rq2
  <2>3. Holders(rq2, s, "write") = {} /\ Holders(rq2, s, "read") = Holders(rq, s, "read")
    <3>1. \A x \in Holders(rq, s, "write") : x = r
      BY <2>1 DEF ObjectOK
    <3>2. /\ Holders(rq2, s, "write") = Holders(rq, s, "write") \ {r}
          /\ Holders(rq2, s, "read") = Holders(rq, s, "read") \ {r}
      BY <1>2 DEF Modes
    <3>. QED
      BY <2>1, <3>1, <3>2
  <2>4. st.readers = 0
    BY <2>1 DEF ObjectOK
  <2>. QED
    BY <2>2, <2>3, <2>4, <1>3, <1>5, <1>6 DEF ObjectOK
<1>. QED
  BY <1>1, <1>7, <1>8

\* A request that leaves the queue because its timer fired.
LEMMA LeftOK ==
    ASSUME NEW s \in LockIds, NEW st \in LockState, NEW rq \in [Requests -> Request],
           NEW i \in 1..Len(st.queue), ObjectOK(s, st, rq)
    PROVE  LET st2 == [st EXCEPT !.queue = Without(@, i)]
               rq2 == WithStatus(rq, {st.queue[i]}, "rejected")
           IN  st2 \in LockState /\ rq2 \in [Requests -> Request] /\ ObjectOK(s, st2, rq2)
<1> DEFINE q == st.queue
           r == q[i]
           st2 == [st EXCEPT !.queue = Without(@, i)]
           rq2 == WithStatus(rq, {r}, "rejected")
<1>1. q \in Seq(Requests) /\ r \in Requests /\ rq[r].status = "queued"
  BY DEF LockState, ObjectOK
<1>2. /\ rq2 \in [Requests -> Request]
      /\ \A x \in Requests \ {r} : rq2[x] = rq[x]
      /\ rq2[r].status = "rejected"
  BY <1>1 DEF WithStatus, Request, Statuses
<1>3. /\ Without(q, i) \in Seq(Requests) /\ Len(Without(q, i)) = Len(q) - 1
      /\ \A j \in 1..(Len(q) - 1) : Without(q, i)[j] = IF j < i THEN q[j] ELSE q[j + 1]
  BY <1>1, WithoutElements
<1>4. /\ st2 \in LockState /\ st2.queue = Without(q, i)
      /\ st2.readers = st.readers /\ st2.writer = st.writer
  BY <1>3 DEF LockState
<1>5. \A mode \in Modes : Holders(rq2, s, mode) = Holders(rq, s, mode)
  BY <1>1, <1>2 DEF Holders
<1>6. \A j, k \in 1..Len(q) : q[j] = q[k] => j = k
  BY DEF ObjectOK
<1>7. \A j \in 1..Len(q) : rq[q[j]].status = "queued" /\ rq[q[j]].lock = s /\ q[j] \in Requests
  BY <1>1 DEF ObjectOK
<1> HIDE DEF st2, rq2
<1>8. \A j, k \in 1..Len(st2.queue) : st2.queue[j] = st2.queue[k] => j = k
  <2>. SUFFICES ASSUME NEW j \in 1..(Len(q) - 1), NEW k \in 1..(Len(q) - 1),
                       st2.queue[j] = st2.queue[k]
                PROVE  j = k
    BY <1>3, <1>4
  <2>. QED
    BY <1>1, <1>3, <1>4, <1>6
<1>9. \A j \in 1..Len(st2.queue) : 
        rq2[st2.queue[j]].status = "queued" /\ rq2[st2.queue[j]].lock = s
  <2>. SUFFICES ASSUME NEW j \in 1..(Len(q) - 1)
                PROVE  rq2[st2.queue[j]].status = "queued" /\ rq2[st2.queue[j]].lock = s
    BY <1>3, <1>4
  <2>1. PICK k \in 1..Len(q) : st2.queue[j] = q[k] /\ k # i
    BY <1>1, <1>3, <1>4
  <2>. QED
    BY <2>1, <1>2, <1>6, <1>7
<1>10. \A x \in Requests : rq2[x].status = "queued" /\ rq2[x].lock = s =>
        \E j \in 1..Len(st2.queue) : st2.queue[j] = x
  <2>. SUFFICES ASSUME NEW x \in Requests, rq2[x].status = "queued", rq2[x].lock = s
                PROVE  \E j \in 1..(Len(q) - 1) : Without(q, i)[j] = x
    BY <1>3, <1>4
  <2>1. x # r /\ rq[x].status = "queued" /\ rq[x].lock = s
    BY <1>2
  <2>2. PICK k \in 1..Len(q) : q[k] = x
    BY <2>1 DEF ObjectOK
  <2>3. CASE k < i
    BY <2>2, <2>3, <1>1, <1>3
  <2>4. CASE k > i
    <3>1. k - 1 \in 1..(Len(q) - 1) /\ ~(k - 1 < i) /\ (k - 1) + 1 = k
      BY <2>4, <1>1
    <3>2. Without(q, i)[k - 1] = q[k]
      BY <3>1, <1>3
    <3>. QED
      BY <3>1, <3>2, <2>2
  <2>. QED
    BY <2>1, <2>2, <2>3, <2>4
<1>11. ObjectOK(s, st2, rq2)
  BY <1>4, <1>5, <1>8, <1>9, <1>10 DEF ObjectOK, Modes
<1>. QED
  BY <1>2, <1>4, <1>11 DEF st2, rq2

\* serviceQueue turns an object that is in order into one that is in order and
\* whose head of the queue, if any, has to wait.
LEMMA ServedOK ==
    ASSUME NEW s \in LockIds, NEW st \in LockState, NEW rq \in [Requests -> Request],
           ObjectOK(s, st, rq), NEW n \in 0..Len(st.queue), Grants(st, rq, n)
    PROVE  LET st2 == AfterGrants(st, rq, n)
               rq2 == WithStatus(rq, FirstOf(st.queue, n), "held")
           IN  /\ st2 \in LockState /\ rq2 \in [Requests -> Request]
               /\ ObjectOK(s, st2, rq2) /\ Awake(st2, rq2)
<1> DEFINE q == st.queue
           F == FirstOf(q, n)
           st2 == AfterGrants(st, rq, n)
           rq2 == WithStatus(rq, F, "held")
<1>1. /\ q \in Seq(Requests) /\ st.readers \in Nat /\ st.writer \in BOOLEAN
      /\ \A i, j \in 1..Len(q) : q[i] = q[j] => i = j
      /\ \A i \in 1..Len(q) : q[i] \in Requests /\ rq[q[i]].status = "queued" /\ rq[q[i]].lock = s
  BY DEF LockState, ObjectOK
<1>2. F \subseteq Requests /\ IsFiniteSet(F) /\ Cardinality(F) = n
  BY <1>1, FirstOfCardinality
<1>3. \A i \in 1..Len(q) : q[i] \in F <=> i <= n
  BY <1>1 DEF FirstOf
<1>4. /\ rq2 \in [Requests -> Request]
      /\ \A x \in Requests \ F : rq2[x] = rq[x]
      /\ \A x \in F : /\ rq2[x].status = "held" /\ rq2[x].lock = s
                      /\ rq[x].status = "queued" /\ rq2[x].mode = rq[x].mode
  <2>1. \A x \in F : rq[x].status = "queued" /\ rq[x].lock = s
    BY <1>1 DEF FirstOf
  <2>. QED
    BY <1>2, <2>1 DEF WithStatus, Request, Statuses
<1>5. /\ st2.queue \in Seq(Requests) /\ Len(st2.queue) = Len(q) - n
      /\ \A j \in 1..(Len(q) - n) : st2.queue[j] = q[n + j]
  <2>1. \A j \in (n + 1)..Len(q) : q[j] \in Requests
    BY <1>1
  <2>2. st2.queue = SubSeq(q, n + 1, Len(q))
    BY DEF AfterGrants
  <2>3. /\ SubSeq(q, n + 1, Len(q)) \in Seq(Requests)
        /\ Len(SubSeq(q, n + 1, Len(q))) = IF n + 1 <= Len(q) THEN Len(q) - (n + 1) + 1 ELSE 0
        /\ \A j \in 1..(Len(q) - (n + 1) + 1) : SubSeq(q, n + 1, Len(q))[j] = q[n + 1 + j - 1]
    BY <1>1, <2>1, SubSeqProperties
  <2>. QED
    BY <1>1, <2>2, <2>3
<1>6. st2.readers = IF n > 0 /\ Reads(st, rq, 1) THEN st.readers + n ELSE st.readers
  BY DEF AfterGrants
<1>7. st2.writer <=> st.writer \/ (n > 0 /\ ~Reads(st, rq, 1))
  BY DEF AfterGrants
<1>8. st2 \in LockState
  BY <1>1, <1>5 DEF LockState, AfterGrants
<1>. HIDE DEF F, st2, rq2
<1>9. \A i, j \in 1..Len(st2.queue) : st2.queue[i] = st2.queue[j] => i = j
  <2>1. \A i, j \in 1..(Len(q) - n) : q[n + i] = q[n + j] => i = j
    BY <1>1
  <2>. QED
    BY <1>1, <1>5, <2>1
<1>10. \A i \in 1..Len(st2.queue) :
         rq2[st2.queue[i]].status = "queued" /\ rq2[st2.queue[i]].lock = s
  <2>. SUFFICES ASSUME NEW i \in 1..(Len(q) - n)
                PROVE  rq2[q[n + i]].status = "queued" /\ rq2[q[n + i]].lock = s
    BY <1>5
  <2>1. n + i \in 1..Len(q) /\ ~(n + i <= n)
    BY <1>1
  <2>. QED
    BY <2>1, <1>1, <1>3, <1>4
<1>11. \A x \in Requests : rq2[x].status = "queued" /\ rq2[x].lock = s =>
         \E j \in 1..Len(st2.queue) : st2.queue[j] = x
  <2>. SUFFICES ASSUME NEW x \in Requests, rq2[x].status = "queued", rq2[x].lock = s
                PROVE  \E j \in 1..Len(st2.queue) : st2.queue[j] = x
    OBVIOUS
  <2>1. x \notin F /\ rq[x].status = "queued" /\ rq[x].lock = s
    BY <1>4
  <2>2. PICK k \in 1..Len(q) : q[k] = x
    BY <2>1 DEF ObjectOK
  <2>3. k - n \in 1..(Len(q) - n) /\ n + (k - n) = k
    BY <1>1, <1>3, <2>1, <2>2
  <2>4. st2.queue[k - n] = q[k]
    BY <1>5, <2>3
  <2>. QED
    BY <1>5, <2>2, <2>3, <2>4
<1>12. \A mode \in Modes :
        Holders(rq2, s, mode) = Holders(rq, s, mode) \cup {x \in F : rq[x].mode = mode}
  BY <1>2, <1>4 DEF Holders
<1>13. \A x \in F : x \notin Holders(rq, s, "read")
  BY <1>4 DEF Holders
<1>14. \A i \in 1..Len(q) : ~Reads(st, rq, i) => rq[q[i]].mode = "write"
  BY <1>1 DEF Reads, Request, Modes
<1>15. CASE n = 0
  <2>1. F = {}
    BY <1>15 DEF F, FirstOf
  <2>2. st2.readers = st.readers /\ (st2.writer <=> st.writer)
    BY <1>1, <1>6, <1>7, <1>15
  <2>3. \A mode \in Modes : Holders(rq2, s, mode) = Holders(rq, s, mode)
    BY <2>1, <1>12
  <2>4. ObjectOK(s, st2, rq2)
    BY <2>2, <2>3, <1>9, <1>10, <1>11 DEF ObjectOK, Modes
  <2>5. Awake(st2, rq2)
    <3>. SUFFICES ASSUME st2.queue # <<>>, ~st2.writer
                  PROVE  st2.readers > 0 /\ rq2[st2.queue[1]].mode = "write"
      BY DEF Awake
    <3>1. Len(q) > 0 /\ q # <<>> /\ st2.queue[1] = q[1]
      BY <1>1, <1>5, <1>15
    <3>2. st.readers > 0 /\ ~Reads(st, rq, 1)
      BY <3>1, <2>2, <1>15 DEF Grants
    <3>. QED
      BY <3>1, <3>2, <2>1, <2>2, <1>1, <1>4, <1>14
  <2>. QED
    BY <2>4, <2>5, <1>4, <1>8 DEF st2, rq2, F
<1>16. CASE n = 1 /\ ~Reads(st, rq, 1)
  <2>1. ~st.writer /\ st.readers = 0
    BY <1>16 DEF Grants
  <2>2. F = {q[1]} /\ rq[q[1]].mode = "write"
    BY <1>14, <1>16 DEF F, FirstOf
  <2>3. Holders(rq2, s, "write") = {q[1]}
    BY <2>1, <2>2, <1>12 DEF ObjectOK, Modes
  <2>4. Holders(rq2, s, "read") = Holders(rq, s, "read")
    BY <2>2, <1>12 DEF Modes
  <2>5. st2.readers = st.readers /\ st2.writer
    BY <1>6, <1>7, <1>16
  <2>6. ObjectOK(s, st2, rq2)
    BY <2>1, <2>3, <2>4, <2>5, <1>9, <1>10, <1>11 DEF ObjectOK
  <2>7. Awake(st2, rq2)
    BY <2>5 DEF Awake
  <2>. QED
    BY <2>6, <2>7, <1>4, <1>8 DEF st2, rq2, F
<1>17. CASE n > 0 /\ Reads(st, rq, 1)
  <2>1. ~st.writer /\ (\A i \in 1..n : Reads(st, rq, i)) /\ (n < Len(q) => ~Reads(st, rq, n + 1))
    BY <1>17 DEF Grants
  <2>2. \A x \in F : rq[x].mode = "read"
    BY <2>1, <1>1 DEF F, FirstOf, Reads
  <2>3. Holders(rq2, s, "read") = Holders(rq, s, "read") \cup F
    BY <2>2, <1>12 DEF Modes
  <2>4. Holders(rq2, s, "write") = {}
    BY <2>1, <2>2, <1>12 DEF ObjectOK, Modes
  <2>5. st2.readers = st.readers + n /\ st2.readers > 0 /\ ~st2.writer
    BY <2>1, <1>1, <1>6, <1>7, <1>17
  <2>6. Cardinality(Holders(rq2, s, "read")) = Cardinality(Holders(rq, s, "read")) + n
    <3>1. IsFiniteSet(Holders(rq, s, "read"))
      BY RequestSets DEF Holders
    <3>2. Holders(rq, s, "read") \cap F = {}
      BY <1>13
    <3>3. Cardinality(Holders(rq, s, "read")) \in Nat
      BY <3>1, FS_CardinalityType
    <3>4. Cardinality(Holders(rq, s, "read") \cup F)
            = Cardinality(Holders(rq, s, "read")) + Cardinality(F) - Cardinality({})
      BY <3>1, <3>2, <1>2, FS_Union
    <3>. QED
      BY <3>3, <3>4, <2>3, <1>2, FS_EmptySet
  <2>7. ObjectOK(s, st2, rq2)
    BY <2>4, <2>5, <2>6, <1>9, <1>10, <1>11 DEF ObjectOK
  <2>8. Awake(st2, rq2)
    <3>. SUFFICES ASSUME st2.queue # <<>>
                  PROVE  rq2[st2.queue[1]].mode = "write"
      BY <2>5 DEF Awake
    <3>1. n + 1 \in 1..Len(q) /\ n < Len(q) /\ st2.queue[1] = q[n + 1]
      BY <1>1, <1>5
    <3>. QED
      BY <3>1, <2>1, <1>1, <1>3, <1>4, <1>14
  <2>. QED
    BY <2>7, <2>8, <1>4, <1>8 DEF st2, rq2, F
<1>. QED
  BY <1>15, <1>16, <1>17 DEF Grants

-----------------------------------------------------------------------------
(* The inductive invariant *)

\* An object that nobody holds or awaits.
LEMMA EmptyOK ==
    ASSUME NEW s \in LockIds, NEW rq \in [Requests -> Request],
           \A r \in Requests : ~(rq[r].status \in {"queued", "held"} /\ rq[r].lock = s)
    PROVE  FreshLock \in LockState /\ ObjectOK(s, FreshLock, rq) /\ Awake(FreshLock, rq)
<1>1. FreshLock.readers = 0 /\ ~FreshLock.writer /\ FreshLock.queue = <<>> /\ Len(FreshLock.queue) = 0
  BY DEF FreshLock
<1>2. Holders(rq, s, "read") = {} /\ Holders(rq, s, "write") = {}
  BY DEF Holders
<1>3. Cardinality({}) = 0
  BY FS_EmptySet
<1>4. ObjectOK(s, FreshLock, rq)
  <2>1. FreshLock.readers = Cardinality(Holders(rq, s, "read"))
    BY <1>1, <1>2, <1>3
  <2>2. FreshLock.writer <=> Holders(rq, s, "write") # {}
    BY <1>1, <1>2
  <2>3. \A r \in Requests : ~(rq[r].status = "queued" /\ rq[r].lock = s)
    OBVIOUS
  <2>4. \A i \in 1..Len(FreshLock.queue) : FALSE
    BY <1>1
  <2>. QED
    BY <2>1, <2>2, <2>3, <2>4, <1>1, <1>2 DEF ObjectOK
<1>. QED
  BY <1>1, <1>4 DEF Awake, FreshLock, LockState

\* The invariant holds before any lock was asked for.
LEMMA InitIInv == LockInit => IInv
<1>. SUFFICES ASSUME LockInit PROVE IInv
  OBVIOUS
<1>1. TypeOK
  BY DEF TypeOK, LockInit, FreshLock, LockState, NoRequest, Request, Statuses, Modes
<1>2. \A r \in Requests : reqs[r].status = "idle"
  BY DEF LockInit, NoRequest
<1>3. \A s \in LockIds : ObjectOK(s, locks[s], reqs) /\ Awake(locks[s], reqs)
  BY <1>1, <1>2, EmptyOK DEF LockInit, TypeOK
<1>4. MapOK(fileLocks, reqs)
  BY DEF MapOK, LockInit, NoRequest
<1>. QED
  BY <1>1, <1>3, <1>4 DEF IInv

\* A step that works on the object s leaves every object in order if it leaves
\* s in order and changes only requests that are on s.
LEMMA OneObjectChanged ==
    ASSUME IInv, NEW s \in LockIds,
           locks' \in [LockIds -> LockState], reqs' \in [Requests -> Request],
           \A t \in LockIds \ {s} : locks'[t] = locks[t],
           ObjectOK(s, locks'[s], reqs'), Awake(locks'[s], reqs'),
           \A r \in Requests : \/ reqs'[r] = reqs[r]
                               \/ /\ reqs[r].status \in {"queued", "held"} => reqs[r].lock = s
                                  /\ reqs'[r].status \in {"queued", "held"} => reqs'[r].lock = s
    PROVE  \A t \in LockIds : ObjectOK(t, locks'[t], reqs') /\ Awake(locks'[t], reqs')
<1>. SUFFICES ASSUME NEW t \in LockIds, t # s
              PROVE  ObjectOK(t, locks'[t], reqs') /\ Awake(locks'[t], reqs')
  OBVIOUS
<1>1. /\ locks'[t] = locks[t] /\ locks[t] \in LockState /\ reqs \in [Requests -> Request]
      /\ ObjectOK(t, locks[t], reqs) /\ Awake(locks[t], reqs)
  BY DEF IInv, TypeOK
<1>2. \A r \in Requests :
        \/ reqs'[r] = reqs[r]
        \/ /\ ~(reqs[r].status \in {"queued", "held"} /\ reqs[r].lock = t)
           /\ ~(reqs'[r].status \in {"queued", "held"} /\ reqs'[r].lock = t)
  OBVIOUS
<1>. QED
  BY <1>1, <1>2, OtherObjects

\* getLockState returns an object in order, and a new one only for a path that
\* has none.
LEMMA StateGotOK ==
    ASSUME IInv, NEW p \in Paths, NEW s \in LockIds, GetsLockState(p, s)
    PROVE  /\ StateGot(p, s) \in LockState
           /\ ObjectOK(s, StateGot(p, s), reqs)
           /\ StateGot(p, s) = FreshLock \/ fileLocks[p] = s
<1>1. CASE fileLocks[p] = s
  BY <1>1 DEF IInv, TypeOK, StateGot
<1>2. CASE fileLocks[p] # s
  <2>1. Unreferenced(s) /\ StateGot(p, s) = FreshLock
    BY <1>2 DEF GetsLockState, StateGot
  <2>2. \A r \in Requests : ~(reqs[r].status \in {"queued", "held"} /\ reqs[r].lock = s)
    BY <2>1 DEF Unreferenced, Live
  <2>. QED
    BY <2>1, <2>2, EmptyOK DEF IInv, TypeOK
<1>. QED
  BY <1>1, <1>2

\* Granting a lock at once, on the object of the Map or on a new one, keeps
\* the invariant.
LEMMA AcquireNowIInv ==
    ASSUME IInv, NEW r \in Requests, NEW mode \in Modes, NEW p \in Paths,
           NEW timed \in BOOLEAN, AcquireNow(r, mode, p, timed)
    PROVE  IInv'
<1>1. PICK s \in LockIds :
        /\ GetsLockState(p, s)
        /\ Admits(mode, StateGot(p, s))
        /\ fileLocks' = [fileLocks EXCEPT ![p] = s]
        /\ locks' = [locks EXCEPT ![s] = Taken(mode, StateGot(p, s))]
        /\ reqs' = [reqs EXCEPT ![r] =
               [status |-> "held", mode |-> mode, path |-> p, lock |-> s, timed |-> timed]]
  BY DEF AcquireNow
<1>2. reqs[r].status = "idle" /\ TypeOK /\ MapOK(fileLocks, reqs)
  BY DEF AcquireNow, IInv
<1>3. /\ reqs' \in [Requests -> Request]
      /\ \A x \in Requests \ {r} : reqs'[x] = reqs[x]
      /\ reqs'[r].status = "held" /\ reqs'[r].mode = mode
      /\ reqs'[r].path = p /\ reqs'[r].lock = s
  BY <1>1, <1>2 DEF TypeOK, Request, Statuses
<1>4. /\ StateGot(p, s) \in LockState /\ ObjectOK(s, StateGot(p, s), reqs)
      /\ StateGot(p, s) = FreshLock \/ fileLocks[p] = s
  BY <1>1, StateGotOK
<1>5. reqs \in [Requests -> Request] /\ Admits(reqs'[r].mode, StateGot(p, s))
  BY <1>1, <1>2, <1>3 DEF TypeOK
<1>6. /\ Taken(mode, StateGot(p, s)) \in LockState
      /\ ObjectOK(s, Taken(mode, StateGot(p, s)), reqs')
      /\ Awake(Taken(mode, StateGot(p, s)), reqs')
  BY <1>2, <1>3, <1>4, <1>5, TakenOK
<1>7. /\ locks' \in [LockIds -> LockState] /\ locks'[s] = Taken(mode, StateGot(p, s))
      /\ \A t \in LockIds \ {s} : locks'[t] = locks[t]
      /\ fileLocks' \in [Paths -> LockIds \cup {None}]
      /\ fileLocks'[p] = s /\ \A q \in Paths \ {p} : fileLocks'[q] = fileLocks[q]
  BY <1>1, <1>2, <1>6 DEF TypeOK
<1>8. \A t \in LockIds : ObjectOK(t, locks'[t], reqs') /\ Awake(locks'[t], reqs')
  BY <1>2, <1>3, <1>6, <1>7, OneObjectChanged
<1>9. fileLocks[p] = s \/ (fileLocks[p] = None /\ \A q \in Paths : fileLocks[q] # s)
  BY <1>1 DEF GetsLockState, Unreferenced
<1>10. MapOK(fileLocks', reqs')
  <2>1. \A x \in Requests : reqs'[x].status \in {"queued", "held"} =>
          /\ reqs'[x].path \in Paths /\ reqs'[x].lock \in LockIds
          /\ fileLocks'[reqs'[x].path] = reqs'[x].lock
    BY <1>2, <1>3, <1>7, <1>9, LockConstants DEF MapOK
  <2>2. \A a, b \in Paths : fileLocks'[a] # None /\ fileLocks'[a] = fileLocks'[b] => a = b
    BY <1>2, <1>7, <1>9, LockConstants DEF MapOK
  <2>3. \A a \in Paths : fileLocks'[a] # None =>
          \E x \in Requests : reqs'[x].status = "held" /\ reqs'[x].path = a
    BY <1>2, <1>3, <1>7 DEF MapOK
  <2>. QED
    BY <2>1, <2>2, <2>3 DEF MapOK
<1>. QED
  BY <1>3, <1>7, <1>8, <1>10 DEF IInv, TypeOK

\* serviceQueue applied to an object in order, every request that changes
\* being on that object.
LEMMA ServiceIInv ==
    ASSUME TypeOK, NEW s \in LockIds, NEW st \in LockState, NEW rq \in [Requests -> Request],
           ObjectOK(s, st, rq), ServiceQueue(s, st, rq)
    PROVE  /\ locks' \in [LockIds -> LockState] /\ reqs' \in [Requests -> Request]
           /\ \A t \in LockIds \ {s} : locks'[t] = locks[t]
           /\ ObjectOK(s, locks'[s], reqs') /\ Awake(locks'[s], reqs')
           /\ \A r \in Requests :
                \/ reqs'[r] = rq[r]
                \/ /\ rq[r].status = "queued" /\ rq[r].lock = s
                   /\ reqs'[r] = [rq[r] EXCEPT !.status = "held"]
<1>1. PICK n \in 0..Len(st.queue) :
        /\ Grants(st, rq, n)
        /\ locks' = [locks EXCEPT ![s] = AfterGrants(st, rq, n)]
        /\ reqs' = WithStatus(rq, FirstOf(st.queue, n), "held")
  BY DEF ServiceQueue
<1>2. /\ AfterGrants(st, rq, n) \in LockState /\ reqs' \in [Requests -> Request]
      /\ ObjectOK(s, AfterGrants(st, rq, n), reqs') /\ Awake(AfterGrants(st, rq, n), reqs')
  BY <1>1, ServedOK
<1>3. /\ locks' \in [LockIds -> LockState] /\ locks'[s] = AfterGrants(st, rq, n)
      /\ \A t \in LockIds \ {s} : locks'[t] = locks[t]
  BY <1>1, <1>2 DEF TypeOK
<1>4. \A r \in FirstOf(st.queue, n) : rq[r].status = "queued" /\ rq[r].lock = s
  BY DEF FirstOf, ObjectOK
<1>5. \A r \in Requests :
        reqs'[r] = IF r \in FirstOf(st.queue, n) THEN [rq[r] EXCEPT !.status = "held"] ELSE rq[r]
  BY <1>1 DEF WithStatus
<1>. QED
  BY <1>2, <1>3, <1>4, <1>5

\* Queueing a request and servicing the queue keeps the invariant.
LEMMA AcquireQueuedIInv ==
    ASSUME IInv, NEW r \in Requests, NEW mode \in Modes, NEW p \in Paths,
           NEW timed \in BOOLEAN, AcquireQueued(r, mode, p, timed)
    PROVE  IInv'
<1> DEFINE rq == [reqs EXCEPT ![r] =
        [status |-> "queued", mode |-> mode, path |-> p, lock |-> fileLocks[p], timed |-> timed]]
<1>1. PICK s \in LockIds :
        /\ GetsLockState(p, s)
        /\ ~Admits(mode, StateGot(p, s))
        /\ fileLocks' = [fileLocks EXCEPT ![p] = s]
        /\ ServiceQueue(s, [StateGot(p, s) EXCEPT !.queue = Append(@, r)],
             [reqs EXCEPT ![r] =
                [status |-> "queued", mode |-> mode, path |-> p, lock |-> s, timed |-> timed]])
  BY DEF AcquireQueued
<1>2. reqs[r].status = "idle" /\ TypeOK /\ MapOK(fileLocks, reqs)
  BY DEF AcquireQueued, IInv
<1>3. /\ StateGot(p, s) \in LockState /\ ObjectOK(s, StateGot(p, s), reqs)
      /\ StateGot(p, s) = FreshLock \/ fileLocks[p] = s
  BY <1>1, StateGotOK
<1>4. Admits(mode, FreshLock)
  BY DEF Admits, FreshLock
<1>5. fileLocks[p] = s /\ fileLocks' = fileLocks
  BY <1>1, <1>2, <1>3, <1>4 DEF TypeOK
<1>6. /\ rq \in [Requests -> Request] /\ reqs \in [Requests -> Request]
      /\ \A x \in Requests \ {r} : rq[x] = reqs[x]
      /\ rq[r].status = "queued" /\ rq[r].lock = s /\ rq[r].path = p
  BY <1>2, <1>5 DEF TypeOK, Request, Statuses
<1> DEFINE st == [StateGot(p, s) EXCEPT !.queue = Append(@, r)]
<1>7. ServiceQueue(s, st, rq)
  BY <1>1, <1>5
<1>. HIDE DEF rq
<1>8. st \in LockState /\ ObjectOK(s, st, rq)
  BY <1>2, <1>3, <1>6, QueuedOK
<1>. HIDE DEF st
<1>9. /\ locks' \in [LockIds -> LockState] /\ reqs' \in [Requests -> Request]
      /\ \A t \in LockIds \ {s} : locks'[t] = locks[t]
      /\ ObjectOK(s, locks'[s], reqs') /\ Awake(locks'[s], reqs')
      /\ \A x \in Requests :
           \/ reqs'[x] = rq[x]
           \/ /\ rq[x].status = "queued" /\ rq[x].lock = s
              /\ reqs'[x] = [rq[x] EXCEPT !.status = "held"]
  BY <1>2, <1>6, <1>7, <1>8, ServiceIInv
<1>10. \A x \in Requests :
         reqs'[x].status \in {"queued", "held"} =>
            /\ x # r => /\ reqs[x].status \in {"queued", "held"}
                        /\ reqs'[x].path = reqs[x].path /\ reqs'[x].lock = reqs[x].lock
            /\ x = r => reqs'[x].path = p /\ reqs'[x].lock = s
  BY <1>6, <1>9 DEF Request
<1>11. \A x \in Requests : reqs[x].status = "held" => reqs'[x] = reqs[x]
  BY <1>2, <1>6, <1>9
<1>12. \A x \in Requests :
         \/ reqs'[x] = reqs[x]
         \/ /\ reqs[x].status \in {"queued", "held"} => reqs[x].lock = s
            /\ reqs'[x].status \in {"queued", "held"} => reqs'[x].lock = s
  BY <1>2, <1>6, <1>9, <1>10
<1>13. \A t \in LockIds : ObjectOK(t, locks'[t], reqs') /\ Awake(locks'[t], reqs')
  BY <1>9, <1>12, OneObjectChanged
<1>14. MapOK(fileLocks', reqs')
  BY <1>2, <1>5, <1>10, <1>11 DEF MapOK
<1>. QED
  BY <1>2, <1>5, <1>9, <1>13, <1>14 DEF IInv, TypeOK

\* A release keeps the invariant, whether it drops the idle object from the
\* Map or wakes the queue.
LEMMA ReleaseIInv ==
    ASSUME IInv, NEW r \in Requests, Release(r)
    PROVE  IInv'
<1> DEFINE s == reqs[r].lock
           p == reqs[r].path
           st == GivenBack(reqs[r].mode, locks[s])
           rq == [reqs EXCEPT ![r] = NoRequest]
<1>1. /\ TypeOK /\ MapOK(fileLocks, reqs) /\ reqs[r].status = "held"
      /\ reqs \in [Requests -> Request]
  BY DEF Release, IInv, TypeOK
<1>2. s \in LockIds /\ p \in Paths /\ fileLocks[p] = s
  BY <1>1 DEF MapOK
<1>3. locks[s] \in LockState /\ ObjectOK(s, locks[s], reqs)
  BY <1>2 DEF IInv, TypeOK
<1>4. /\ rq \in [Requests -> Request] /\ \A x \in Requests \ {r} : rq[x] = reqs[x]
      /\ rq[r].status = "idle"
  BY <1>1 DEF NoRequest, Request, Statuses, Modes
<1>5. st \in LockState /\ ObjectOK(s, st, rq)
  BY <1>1, <1>2, <1>3, GivenBackOK
<1>6. \/ /\ Idle(st)
         /\ fileLocks' = [fileLocks EXCEPT ![p] = None]
         /\ locks' = [locks EXCEPT ![s] = st]
         /\ reqs' = rq
      \/ /\ ~Idle(st)
         /\ fileLocks' = fileLocks
         /\ ServiceQueue(s, st, rq)
  BY DEF Release
<1>. HIDE DEF st, rq
<1>7. CASE Idle(st)
  <2>1. /\ fileLocks' = [fileLocks EXCEPT ![p] = None]
        /\ locks' = [locks EXCEPT ![s] = st] /\ reqs' = rq
    BY <1>6, <1>7
  <2>2. /\ locks' \in [LockIds -> LockState] /\ locks'[s] = st
        /\ \A t \in LockIds \ {s} : locks'[t] = locks[t]
        /\ fileLocks' \in [Paths -> LockIds \cup {None}]
        /\ fileLocks'[p] = None /\ \A q \in Paths \ {p} : fileLocks'[q] = fileLocks[q]
    BY <1>1, <1>2, <1>5, <2>1 DEF TypeOK
  <2>3. Awake(st, rq)
    BY <1>7 DEF Idle, Awake
  <2>4. \A t \in LockIds : ObjectOK(t, locks'[t], reqs') /\ Awake(locks'[t], reqs')
    BY <1>2, <1>4, <1>5, <2>1, <2>2, <2>3, OneObjectChanged
  <2>5. \A x \in Requests : ~(rq[x].status \in {"queued", "held"} /\ rq[x].lock = s)
    <3>1. Holders(rq, s, "read") \subseteq Requests
      BY DEF Holders
    <3>2. Holders(rq, s, "read") = {} /\ Holders(rq, s, "write") = {}
      BY <3>1, <1>5, <1>7, RequestSets DEF Idle, ObjectOK
    <3>3. \A x \in Requests : ~(rq[x].status = "held" /\ rq[x].lock = s)
      BY <3>2, <1>4 DEF Holders, Request, Modes
    <3>4. Len(st.queue) = 0
      BY <1>7 DEF Idle
    <3>5. \A x \in Requests : ~(rq[x].status = "queued" /\ rq[x].lock = s)
      BY <3>4, <1>5 DEF ObjectOK
    <3>. QED
      BY <3>3, <3>5
  <2>6. \A x \in Requests : rq[x].status \in {"queued", "held"} =>
          /\ rq[x].path \in Paths /\ rq[x].lock \in LockIds /\ rq[x].path # p
          /\ fileLocks[rq[x].path] = rq[x].lock
    BY <1>1, <1>2, <1>4, <2>5 DEF MapOK
  <2>7. \A a \in Paths : fileLocks'[a] # None =>
          \E x \in Requests : rq[x].status = "held" /\ rq[x].path = a
    <3>. SUFFICES ASSUME NEW a \in Paths, fileLocks'[a] # None
                  PROVE  \E x \in Requests : rq[x].status = "held" /\ rq[x].path = a
      OBVIOUS
    <3>1. a # p /\ fileLocks[a] # None
      BY <2>2
    <3>2. PICK x \in Requests : reqs[x].status = "held" /\ reqs[x].path = a
      BY <3>1, <1>1 DEF MapOK
    <3>. QED
      BY <3>1, <3>2, <1>4
  <2>8. MapOK(fileLocks', reqs')
    BY <1>1, <2>1, <2>2, <2>6, <2>7 DEF MapOK
  <2>. QED
    BY <1>4, <2>1, <2>2, <2>4, <2>8 DEF IInv, TypeOK
<1>8. CASE ~Idle(st)
  <2>1. fileLocks' = fileLocks /\ ServiceQueue(s, st, rq)
    BY <1>6, <1>8
  <2>2. /\ locks' \in [LockIds -> LockState] /\ reqs' \in [Requests -> Request]
        /\ \A t \in LockIds \ {s} : locks'[t] = locks[t]
        /\ ObjectOK(s, locks'[s], reqs') /\ Awake(locks'[s], reqs')
        /\ \A x \in Requests :
             \/ reqs'[x] = rq[x]
             \/ /\ rq[x].status = "queued" /\ rq[x].lock = s
                /\ reqs'[x] = [rq[x] EXCEPT !.status = "held"]
    BY <1>1, <1>2, <1>4, <1>5, <2>1, ServiceIInv
  <2>3. \A x \in Requests :
          \/ reqs'[x] = reqs[x]
          \/ /\ reqs[x].status \in {"queued", "held"} => reqs[x].lock = s
             /\ reqs'[x].status \in {"queued", "held"} => reqs'[x].lock = s
    BY <1>4, <2>2 DEF Request
  <2>4. \A t \in LockIds : ObjectOK(t, locks'[t], reqs') /\ Awake(locks'[t], reqs')
    BY <1>2, <2>2, <2>3, OneObjectChanged
  <2>5. \A x \in Requests : reqs'[x].status \in {"queued", "held"} =>
          /\ reqs[x].status \in {"queued", "held"}
          /\ reqs'[x].path = reqs[x].path /\ reqs'[x].lock = reqs[x].lock
    BY <1>4, <2>2 DEF Request
  <2>6. \E x \in Requests : reqs'[x].status = "held" /\ reqs'[x].lock = s
    <3>1. locks'[s].writer \/ locks'[s].readers > 0
      <4>1. st.writer \/ st.readers > 0 \/ st.queue # <<>>
        BY <1>5, <1>8 DEF Idle, LockState
      <4>2. PICK n \in 0..Len(st.queue) :
              Grants(st, rq, n) /\ locks' = [locks EXCEPT ![s] = AfterGrants(st, rq, n)]
        BY <2>1 DEF ServiceQueue
      <4>3. locks'[s] = AfterGrants(st, rq, n)
        BY <4>2, <1>1, <1>2 DEF TypeOK
      <4>4. AfterGrants(st, rq, n).readers =
              IF n > 0 /\ Reads(st, rq, 1) THEN st.readers + n ELSE st.readers
        BY DEF AfterGrants
      <4>6. AfterGrants(st, rq, n).writer <=> st.writer \/ (n > 0 /\ ~Reads(st, rq, 1))
        BY DEF AfterGrants
      <4>5. st.writer \/ st.readers > 0 \/ n > 0
        BY <4>1, <4>2 DEF Grants
      <4>. QED
        BY <4>3, <4>4, <4>5, <4>6, <1>5 DEF LockState
    <3>2. Holders(reqs', s, "read") \subseteq Requests
      BY DEF Holders
    <3>3. Holders(reqs', s, "read") # {} \/ Holders(reqs', s, "write") # {}
      <4>1. CASE locks'[s].writer
        BY <4>1, <2>2 DEF ObjectOK
      <4>2. CASE locks'[s].readers > 0
        <5>1. locks'[s].readers = Cardinality(Holders(reqs', s, "read"))
          BY <2>2 DEF ObjectOK
        <5>. QED
          BY <3>2, <4>2, <5>1, RequestSets
      <4>. QED
        BY <3>1, <4>1, <4>2
    <3>. QED
      BY <3>3 DEF Holders
  <2>7. \A a \in Paths : fileLocks[a] # None =>
          \E x \in Requests : reqs'[x].status = "held" /\ reqs'[x].path = a
    <3>. SUFFICES ASSUME NEW a \in Paths, fileLocks[a] # None
                  PROVE  \E x \in Requests : reqs'[x].status = "held" /\ reqs'[x].path = a
      OBVIOUS
    <3>1. PICK y \in Requests : reqs[y].status = "held" /\ reqs[y].path = a
      BY <1>1 DEF MapOK
    <3>2. CASE y # r
      BY <3>1, <3>2, <1>4, <2>2
    <3>3. CASE y = r
      <4>1. PICK x \in Requests : reqs'[x].status = "held" /\ reqs'[x].lock = s
        BY <2>6
      <4>2. reqs[x].path \in Paths /\ fileLocks[reqs[x].path] = s /\ reqs'[x].path = reqs[x].path
        BY <4>1, <2>5, <1>1 DEF MapOK
      <4>3. reqs'[x].path = p
        BY <4>2, <1>1, <1>2, LockConstants DEF MapOK
      <4>. QED
        BY <4>1, <4>3, <3>1, <3>3
    <3>. QED
      BY <3>2, <3>3
  <2>8. MapOK(fileLocks', reqs')
    BY <1>1, <2>1, <2>5, <2>7 DEF MapOK
  <2>. QED
    BY <1>1, <2>1, <2>2, <2>4, <2>8 DEF IInv, TypeOK
<1>. QED
  BY <1>7, <1>8

\* A request that times out of any place of the queue keeps the invariant.
LEMMA TimeoutIInv ==
    ASSUME IInv, NEW r \in Requests, Timeout(r)
    PROVE  IInv'
<1> DEFINE s == reqs[r].lock
           q == locks[s].queue
           rq == WithStatus(reqs, {r}, "rejected")
<1>1. /\ TypeOK /\ MapOK(fileLocks, reqs) /\ reqs[r].status = "queued"
      /\ reqs \in [Requests -> Request]
  BY DEF Timeout, IInv, TypeOK
<1>2. s \in LockIds /\ fileLocks' = fileLocks
  BY <1>1 DEF MapOK, Timeout
<1>3. locks[s] \in LockState /\ ObjectOK(s, locks[s], reqs)
  BY <1>2 DEF IInv, TypeOK
<1>4. PICK i \in 1..Len(q) :
        q[i] = r /\ ServiceQueue(s, [locks[s] EXCEPT !.queue = Without(@, i)], rq)
  <2>1. DOMAIN q = 1..Len(q)
    BY <1>3 DEF LockState
  <2>. QED
    BY <2>1 DEF Timeout
<1> DEFINE st == [locks[s] EXCEPT !.queue = Without(@, i)]
<1>5. st \in LockState /\ rq \in [Requests -> Request] /\ ObjectOK(s, st, rq)
  <2>1. rq = WithStatus(reqs, {q[i]}, "rejected")
    BY <1>4
  <2>. HIDE DEF rq
  <2>2. /\ st \in LockState /\ WithStatus(reqs, {q[i]}, "rejected") \in [Requests -> Request]
        /\ ObjectOK(s, st, WithStatus(reqs, {q[i]}, "rejected"))
    BY <1>1, <1>2, <1>3, LeftOK
  <2>. QED
    BY <2>1, <2>2
<1>6. (\A x \in Requests \ {r} : rq[x] = reqs[x]) /\ rq[r].status = "rejected"
  BY <1>1 DEF WithStatus, Request
<1>. HIDE DEF st, rq
<1>7. /\ locks' \in [LockIds -> LockState] /\ reqs' \in [Requests -> Request]
      /\ \A t \in LockIds \ {s} : locks'[t] = locks[t]
      /\ ObjectOK(s, locks'[s], reqs') /\ Awake(locks'[s], reqs')
      /\ \A x \in Requests :
           \/ reqs'[x] = rq[x]
           \/ /\ rq[x].status = "queued" /\ rq[x].lock = s
              /\ reqs'[x] = [rq[x] EXCEPT !.status = "held"]
  BY <1>1, <1>2, <1>4, <1>5, ServiceIInv DEF st
<1>8. \A x \in Requests :
        \/ reqs'[x] = reqs[x]
        \/ /\ reqs[x].status \in {"queued", "held"} => reqs[x].lock = s
           /\ reqs'[x].status \in {"queued", "held"} => reqs'[x].lock = s
  BY <1>6, <1>7 DEF Request
<1>9. \A t \in LockIds : ObjectOK(t, locks'[t], reqs') /\ Awake(locks'[t], reqs')
  BY <1>2, <1>7, <1>8, OneObjectChanged
<1>10. \A x \in Requests : reqs'[x].status \in {"queued", "held"} =>
         /\ reqs[x].status \in {"queued", "held"}
         /\ reqs'[x].path = reqs[x].path /\ reqs'[x].lock = reqs[x].lock
  BY <1>6, <1>7 DEF Request
<1>11. \A x \in Requests : reqs[x].status = "held" => reqs'[x] = reqs[x]
  BY <1>1, <1>6, <1>7
<1>12. MapOK(fileLocks', reqs')
  BY <1>1, <1>2, <1>10, <1>11 DEF MapOK
<1>. QED
  BY <1>1, <1>2, <1>7, <1>9, <1>12 DEF IInv, TypeOK

\* A caller that takes note of a rejection keeps the invariant.
LEMMA ForgetIInv ==
    ASSUME IInv, NEW r \in Requests, Forget(r)
    PROVE  IInv'
<1>1. /\ TypeOK /\ MapOK(fileLocks, reqs) /\ reqs[r].status = "rejected"
      /\ reqs \in [Requests -> Request] /\ locks' = locks /\ fileLocks' = fileLocks
  BY DEF Forget, IInv, TypeOK
<1>2. /\ reqs' \in [Requests -> Request] /\ \A x \in Requests \ {r} : reqs'[x] = reqs[x]
      /\ reqs'[r].status = "idle"
  BY <1>1 DEF Forget, NoRequest, Request, Statuses, Modes
<1>3. \A t \in LockIds : ObjectOK(t, locks'[t], reqs') /\ Awake(locks'[t], reqs')
  <2>. SUFFICES ASSUME NEW t \in LockIds
                PROVE  ObjectOK(t, locks[t], reqs') /\ Awake(locks[t], reqs')
    BY <1>1
  <2>1. locks[t] \in LockState /\ ObjectOK(t, locks[t], reqs) /\ Awake(locks[t], reqs)
    BY DEF IInv, TypeOK
  <2>. QED
    BY <2>1, <1>1, <1>2, OtherObjects
<1>4. MapOK(fileLocks', reqs')
  BY <1>1, <1>2 DEF MapOK
<1>. QED
  BY <1>1, <1>2, <1>3, <1>4 DEF IInv, TypeOK

\* Every step of the lock manager keeps the invariant.
LEMMA NextIInv ==
    ASSUME IInv, [LockNext]_lockVars
    PROVE  IInv'
<1>1. CASE UNCHANGED lockVars
  BY <1>1 DEF IInv, TypeOK, lockVars
<1>2. ASSUME NEW r \in Requests, NEW mode \in Modes, NEW p \in Paths, NEW timed \in BOOLEAN,
             Acquire(r, mode, p, timed)
      PROVE  IInv'
  BY <1>2, AcquireNowIInv, AcquireQueuedIInv DEF Acquire
<1>3. ASSUME NEW r \in Requests, Release(r) PROVE IInv'
  BY <1>3, ReleaseIInv
<1>4. ASSUME NEW r \in Requests, Timeout(r) PROVE IInv'
  BY <1>4, TimeoutIInv
<1>5. ASSUME NEW r \in Requests, Forget(r) PROVE IInv'
  BY <1>5, ForgetIInv
<1>. QED
  BY <1>1, <1>2, <1>3, <1>4, <1>5 DEF LockNext

\* Every reachable state of the lock manager satisfies the inductive invariant.
THEOREM LockInvariance == LockSpec => []IInv
<1>. QED
  BY InitIInv, NextIInv, PTL DEF LockSpec

\* The properties of the lock manager follow from the inductive invariant.
LEMMA IInvMutualExclusion == IInv => MutualExclusion
<1>. SUFFICES ASSUME IInv, NEW r1 \in Requests, NEW r2 \in Requests,
                     reqs[r1].status = "held", reqs[r2].status = "held",
                     reqs[r1].path = reqs[r2].path, r1 # r2, reqs[r1].mode # "read"
              PROVE  FALSE
  BY DEF MutualExclusion
<1>1. /\ reqs[r1].mode = "write" /\ reqs[r2].mode \in {"read", "write"}
      /\ reqs[r1].lock = reqs[r2].lock /\ reqs[r1].lock \in LockIds
  BY DEF IInv, TypeOK, Request, Modes, MapOK
<1> DEFINE s == reqs[r1].lock
<1>2. ObjectOK(s, locks[s], reqs)
  BY <1>1 DEF IInv
<1>3. r1 \in Holders(reqs, s, "write")
  BY <1>1 DEF Holders
<1>4. CASE reqs[r2].mode = "write"
  BY <1>1, <1>2, <1>3, <1>4 DEF Holders, ObjectOK
<1>5. CASE reqs[r2].mode = "read"
  <2>1. r2 \in Holders(reqs, s, "read") /\ Holders(reqs, s, "read") \subseteq Requests
    BY <1>1, <1>5 DEF Holders
  <2>. QED
    BY <2>1, <1>2, <1>3, RequestSets DEF ObjectOK
<1>. QED
  BY <1>1, <1>4, <1>5

\* The invariant implies that counters agree with the release functions.
LEMMA IInvCountersMatch == IInv => CountersMatch
  BY DEF IInv, ObjectOK, CountersMatch, HeldOn, Holders

\* The invariant implies that the Map has exactly the live objects.
LEMMA IInvMapIsLive == IInv => MapIsLive
  BY LockConstants DEF IInv, MapOK, MapIsLive, Live

\* The invariant implies that no head of a queue is grantable.
LEMMA IInvNoLostWakeup == IInv => NoLostWakeup
  BY DEF IInv, Awake, NoLostWakeup

-----------------------------------------------------------------------------
(* What a step of the lock manager does to the requests, for its callers *)

\* x is as before, or its turn came on the path p.
Granted(x, p) ==
    \/ reqs'[x] = reqs[x]
    \/ /\ reqs[x].status = "queued" /\ reqs[x].path = p
       /\ reqs'[x] = [reqs[x] EXCEPT !.status = "held"]

\* Requests that are on one object are on one path.
LEMMA SamePath ==
    ASSUME IInv, NEW r \in Requests, NEW x \in Requests,
           reqs[r].status \in {"queued", "held"}, reqs[x].status \in {"queued", "held"},
           reqs[x].lock = reqs[r].lock
    PROVE  reqs[x].path = reqs[r].path
  BY LockConstants DEF IInv, MapOK

\* An acquire call answers its caller and changes nobody else's request: the
\* serviceQueue call that ends it finds nothing to grant.
LEMMA AcquireEffect ==
    ASSUME IInv, NEW r \in Requests, NEW mode \in Modes, NEW p \in Paths,
           NEW timed \in BOOLEAN, Acquire(r, mode, p, timed)
    PROVE  /\ reqs[r].status = "idle"
           /\ reqs'[r].status \in {"queued", "held"}
           /\ reqs'[r].mode = mode /\ reqs'[r].path = p /\ reqs'[r].timed = timed
           /\ \A x \in Requests \ {r} : reqs'[x] = reqs[x]
<1>1. TypeOK
  BY DEF IInv
<1>2. CASE AcquireNow(r, mode, p, timed)
  BY <1>1, <1>2 DEF AcquireNow, TypeOK
<1>3. CASE AcquireQueued(r, mode, p, timed)
  <2>1. PICK s \in LockIds :
          /\ GetsLockState(p, s)
          /\ ~Admits(mode, StateGot(p, s))
          /\ ServiceQueue(s, [StateGot(p, s) EXCEPT !.queue = Append(@, r)],
               [reqs EXCEPT ![r] =
                  [status |-> "queued", mode |-> mode, path |-> p, lock |-> s, timed |-> timed]])
    BY <1>3 DEF AcquireQueued
  <2> DEFINE got == StateGot(p, s)
             st == [got EXCEPT !.queue = Append(@, r)]
             rq == [reqs EXCEPT ![r] =
                  [status |-> "queued", mode |-> mode, path |-> p, lock |-> s, timed |-> timed]]
  <2>2. got \in LockState /\ (got = FreshLock \/ fileLocks[p] = s)
    BY <2>1, StateGotOK
  <2>3. Admits(mode, FreshLock)
    BY DEF Admits, FreshLock
  <2>4. fileLocks[p] = s /\ got = locks[s]
    BY <2>1, <2>2, <2>3 DEF StateGot
  <2>5. Awake(got, reqs) /\ ObjectOK(s, got, reqs)
    BY <2>4 DEF IInv
  <2>6. /\ \A x \in Requests \ {r} : rq[x] = reqs[x]
        /\ rq[r].status = "queued" /\ rq[r].mode = mode /\ rq[r].path = p /\ rq[r].timed = timed
    BY <1>1 DEF TypeOK
  <2>7. PICK n \in 0..Len(st.queue) :
          Grants(st, rq, n) /\ reqs' = WithStatus(rq, FirstOf(st.queue, n), "held")
    BY <2>1 DEF ServiceQueue
  <2>8. /\ got.queue \in Seq(Requests) /\ st.readers = got.readers /\ st.writer = got.writer
        /\ st.queue # <<>> /\ st.queue = Append(got.queue, r)
    BY <2>2 DEF LockState
  <2>. HIDE DEF st, rq
  <2>9. n = 0
    <3>1. CASE got.queue = <<>>
      <4>1. st.queue[1] = r
        BY <3>1, <2>8
      <4>2. got.writer \/ (mode = "write" /\ got.readers # 0)
        BY <3>1, <2>1 DEF Admits
      <4>. QED
        BY <4>1, <4>2, <2>6, <2>7, <2>8 DEF Grants, Reads
    <3>2. CASE got.queue # <<>>
      <4>1. st.queue[1] = got.queue[1] /\ got.queue[1] \in Requests /\ 1 \in 1..Len(got.queue)
        BY <3>2, <2>8
      <4>2. reqs[got.queue[1]].status = "queued"
        BY <4>1, <2>5 DEF ObjectOK
      <4>3. rq[st.queue[1]] = reqs[got.queue[1]]
        BY <4>1, <4>2, <2>6, <1>3 DEF AcquireQueued
      <4>4. got.writer \/ (got.readers > 0 /\ rq[st.queue[1]].mode = "write")
        BY <4>3, <3>2, <2>5 DEF Awake
      <4>. QED
        BY <4>4, <2>2, <2>7, <2>8 DEF Grants, Reads, LockState
    <3>. QED
      BY <3>1, <3>2
  <2>10. FirstOf(st.queue, n) = {}
    BY <2>9 DEF FirstOf
  <2>11. \A x \in Requests : reqs'[x] = rq[x]
    BY <2>7, <2>10 DEF WithStatus
  <2>. QED
    BY <2>6, <2>11, <1>3 DEF AcquireQueued
<1>. QED
  BY <1>2, <1>3 DEF Acquire

\* A release ends its own request and may grant others on the same path.
LEMMA ReleaseEffect ==
    ASSUME IInv, NEW r \in Requests, Release(r)
    PROVE  /\ reqs[r].status = "held" /\ reqs'[r] = NoRequest
           /\ \A x \in Requests \ {r} : Granted(x, reqs[r].path)
<1> DEFINE s == reqs[r].lock
           st == GivenBack(reqs[r].mode, locks[s])
           rq == [reqs EXCEPT ![r] = NoRequest]
<1>1. TypeOK /\ reqs[r].status = "held" /\ s \in LockIds
  BY DEF IInv, MapOK, Release
<1>2. (\A x \in Requests \ {r} : rq[x] = reqs[x]) /\ rq[r] = NoRequest
  BY <1>1 DEF TypeOK
<1>3. reqs' = rq \/ ServiceQueue(s, st, rq)
  BY DEF Release
<1>4. rq \in [Requests -> Request]
  BY <1>1 DEF TypeOK, NoRequest, Request, Statuses, Modes
<1>5. st \in LockState /\ ObjectOK(s, st, rq)
  BY <1>1, GivenBackOK DEF IInv, TypeOK
<1>. HIDE DEF st, rq
<1>6. \A x \in Requests :
        \/ reqs'[x] = rq[x]
        \/ /\ rq[x].status = "queued" /\ rq[x].lock = s
           /\ reqs'[x] = [rq[x] EXCEPT !.status = "held"]
  BY <1>1, <1>3, <1>4, <1>5, ServiceIInv
<1>7. reqs'[r] = NoRequest
  <2>1. rq[r].status = "idle"
    BY <1>2 DEF NoRequest
  <2>. QED
    BY <2>1, <1>2, <1>6
<1>8. \A x \in Requests \ {r} : reqs[x].status = "queued" /\ reqs[x].lock = s =>
        reqs[x].path = reqs[r].path
  BY <1>1, SamePath
<1>. QED
  BY <1>1, <1>2, <1>6, <1>7, <1>8 DEF Granted

\* A timeout rejects its own request and may grant others on the same path.
LEMMA TimeoutEffect ==
    ASSUME IInv, NEW r \in Requests, Timeout(r)
    PROVE  /\ reqs[r].status = "queued" /\ reqs'[r] = [reqs[r] EXCEPT !.status = "rejected"]
           /\ \A x \in Requests \ {r} : Granted(x, reqs[r].path)
<1> DEFINE s == reqs[r].lock
           q == locks[s].queue
           rq == WithStatus(reqs, {r}, "rejected")
<1>1. /\ TypeOK /\ reqs[r].status = "queued" /\ reqs \in [Requests -> Request]
      /\ s \in LockIds /\ locks[s] \in LockState /\ ObjectOK(s, locks[s], reqs)
  BY DEF Timeout, IInv, TypeOK, MapOK
<1>2. PICK i \in 1..Len(q) :
        q[i] = r /\ ServiceQueue(s, [locks[s] EXCEPT !.queue = Without(@, i)], rq)
  <2>1. DOMAIN q = 1..Len(q)
    BY <1>1 DEF LockState
  <2>. QED
    BY <2>1 DEF Timeout
<1>3. /\ \A x \in Requests \ {r} : rq[x] = reqs[x]
      /\ rq[r] = [reqs[r] EXCEPT !.status = "rejected"] /\ rq[r].status = "rejected"
  BY <1>1 DEF WithStatus, Request
<1> DEFINE st == [locks[s] EXCEPT !.queue = Without(@, i)]
<1>4. st \in LockState /\ rq \in [Requests -> Request] /\ ObjectOK(s, st, rq)
  <2>1. rq = WithStatus(reqs, {q[i]}, "rejected")
    BY <1>2
  <2>. HIDE DEF rq
  <2>2. /\ st \in LockState /\ WithStatus(reqs, {q[i]}, "rejected") \in [Requests -> Request]
        /\ ObjectOK(s, st, WithStatus(reqs, {q[i]}, "rejected"))
    BY <1>1, LeftOK
  <2>. QED
    BY <2>1, <2>2
<1>. HIDE DEF rq
<1>5. \A x \in Requests :
        \/ reqs'[x] = rq[x]
        \/ /\ rq[x].status = "queued" /\ rq[x].lock = s
           /\ reqs'[x] = [rq[x] EXCEPT !.status = "held"]
  BY <1>1, <1>2, <1>4, ServiceIInv
<1>6. \A x \in Requests \ {r} : reqs[x].status = "queued" /\ reqs[x].lock = s =>
        reqs[x].path = reqs[r].path
  BY <1>1, SamePath
<1>7. reqs'[r] = rq[r]
  BY <1>3, <1>5
<1>8. \A x \in Requests \ {r} : Granted(x, reqs[r].path)
  BY <1>1, <1>3, <1>5, <1>6 DEF Granted
<1>. QED
  BY <1>1, <1>3, <1>7, <1>8

-----------------------------------------------------------------------------
(* The adapter *)

\* A call c with its lock requests a and b.
CallOK(c, a, b) ==
    /\ c.pc \in {"idle", "purge"} => a = NoRequest /\ b = NoRequest
    /\ c.pc \notin {"idle", "purge"} =>
        /\ c.kind \in CallKinds /\ c.from \in Paths /\ c.to \in Paths
        /\ c.kind # "move" => c.from = c.to
        /\ a.status # "idle" /\ a.mode = LockMode(c.kind) /\ a.path = FirstPath(c)
    /\ c.pc = "first" => b = NoRequest
    /\ c.pc = "second" =>
        /\ c.kind = "move" /\ c.from # c.to /\ a.status = "held"
        /\ b.status # "idle" /\ b.mode = "write" /\ b.path = SecondPath(c)
    /\ c.pc = "stream" => a.status = "held" /\ b = NoRequest /\ c.from = c.to
    /\ c.pc = "unwind" => a.status = "held" /\ (b = NoRequest \/ b.status = "held")

CallsOK ==
    /\ ops \in [Ops -> Call]
    /\ file \in [Paths -> Contents]
    /\ \A o \in Ops : CallOK(ops[o], reqs[<<o, 1>>], reqs[<<o, 2>>])

AInv == IInv /\ CallsOK

-----------------------------------------------------------------------------

\* The two paths of a call, in the order in which move locks them.
LEMMA PathOrder ==
    ASSUME NEW c, c.from \in Paths, c.to \in Paths
    PROVE  /\ FirstPath(c) \in Paths /\ SecondPath(c) \in Paths
           /\ c.from = c.to => FirstPath(c) = c.from
           /\ c.from # c.to => /\ FirstPath(c) < SecondPath(c)
                               /\ {FirstPath(c), SecondPath(c)} = {c.from, c.to}
<1>1. c.from \in Int /\ c.to \in Int
  BY FileConstants
<1>2. CASE c.from < c.to
  <2>1. FirstPath(c) = c.from /\ SecondPath(c) = c.to
    BY <1>2 DEF FirstPath, SecondPath, Lower
  <2>. QED
    BY <1>1, <1>2, <2>1
<1>3. CASE ~(c.from < c.to)
  <2>1. FirstPath(c) = c.to /\ SecondPath(c) = IF c.to = c.from THEN c.to ELSE c.from
    BY <1>3 DEF FirstPath, SecondPath, Lower
  <2>. QED
    BY <1>1, <1>3, <2>1
<1>. QED
  BY <1>2, <1>3

\* The requests of different calls, and the two of one call, are different.
LEMMA TwoRequests ==
    ASSUME NEW o \in Ops
    PROVE  /\ <<o, 1>> \in Requests /\ <<o, 2>> \in Requests /\ <<o, 1>> # <<o, 2>>
           /\ \A d \in Ops, i \in {1, 2}, j \in {1, 2} : d # o => <<d, i>> # <<o, j>>
  BY FileConstants

\* A call whose own code does not run does not notice that its turn comes.
LEMMA CallKept ==
    ASSUME NEW c, NEW a, NEW b, NEW a2, NEW b2, CallOK(c, a, b),
           a \in Request, b \in Request,
           a2 = a \/ (a.status = "queued" /\ a2 = [a EXCEPT !.status = "held"]),
           b2 = b \/ (b.status = "queued" /\ b2 = [b EXCEPT !.status = "held"])
    PROVE  CallOK(c, a2, b2)
<1>1. /\ a2.mode = a.mode /\ a2.path = a.path /\ (a.status = "held" => a2 = a)
      /\ (a.status # "idle" => a2.status # "idle")
  BY DEF Request
<1>2. /\ b2.mode = b.mode /\ b2.path = b.path /\ (b.status = "held" => b2 = b)
      /\ (b.status # "idle" => b2.status # "idle")
  BY DEF Request
<1>3. NoRequest.status = "idle"
  BY DEF NoRequest
<1>4. (a = NoRequest => a2 = NoRequest) /\ (b = NoRequest => b2 = NoRequest)
  BY <1>3
<1>. QED
  BY <1>1, <1>2, <1>3, <1>4 DEF CallOK

\* Every other call, when only requests of the call o are made or ended.
LEMMA OtherCallsKept ==
    ASSUME AInv, NEW o \in Ops, NEW p,
           \A d \in Ops \ {o} : ops'[d] = ops[d],
           \A x \in Requests : x \in {<<o, 1>>, <<o, 2>>} \/ Granted(x, p)
    PROVE  \A d \in Ops \ {o} : CallOK(ops'[d], reqs'[<<d, 1>>], reqs'[<<d, 2>>])
<1>. SUFFICES ASSUME NEW d \in Ops, d # o
              PROVE  CallOK(ops[d], reqs'[<<d, 1>>], reqs'[<<d, 2>>])
  OBVIOUS
<1>1. CallOK(ops[d], reqs[<<d, 1>>], reqs[<<d, 2>>]) /\ reqs \in [Requests -> Request]
  BY DEF AInv, CallsOK, IInv, TypeOK
<1>2. /\ <<d, 1>> \in Requests /\ <<d, 2>> \in Requests
      /\ <<d, 1>> \notin {<<o, 1>>, <<o, 2>>} /\ <<d, 2>> \notin {<<o, 1>>, <<o, 2>>}
  BY TwoRequests
<1>3. Granted(<<d, 1>>, p) /\ Granted(<<d, 2>>, p)
  BY <1>2
<1>. QED
  BY <1>1, <1>2, <1>3, CallKept DEF Granted

\* The invariant holds before any call.
LEMMA InitAInv == Init => AInv
<1>. SUFFICES ASSUME Init PROVE AInv
  OBVIOUS
<1>1. IInv
  BY InitIInv DEF Init
<1>2. ops \in [Ops -> Call] /\ file \in [Paths -> Contents]
  BY DEF Init, NoCall, Call, Kinds, PCs, Contents
<1>3. \A o \in Ops : ops[o].pc = "idle" /\ reqs[<<o, 1>>] = NoRequest /\ reqs[<<o, 2>>] = NoRequest
  BY TwoRequests DEF Init, LockInit, NoCall
<1>4. \A o \in Ops : CallOK(ops[o], reqs[<<o, 1>>], reqs[<<o, 2>>])
  BY <1>3 DEF CallOK
<1>. QED
  BY <1>1, <1>2, <1>4 DEF AInv, CallsOK

-----------------------------------------------------------------------------
(* Each action preserves CallsOK and uses the lock manager as it should *)

\* A call that begins keeps every call consistent with its requests.
LEMMA StartOK ==
    ASSUME AInv, NEW o \in Ops, NEW kind \in CallKinds, NEW from \in Paths, NEW to \in Paths,
           NEW timed \in BOOLEAN, Start(o, kind, from, to, timed)
    PROVE  LockNext /\ CallsOK'
<1> DEFINE c == [kind |-> kind, pc |-> "first", from |-> from, to |-> to, timed |-> timed]
<1>1. /\ ops[o].pc = "idle" /\ (kind # "move" => from = to)
      /\ ops' = [ops EXCEPT ![o] = c] /\ file' = file
      /\ Acquire(<<o, 1>>, LockMode(kind), FirstPath(c), timed)
  BY DEF Start
<1>2. FirstPath(c) \in Paths /\ LockMode(kind) \in Modes
  BY PathOrder DEF LockMode, Modes
<1>. HIDE DEF c
<1>3. LockNext
  BY <1>1, <1>2, TwoRequests DEF LockNext
<1>4. /\ reqs'[<<o, 1>>].status \in {"queued", "held"} /\ reqs'[<<o, 1>>].mode = LockMode(kind)
      /\ reqs'[<<o, 1>>].path = FirstPath(c)
      /\ \A x \in Requests \ {<<o, 1>>} : reqs'[x] = reqs[x]
  <2>1. <<o, 1>> \in Requests /\ IInv
    BY TwoRequests DEF AInv
  <2>2. Acquire(<<o, 1>>, LockMode(kind), FirstPath(c), timed)
    BY <1>1
  <2>. HIDE DEF Start
  <2>. QED
    BY <2>1, <2>2, <1>2, AcquireEffect
<1>5. reqs'[<<o, 2>>] = NoRequest
  BY <1>1, <1>4, TwoRequests DEF AInv, CallsOK, CallOK
<1>6. c \in Call
  BY FileConstants DEF Call, Kinds, PCs, c
<1>7. /\ ops' \in [Ops -> Call] /\ ops'[o] = c /\ \A d \in Ops \ {o} : ops'[d] = ops[d]
      /\ file' \in [Paths -> Contents]
  BY <1>1, <1>6 DEF AInv, CallsOK
<1>8. CallOK(ops'[o], reqs'[<<o, 1>>], reqs'[<<o, 2>>])
  <2>1. c.kind = kind /\ c.pc = "first" /\ c.from = from /\ c.to = to
    BY DEF c
  <2>. QED
    BY <2>1, <1>1, <1>4, <1>5, <1>7 DEF CallOK
<1>9. \A d \in Ops \ {o} : CallOK(ops'[d], reqs'[<<d, 1>>], reqs'[<<d, 2>>])
  BY <1>4, <1>7, OtherCallsKept DEF Granted
<1>. QED
  BY <1>3, <1>7, <1>8, <1>9 DEF CallsOK

\* A move that asks for its second lock asks for the higher path, holding
\* the lower one.
LEMMA MoveSecondOK ==
    ASSUME AInv, NEW o \in Ops, MoveSecond(o)
    PROVE  LockNext /\ CallsOK'
<1>1. /\ ops[o].kind = "move" /\ ops[o].pc = "first" /\ reqs[<<o, 1>>].status = "held"
      /\ ops[o].from # ops[o].to /\ ops' = [ops EXCEPT ![o].pc = "second"] /\ file' = file
      /\ Acquire(<<o, 2>>, "write", SecondPath(ops[o]), ops[o].timed)
  BY DEF MoveSecond, Has, Goto
<1>2. /\ ops \in [Ops -> Call] /\ file \in [Paths -> Contents]
      /\ CallOK(ops[o], reqs[<<o, 1>>], reqs[<<o, 2>>])
  BY DEF AInv, CallsOK
<1>3. SecondPath(ops[o]) \in Paths /\ "write" \in Modes /\ ops[o].timed \in BOOLEAN
  BY <1>1, <1>2, PathOrder DEF CallOK, Modes, Call
<1>4. LockNext
  BY <1>1, <1>3, TwoRequests DEF LockNext
<1>5. /\ reqs'[<<o, 2>>].status \in {"queued", "held"} /\ reqs'[<<o, 2>>].mode = "write"
      /\ reqs'[<<o, 2>>].path = SecondPath(ops[o])
      /\ \A x \in Requests \ {<<o, 2>>} : reqs'[x] = reqs[x]
  BY <1>1, <1>3, TwoRequests, AcquireEffect DEF AInv
<1>6. /\ ops' \in [Ops -> Call] /\ ops'[o] = [ops[o] EXCEPT !.pc = "second"]
      /\ \A d \in Ops \ {o} : ops'[d] = ops[d]
  BY <1>1, <1>2 DEF Call, PCs
<1>7. /\ ops'[o].pc = "second" /\ ops'[o].kind = ops[o].kind /\ ops'[o].from = ops[o].from
      /\ ops'[o].to = ops[o].to
  BY <1>2, <1>6 DEF Call
<1>8. CallOK(ops'[o], reqs'[<<o, 1>>], reqs'[<<o, 2>>])
  BY <1>1, <1>2, <1>5, <1>7, TwoRequests DEF CallOK, FirstPath, SecondPath
<1>9. \A d \in Ops \ {o} : CallOK(ops'[d], reqs'[<<d, 1>>], reqs'[<<d, 2>>])
  BY <1>5, <1>6, OtherCallsKept DEF Granted
<1>. QED
  BY <1>1, <1>2, <1>4, <1>6, <1>8, <1>9 DEF CallsOK

\* Steps in which the call o ends its own request i and moves on.
LEMMA ForgetOK ==
    ASSUME AInv, NEW o \in Ops, NEW i \in {1, 2}, NEW c \in Call, Forget(<<o, i>>),
           ops' = [ops EXCEPT ![o] = c], file' = file,
           CallOK(c, reqs'[<<o, 1>>], reqs'[<<o, 2>>])
    PROVE  LockNext /\ CallsOK'
<1>1. LockNext
  BY TwoRequests DEF LockNext
<1>2. \A x \in Requests \ {<<o, i>>} : reqs'[x] = reqs[x]
  BY DEF Forget, AInv, IInv, TypeOK
<1>3. /\ ops' \in [Ops -> Call] /\ ops'[o] = c /\ file' \in [Paths -> Contents]
      /\ \A d \in Ops \ {o} : ops'[d] = ops[d]
  BY DEF AInv, CallsOK
<1>4. \A x \in Requests : x \in {<<o, 1>>, <<o, 2>>} \/ Granted(x, None)
  BY <1>2 DEF Granted
<1>5. \A d \in Ops \ {o} : CallOK(ops'[d], reqs'[<<d, 1>>], reqs'[<<d, 2>>])
  BY <1>3, <1>4, OtherCallsKept
<1>. QED
  BY <1>1, <1>3, <1>5 DEF CallsOK

\* A call refused its first lock ends with no lock.
LEMMA LockedOK ==
    ASSUME AInv, NEW o \in Ops, Locked(o)
    PROVE  LockNext /\ CallsOK'
<1>1. /\ ops[o].pc = "first" /\ Forget(<<o, 1>>)
      /\ ops' = [ops EXCEPT ![o] = NoCall] /\ file' = file
  BY DEF Locked
<1>2. NoCall \in Call /\ NoCall.pc = "idle"
  BY DEF NoCall, Call, Kinds, PCs
<1>3. reqs'[<<o, 1>>] = NoRequest /\ reqs'[<<o, 2>>] = NoRequest
  BY <1>1, TwoRequests DEF Forget, AInv, IInv, TypeOK, CallsOK, CallOK
<1>4. CallOK(NoCall, reqs'[<<o, 1>>], reqs'[<<o, 2>>])
  BY <1>2, <1>3 DEF CallOK
<1>. QED
  BY <1>1, <1>2, <1>4, ForgetOK

\* A move refused its second lock still has the first to give back.
LEMMA SecondLockedOK ==
    ASSUME AInv, NEW o \in Ops, SecondLocked(o)
    PROVE  LockNext /\ CallsOK'
<1> DEFINE c == [ops[o] EXCEPT !.pc = "unwind"]
<1>1. /\ ops[o].pc = "second" /\ Forget(<<o, 2>>)
      /\ ops' = [ops EXCEPT ![o].pc = "unwind"] /\ file' = file
  BY DEF SecondLocked, Goto
<1>2. ops[o] \in Call /\ CallOK(ops[o], reqs[<<o, 1>>], reqs[<<o, 2>>]) /\ ops \in [Ops -> Call]
  BY DEF AInv, CallsOK
<1>3. /\ c \in Call /\ c.pc = "unwind" /\ c.kind = ops[o].kind /\ c.from = ops[o].from
      /\ c.to = ops[o].to /\ ops' = [ops EXCEPT ![o] = c]
  BY <1>1, <1>2 DEF Call, PCs
<1>. HIDE DEF c
<1>4. reqs'[<<o, 1>>] = reqs[<<o, 1>>] /\ reqs'[<<o, 2>>] = NoRequest
  BY <1>1, TwoRequests DEF Forget, AInv, IInv, TypeOK
<1>5. CallOK(c, reqs'[<<o, 1>>], reqs'[<<o, 2>>])
  BY <1>1, <1>2, <1>3, <1>4 DEF CallOK, FirstPath
<1>. QED
  BY <1>1, <1>3, <1>5, ForgetOK

\* Steps that leave the locks alone.
LEMMA LockFreeOK ==
    ASSUME AInv, NEW o \in Ops, NEW c \in Call,
           UNCHANGED lockVars, file' \in [Paths -> Contents],
           ops' = [ops EXCEPT ![o] = c],
           CallOK(c, reqs[<<o, 1>>], reqs[<<o, 2>>])
    PROVE  CallsOK'
<1>1. /\ ops' \in [Ops -> Call] /\ ops'[o] = c /\ reqs' = reqs
      /\ \A d \in Ops \ {o} : ops'[d] = ops[d]
  BY DEF AInv, CallsOK, lockVars
<1>2. \A d \in Ops \ {o} : CallOK(ops'[d], reqs'[<<d, 1>>], reqs'[<<d, 2>>])
  BY <1>1 DEF AInv, CallsOK
<1>. QED
  BY <1>1, <1>2 DEF CallsOK

\* A call whose body is over still has every lock it took.
LEMMA FinishOK ==
    ASSUME AInv, NEW o \in Ops, Finish(o), file' \in [Paths -> Contents],
           reqs[<<o, 1>>].status = "held",
           reqs[<<o, 2>>] = NoRequest \/ reqs[<<o, 2>>].status = "held",
           ops[o].pc \in {"first", "second", "stream"}
    PROVE  CallsOK'
<1> DEFINE c == [ops[o] EXCEPT !.pc = "unwind"]
<1>1. ops' = [ops EXCEPT ![o].pc = "unwind"] /\ UNCHANGED lockVars
  BY DEF Finish, Goto
<1>2. ops[o] \in Call /\ CallOK(ops[o], reqs[<<o, 1>>], reqs[<<o, 2>>]) /\ ops \in [Ops -> Call]
  BY DEF AInv, CallsOK
<1>3. /\ c \in Call /\ c.pc = "unwind" /\ c.kind = ops[o].kind /\ c.from = ops[o].from
      /\ c.to = ops[o].to /\ ops' = [ops EXCEPT ![o] = c]
  BY <1>1, <1>2 DEF Call, PCs
<1>. HIDE DEF c
<1>4. CallOK(c, reqs[<<o, 1>>], reqs[<<o, 2>>])
  BY <1>2, <1>3 DEF CallOK, FirstPath
<1>. QED
  BY <1>1, <1>3, <1>4, LockFreeOK

\* A call whose continuation is ready holds what it asked for.
LEMMA ReadyHolds ==
    ASSUME AInv, NEW o \in Ops, NEW kind \in CallKinds, Ready(o, kind)
    PROVE  /\ ops[o].pc \in {"first", "second"} /\ ops[o].kind = kind
           /\ ops[o].from \in Paths /\ ops[o].to \in Paths
           /\ reqs[<<o, 1>>].status = "held" /\ reqs[<<o, 1>>].mode = LockMode(kind)
           /\ reqs[<<o, 1>>].path = FirstPath(ops[o])
           /\ \/ ops[o].from = ops[o].to /\ reqs[<<o, 2>>] = NoRequest /\ ops[o].pc = "first"
              \/ /\ kind = "move" /\ ops[o].from # ops[o].to /\ ops[o].pc = "second"
                 /\ reqs[<<o, 2>>].status = "held" /\ reqs[<<o, 2>>].mode = "write"
                 /\ reqs[<<o, 2>>].path = SecondPath(ops[o])
<1>1. CallOK(ops[o], reqs[<<o, 1>>], reqs[<<o, 2>>])
  BY DEF AInv, CallsOK
<1>2. /\ ops[o].kind = kind
      /\ \/ ops[o].pc = "first" /\ reqs[<<o, 1>>].status = "held" /\ ops[o].from = ops[o].to
         \/ ops[o].pc = "second" /\ reqs[<<o, 2>>].status = "held"
  BY DEF Ready, Has
<1>. QED
  BY <1>1, <1>2 DEF CallOK

\* The bodies of read, write, delete, check and move.
LEMMA BodyOK ==
    ASSUME AInv, NEW o \in Ops,
           \/ Fail(o) \/ ReadOpened(o) \/ ReadEnd(o) \/ WriteOpened(o) \/ WriteEnd(o)
           \/ Remove(o) \/ Rename(o)
    PROVE  UNCHANGED lockVars /\ CallsOK'
<1>1. /\ ops \in [Ops -> Call] /\ ops[o] \in Call /\ file \in [Paths -> Contents]
      /\ CallOK(ops[o], reqs[<<o, 1>>], reqs[<<o, 2>>])
  BY DEF AInv, CallsOK
<1>2. CASE Fail(o)
  <2>1. PICK kind \in CallKinds : Ready(o, kind)
    BY <1>2 DEF Fail
  <2>. QED
    BY <2>1, <1>1, <1>2, ReadyHolds, FinishOK DEF Fail, Finish
<1>3. CASE Remove(o)
  <2>1. Ready(o, "delete") /\ Finish(o) /\ file' = [file EXCEPT ![ops[o].from] = "absent"]
    BY <1>3 DEF Remove
  <2>2. file' \in [Paths -> Contents]
    BY <2>1, <1>1 DEF Contents
  <2>3. "delete" \in CallKinds
    BY <2>1, <1>1 DEF Ready, CallOK
  <2>. QED
    BY <2>1, <2>2, <2>3, ReadyHolds, FinishOK DEF Finish
<1>4. CASE Rename(o)
  <2>1. Ready(o, "move") /\ Finish(o)
        /\ file' = [p \in Paths |-> IF p = ops[o].to THEN file[ops[o].from]
                                    ELSE IF p = ops[o].from THEN "absent" ELSE file[p]]
    BY <1>4 DEF Rename
  <2>2. "move" \in CallKinds /\ ops[o].from \in Paths
    BY <2>1, <1>1 DEF Ready, CallOK
  <2>3. file' \in [Paths -> Contents]
    BY <2>1, <2>2, <1>1 DEF Contents
  <2>. QED
    BY <2>1, <2>2, <2>3, ReadyHolds, FinishOK DEF Finish
<1>5. CASE ReadEnd(o) \/ WriteEnd(o)
  <2>1. ops[o].pc = "stream" /\ Finish(o)
    BY <1>5 DEF ReadEnd, WriteEnd
  <2>2. file' \in [Paths -> Contents]
    BY <1>1, <1>5 DEF ReadEnd, WriteEnd, Contents
  <2>3. reqs[<<o, 1>>].status = "held" /\ reqs[<<o, 2>>] = NoRequest
    BY <2>1, <1>1 DEF CallOK
  <2>. QED
    BY <2>1, <2>2, <2>3, FinishOK DEF Finish
<1>6. CASE ReadOpened(o) \/ WriteOpened(o)
  <2> DEFINE c == [ops[o] EXCEPT !.pc = "stream"]
  <2>1. PICK kind \in {"read", "write"} : Ready(o, kind)
    BY <1>6 DEF ReadOpened, WriteOpened
  <2>2. ops' = [ops EXCEPT ![o].pc = "stream"] /\ UNCHANGED lockVars
    BY <1>6 DEF ReadOpened, WriteOpened, Goto
  <2>3. file' \in [Paths -> Contents]
    BY <1>1, <1>6 DEF ReadOpened, WriteOpened, Contents
  <2>4. kind \in CallKinds
    BY <2>1, <1>1 DEF Ready, CallOK
  <2>5. /\ reqs[<<o, 1>>].status = "held" /\ ops[o].from = ops[o].to
        /\ reqs[<<o, 2>>] = NoRequest /\ ops[o].pc \in {"first", "second"}
    BY <2>1, <2>4, ReadyHolds
  <2>6. /\ c \in Call /\ c.pc = "stream" /\ c.kind = ops[o].kind /\ c.from = ops[o].from
        /\ c.to = ops[o].to /\ ops' = [ops EXCEPT ![o] = c]
    BY <2>2, <1>1 DEF Call, PCs
  <2>. HIDE DEF c
  <2>7. CallOK(c, reqs[<<o, 1>>], reqs[<<o, 2>>])
    BY <2>5, <2>6, <1>1 DEF CallOK, FirstPath
  <2>. QED
    BY <2>2, <2>3, <2>6, <2>7, LockFreeOK
<1>. QED
  BY <1>2, <1>3, <1>4, <1>5, <1>6

\* deleteDirectory touches no lock.
LEMMA DirectoryOK ==
    ASSUME AInv, NEW o \in Ops, DirectoryScan(o) \/ DirectoryRemove(o)
    PROVE  UNCHANGED lockVars /\ CallsOK'
<1>1. CallOK(ops[o], reqs[<<o, 1>>], reqs[<<o, 2>>]) /\ file \in [Paths -> Contents]
  BY DEF AInv, CallsOK
<1>2. /\ ops[o].pc \in {"idle", "purge"} /\ UNCHANGED lockVars
      /\ file' \in [Paths -> Contents]
  BY <1>1 DEF DirectoryScan, DirectoryRemove, Contents
<1>3. reqs[<<o, 1>>] = NoRequest /\ reqs[<<o, 2>>] = NoRequest
  BY <1>1, <1>2 DEF CallOK
<1>4. PICK c \in Call : c.pc \in {"idle", "purge"} /\ ops' = [ops EXCEPT ![o] = c]
  <2>1. NoCall \in Call /\ NoCall.pc = "idle"
    BY DEF NoCall, Call, Kinds, PCs
  <2>2. /\ [NoCall EXCEPT !.kind = "deleteDirectory", !.pc = "purge"] \in Call
        /\ [NoCall EXCEPT !.kind = "deleteDirectory", !.pc = "purge"].pc = "purge"
    BY DEF NoCall, Call, Kinds, PCs
  <2>. QED
    BY <2>1, <2>2 DEF DirectoryScan, DirectoryRemove
<1>5. CallOK(c, reqs[<<o, 1>>], reqs[<<o, 2>>])
  BY <1>3, <1>4 DEF CallOK
<1>. QED
  BY <1>2, <1>4, <1>5, LockFreeOK

\* `finally` gives back the second lock, then the first, then the call ends.
LEMMA UnwindOK ==
    ASSUME AInv, NEW o \in Ops, Unwind(o)
    PROVE  LockNext /\ CallsOK'
<1>1. /\ ops \in [Ops -> Call] /\ file \in [Paths -> Contents] /\ file' = file
      /\ ops[o].pc = "unwind"
      /\ CallOK(ops[o], reqs[<<o, 1>>], reqs[<<o, 2>>])
  BY DEF AInv, CallsOK, Unwind
<1>2. CASE reqs[<<o, 2>>].status = "held"
  <2>1. Release(<<o, 2>>) /\ ops' = ops
    BY <1>2 DEF Unwind, Has
  <2>2. /\ reqs'[<<o, 2>>] = NoRequest
        /\ \A x \in Requests \ {<<o, 2>>} : Granted(x, reqs[<<o, 2>>].path)
    BY <2>1, TwoRequests, ReleaseEffect DEF AInv
  <2>3. reqs'[<<o, 1>>] = reqs[<<o, 1>>]
    BY <2>2, <1>1, TwoRequests DEF Granted, CallOK
  <2>4. CallOK(ops'[o], reqs'[<<o, 1>>], reqs'[<<o, 2>>])
    BY <2>1, <2>2, <2>3, <1>1 DEF CallOK
  <2>5. \A d \in Ops \ {o} : CallOK(ops'[d], reqs'[<<d, 1>>], reqs'[<<d, 2>>])
    BY <2>1, <2>2, OtherCallsKept
  <2>. QED
    BY <2>1, <2>4, <2>5, <1>1, TwoRequests DEF CallsOK, LockNext
<1>3. CASE reqs[<<o, 2>>].status # "held"
  <2>1. Release(<<o, 1>>) /\ ops' = [ops EXCEPT ![o] = NoCall]
    BY <1>3 DEF Unwind, Has
  <2>2. /\ reqs'[<<o, 1>>] = NoRequest
        /\ \A x \in Requests \ {<<o, 1>>} : Granted(x, reqs[<<o, 1>>].path)
    BY <2>1, TwoRequests, ReleaseEffect DEF AInv
  <2>3. NoRequest.status = "idle"
    BY DEF NoRequest
  <2>4. reqs'[<<o, 2>>] = NoRequest
    BY <2>2, <2>3, <1>1, <1>3, TwoRequests DEF Granted, CallOK
  <2>5. NoCall \in Call /\ NoCall.pc = "idle"
    BY DEF NoCall, Call, Kinds, PCs
  <2>6. ops' \in [Ops -> Call] /\ ops'[o] = NoCall /\ \A d \in Ops \ {o} : ops'[d] = ops[d]
    BY <2>1, <2>5, <1>1
  <2>7. CallOK(ops'[o], reqs'[<<o, 1>>], reqs'[<<o, 2>>])
    BY <2>2, <2>4, <2>5, <2>6 DEF CallOK
  <2>8. \A d \in Ops \ {o} : CallOK(ops'[d], reqs'[<<d, 1>>], reqs'[<<d, 2>>])
    BY <2>2, <2>6, OtherCallsKept
  <2>. QED
    BY <2>1, <2>6, <2>7, <2>8, <1>1, TwoRequests DEF CallsOK, LockNext
<1>. QED
  BY <1>2, <1>3

\* A lock timer touches the call that waits on it and grants to others.
LEMMA LockTimerOK ==
    ASSUME AInv, NEW o \in Ops, LockTimer(o)
    PROVE  LockNext /\ CallsOK'
<1>1. PICK i \in {1, 2} : Timeout(<<o, i>>)
  BY DEF LockTimer
<1>2. ops' = ops /\ file' = file /\ CallOK(ops[o], reqs[<<o, 1>>], reqs[<<o, 2>>])
  BY DEF LockTimer, AInv, CallsOK
<1>3. reqs \in [Requests -> Request] /\ <<o, i>> \in Requests
  BY TwoRequests DEF AInv, IInv, TypeOK
<1>4. /\ reqs[<<o, i>>].status = "queued"
      /\ reqs'[<<o, i>>] = [reqs[<<o, i>>] EXCEPT !.status = "rejected"]
      /\ \A x \in Requests \ {<<o, i>>} : Granted(x, reqs[<<o, i>>].path)
  BY <1>1, <1>3, TimeoutEffect DEF AInv
<1>5. /\ reqs'[<<o, i>>].status = "rejected" /\ reqs'[<<o, i>>].mode = reqs[<<o, i>>].mode
      /\ reqs'[<<o, i>>].path = reqs[<<o, i>>].path
  BY <1>3, <1>4 DEF Request
<1>6. NoRequest.status = "idle"
  BY DEF NoRequest
<1>7. CallOK(ops'[o], reqs'[<<o, 1>>], reqs'[<<o, 2>>])
  <2>1. CASE i = 1
    <3>1. ops[o].pc = "first" /\ reqs[<<o, 2>>] = NoRequest
      BY <2>1, <1>2, <1>4, <1>6 DEF CallOK, AInv, CallsOK, Call, PCs
    <3>2. reqs'[<<o, 2>>] = NoRequest
      BY <3>1, <2>1, <1>4, <1>6, TwoRequests DEF Granted
    <3>. QED
      BY <3>1, <3>2, <2>1, <1>2, <1>5 DEF CallOK
  <2>2. CASE i = 2
    <3>1. ops[o].pc = "second" /\ reqs[<<o, 1>>].status = "held"
      BY <2>2, <1>2, <1>4, <1>6 DEF CallOK, AInv, CallsOK, Call, PCs
    <3>2. reqs'[<<o, 1>>] = reqs[<<o, 1>>]
      BY <3>1, <2>2, <1>4, TwoRequests DEF Granted
    <3>. QED
      BY <3>1, <3>2, <2>2, <1>2, <1>5 DEF CallOK
  <2>. QED
    BY <2>1, <2>2
<1>8. \A x \in Requests : x \in {<<o, 1>>, <<o, 2>>} \/ Granted(x, reqs[<<o, i>>].path)
  BY <1>4
<1>9. \A d \in Ops \ {o} : CallOK(ops'[d], reqs'[<<d, 1>>], reqs'[<<d, 2>>])
  BY <1>2, <1>8, OtherCallsKept
<1>10. LockNext
  BY <1>1, <1>3 DEF LockNext
<1>. QED
  BY <1>2, <1>7, <1>9, <1>10 DEF AInv, CallsOK

-----------------------------------------------------------------------------
(* The theorems *)

\* Every step of the adapter is a step of the lock manager, or leaves it alone,
\* and preserves the calls' side of the invariant.
LEMMA LocksUsed ==
    ASSUME AInv, [Next]_vars
    PROVE  [LockNext]_lockVars /\ CallsOK'
<1>1. CASE UNCHANGED vars
  BY <1>1 DEF vars, lockVars, AInv, CallsOK
<1>2. ASSUME NEW o \in Ops, NEW kind \in CallKinds, NEW from \in Paths, NEW to \in Paths,
             NEW timed \in TimingOf(kind), Start(o, kind, from, to, timed)
      PROVE  LockNext /\ CallsOK'
  <2>1. timed \in BOOLEAN
    BY FileConstants DEF TimingOf
  <2>. QED
    BY <2>1, <1>2, StartOK
<1>3. ASSUME NEW o \in Ops, Continue(o) \/ StreamEnd(o) \/ DirectoryScan(o) \/ LockTimer(o)
      PROVE  [LockNext]_lockVars /\ CallsOK'
  BY <1>3, LockedOK, MoveSecondOK, SecondLockedOK, BodyOK, DirectoryOK, UnwindOK, LockTimerOK
     DEF Continue, StreamEnd
<1>. QED
  BY <1>1, <1>2, <1>3 DEF Next

\* Every step of the adapter keeps the invariant.
LEMMA NextAInv == ASSUME AInv, [Next]_vars PROVE AInv'
  BY LocksUsed, NextIInv DEF AInv

\* Every reachable state of the adapter satisfies the inductive invariant.
THEOREM AdapterInvariance == Spec => []AInv
<1>. QED
  BY InitAInv, NextAInv, PTL DEF Spec

\* Calls, requests, lock objects and files keep their types.
THEOREM AdapterTypes == Spec => []AdapterTypeOK
<1>1. AInv => AdapterTypeOK
  BY DEF AInv, IInv, CallsOK, AdapterTypeOK
<1>. QED
  BY <1>1, AdapterInvariance, PTL

\* Whoever holds a write lock on a path is alone on the path, for any number of
\* concurrent reads, writes, deletes, checks and moves with any timeouts.
THEOREM AdapterMutualExclusion == Spec => []MutualExclusion
<1>1. AInv => MutualExclusion
  BY IInvMutualExclusion DEF AInv
<1>. QED
  BY <1>1, AdapterInvariance, PTL

\* The counters of every LockState object equal the locks not yet released.
THEOREM AdapterCounters == Spec => []CountersMatch
<1>1. AInv => CountersMatch
  BY IInvCountersMatch DEF AInv
<1>. QED
  BY <1>1, AdapterInvariance, PTL

\* The Map has an object for exactly the locked paths, and everyone who waits
\* or holds works on the object that the Map has.
THEOREM AdapterMapIsLive == Spec => []MapIsLive
<1>1. AInv => MapIsLive
  BY IInvMapIsLive DEF AInv
<1>. QED
  BY <1>1, AdapterInvariance, PTL

\* No request at the head of a queue could be granted: none was forgotten.
THEOREM AdapterNoLostWakeup == Spec => []NoLostWakeup
<1>1. AInv => NoLostWakeup
  BY IInvNoLostWakeup DEF AInv
<1>. QED
  BY <1>1, AdapterInvariance, PTL

\* A call that is over has left no lock and no waiting request behind.
THEOREM AdapterNoLeakedLock == Spec => []NoLeakedLock
<1>1. AInv => NoLeakedLock
  BY DEF AInv, CallsOK, CallOK, NoLeakedLock, Has
<1>. QED
  BY <1>1, AdapterInvariance, PTL

-----------------------------------------------------------------------------
(* Nobody waits in a circle *)

\* A set of natural numbers has a least one.
LEMMA LeastOf ==
    ASSUME NEW S \in SUBSET Nat, S # {}
    PROVE  \E i \in S : \A j \in S : i <= j
<1>1. PICK i \in S : \A j \in S : <<j, i>> \notin OpToRel(<, Nat)
  BY NatLessThanWellFounded, WFMin
<1>2. \A j \in S : ~(j < i)
  BY <1>1 DEF OpToRel
<1>. QED
  BY <1>2

\* Of finitely many things with an integer weight, one weighs most.
LEMMA HeaviestOf ==
    ASSUME NEW S, IsFiniteSet(S), S # {}, NEW weight \in [S -> Int]
    PROVE  \E x \in S : \A y \in S : weight[y] <= weight[x]
<1> DEFINE Above(x) == {y \in S : weight[y] > weight[x]}
           ranks == {Cardinality(Above(x)) : x \in S}
<1>1. \A x \in S : IsFiniteSet(Above(x)) /\ Cardinality(Above(x)) \in Nat
  BY FS_Subset, FS_CardinalityType
<1>2. ranks \in SUBSET Nat /\ ranks # {}
  BY <1>1
<1>3. PICK n \in ranks : \A m \in ranks : n <= m
  <2>. HIDE DEF ranks
  <2>. QED
    BY <1>2, LeastOf
<1>4. PICK x \in S : n = Cardinality(Above(x))
  BY <1>3
<1>5. ASSUME NEW y \in S, weight[y] > weight[x] PROVE FALSE
  <2>1. \A z \in S : weight[z] \in Int
    OBVIOUS
  <2>2. /\ \A z \in S : weight[z] > weight[y] => weight[z] > weight[x]
        /\ ~(weight[y] > weight[y])
    BY <2>1, <1>5
  <2>3. Above(y) \in SUBSET Above(x) /\ y \in Above(x) /\ y \notin Above(y)
    BY <2>2, <1>5
  <2>4. Cardinality(Above(x)) <= Cardinality(Above(y))
    BY <1>3, <1>4
  <2>. HIDE DEF Above
  <2>5. Cardinality(Above(y)) = Cardinality(Above(x))
    BY <2>3, <2>4, <1>1, FS_Subset
  <2>. QED
    BY <2>3, <2>5, <1>1, FS_Subset
<1>. QED
  BY <1>5

\* A call that waits while it holds a lock is a move that waits for the higher
\* of its paths and holds the lower; any other waits and holds nothing.
LEMMA HoldsLowerPath ==
    ASSUME AInv, NEW o \in Ops, NEW i \in {1, 2}, NEW j \in {1, 2},
           reqs[<<o, i>>].status = "queued", Has(o, j)
    PROVE  /\ i = 2 /\ j = 1
           /\ reqs[<<o, 1>>].path \in Int /\ reqs[<<o, 2>>].path \in Int
           /\ reqs[<<o, 1>>].path < reqs[<<o, 2>>].path
<1>1. CallOK(ops[o], reqs[<<o, 1>>], reqs[<<o, 2>>]) /\ ops[o].pc \in PCs
  BY DEF AInv, CallsOK, Call
<1>2. NoRequest.status = "idle"
  BY DEF NoRequest
<1>3. i = 2 /\ j = 1 /\ ops[o].pc = "second"
  BY <1>1, <1>2 DEF CallOK, PCs, Has
<1>. QED
  BY <1>1, <1>3, PathOrder, FileConstants DEF CallOK

\* No group of calls, of any size, in which each waits for another: all move on
\* from lower to higher paths.
THEOREM AdapterNoDeadlock == Spec => []NoDeadlock
<1>1. AInv => NoDeadlock
  <2>. SUFFICES ASSUME AInv, NEW group \in SUBSET Ops, group # {},
                       \A o \in group : \E h \in group : WaitsFor(o, h)
                PROVE  FALSE
    BY DEF NoDeadlock
  <2> DEFINE movers == {o \in group : \E j \in {1, 2} : Has(o, j)}
             waiting == {<<o, 2>> : o \in movers}
             wanted == [r \in waiting |-> reqs[r].path]
  <2>1. ASSUME NEW o \in movers
        PROVE  /\ reqs[<<o, 1>>].path \in Int /\ reqs[<<o, 2>>].path \in Int
               /\ reqs[<<o, 1>>].path < reqs[<<o, 2>>].path
               /\ \E h \in movers : reqs[<<h, 1>>].path = reqs[<<o, 2>>].path
    <3>1. PICK j \in {1, 2} : Has(o, j)
      OBVIOUS
    <3>2. PICK h \in group, i \in {1, 2}, k \in {1, 2} :
            /\ reqs[<<o, i>>].status = "queued" /\ Has(h, k)
            /\ reqs[<<h, k>>].path = reqs[<<o, i>>].path
      BY DEF WaitsFor
    <3>3. /\ i = 2
          /\ reqs[<<o, 1>>].path \in Int /\ reqs[<<o, 2>>].path \in Int
          /\ reqs[<<o, 1>>].path < reqs[<<o, 2>>].path
      BY <3>1, <3>2, HoldsLowerPath
    <3>4. PICK m \in {1, 2} : reqs[<<h, m>>].status = "queued"
      BY DEF WaitsFor
    <3>5. k = 1
      BY <3>2, <3>4, HoldsLowerPath
    <3>. QED
      BY <3>2, <3>3, <3>5
  <2>2. movers # {}
    <3>1. PICK o \in group : TRUE
      OBVIOUS
    <3>2. PICK h \in group : WaitsFor(o, h)
      BY <3>1
    <3>3. \E j \in {1, 2} : Has(h, j)
      BY <3>2 DEF WaitsFor
    <3>. QED
      BY <3>3
  <2>3. waiting # {} /\ IsFiniteSet(waiting) /\ wanted \in [waiting -> Int]
    <3>1. waiting \in SUBSET Requests
      BY TwoRequests
    <3>2. waiting # {}
      BY <2>2
    <3>3. wanted \in [waiting -> Int]
      BY <2>1
    <3>. QED
      BY <3>1, <3>2, <3>3, LockConstants, FS_Subset
  <2>4. PICK r \in waiting : \A y \in waiting : wanted[y] <= wanted[r]
    <3>. HIDE DEF waiting, wanted
    <3>. QED
      BY <2>3, HeaviestOf
  <2>5. PICK o \in movers : r = <<o, 2>>
    BY <2>4
  <2>6. PICK h \in movers : reqs[<<h, 1>>].path = reqs[<<o, 2>>].path
    BY <2>1
  <2>7. reqs[<<h, 2>>].path <= reqs[<<o, 2>>].path
    <3>1. <<h, 2>> \in waiting /\ <<o, 2>> \in waiting
      OBVIOUS
    <3>. QED
      BY <3>1, <2>4, <2>5
  <2>8. reqs[<<h, 1>>].path < reqs[<<h, 2>>].path
        /\ reqs[<<h, 2>>].path \in Int /\ reqs[<<h, 1>>].path \in Int
    BY <2>1
  <2>. HIDE DEF movers, waiting, wanted
  <2>. QED
    BY <2>6, <2>7, <2>8
<1>. QED
  BY <1>1, AdapterInvariance, PTL

-----------------------------------------------------------------------------
(* Nobody is overtaken *)

\* x stands in front of y in the queue of the object.
Before(st, x, y) ==
    \E i, j \in 1..Len(st.queue) : i < j /\ st.queue[i] = x /\ st.queue[j] = y

\* What NoOvertaking says of two requests.
InTurn(q, r) ==
    /\ reqs[q].status # "held" /\ reqs'[q].status = "held" => Ahead(q, r)
    /\ reqs[q].status = "queued" /\ reqs'[q].status = "queued" =>
            (Ahead(q, r) \/ reqs[r].status # "queued" => Ahead(q, r)')

\* Requests that wait on one object: who stands in front there is ahead.
LEMMA AheadIsBefore ==
    ASSUME IInv, NEW q \in Requests, NEW r \in Requests
    PROVE  /\ Ahead(q, r) =>
                /\ reqs[q].status = "queued" /\ reqs[r].status = "queued"
                /\ reqs[q].path = reqs[r].path /\ reqs[q].lock = reqs[r].lock
                /\ reqs[q].lock \in LockIds
                /\ Before(locks[reqs[q].lock], q, r)
           /\ reqs[q].status = "queued" /\ reqs[r].status = "queued"
              /\ reqs[q].path = reqs[r].path
              /\ Before(locks[reqs[q].lock], q, r) => Ahead(q, r)
<1>1. reqs[q].status = "queued" => reqs[q].lock \in LockIds
  BY DEF IInv, MapOK
<1>2. reqs[q].status = "queued" /\ reqs[r].status = "queued" /\ reqs[q].path = reqs[r].path =>
        reqs[q].lock = reqs[r].lock
  BY DEF IInv, MapOK
<1>3. ASSUME reqs[q].lock \in LockIds
      PROVE  DOMAIN locks[reqs[q].lock].queue = 1..Len(locks[reqs[q].lock].queue)
  BY <1>3 DEF IInv, TypeOK, LockState
<1>. QED
  BY <1>1, <1>2, <1>3 DEF Ahead, Before

\* The same after the step.
LEMMA StillAhead ==
    ASSUME IInv', NEW q \in Requests, NEW r \in Requests,
           reqs'[q].status = "queued", reqs'[r].status = "queued", reqs'[q].path = reqs'[r].path,
           Before(locks'[reqs'[q].lock], q, r)
    PROVE  Ahead(q, r)'
<1>1. reqs'[q].lock \in LockIds
  BY DEF IInv, MapOK
<1>2. DOMAIN locks'[reqs'[q].lock].queue = 1..Len(locks'[reqs'[q].lock].queue)
  BY <1>1 DEF IInv, TypeOK, LockState
<1>. QED
  BY <1>2 DEF Ahead, Before

\* serviceQueue grants a prefix of the queue: who gets the lock was in front of
\* whoever still waits, and those who wait keep their order.
LEMMA ServedInOrder ==
    ASSUME TypeOK, NEW s \in LockIds, NEW st \in LockState, NEW rq \in [Requests -> Request],
           ObjectOK(s, st, rq), ServiceQueue(s, st, rq),
           NEW x \in Requests, NEW y \in Requests, x # y,
           rq[x].status = "queued", rq[x].lock = s, rq[y].status = "queued", rq[y].lock = s,
           reqs'[y].status = "queued"
    PROVE  /\ reqs'[x].status = "held" => Before(st, x, y)
           /\ reqs'[x].status = "queued" /\ Before(st, x, y) => Before(locks'[s], x, y)
<1>1. PICK n \in 0..Len(st.queue) :
        /\ locks' = [locks EXCEPT ![s] = AfterGrants(st, rq, n)]
        /\ reqs' = WithStatus(rq, FirstOf(st.queue, n), "held")
  BY DEF ServiceQueue
<1> DEFINE w == st.queue
           w2 == SubSeq(w, n + 1, Len(w))
<1>2. locks'[s].queue = w2
  BY <1>1 DEF TypeOK, AfterGrants
<1>3. w \in Seq(Requests) /\ Len(w) \in Nat /\ n \in 0..Len(w)
  BY <1>1 DEF LockState
<1>4. Len(w2) = Len(w) - n /\ \A k \in 1..(Len(w) - n) : w2[k] = w[k + n]
  BY <1>3, SMTT(20)
<1>5. PICK i \in 1..Len(w) : w[i] = x
  BY DEF ObjectOK
<1>6. PICK j \in 1..Len(w) : w[j] = y
  BY DEF ObjectOK
<1>7. \A a, b \in 1..Len(w) : w[a] = w[b] => a = b
  BY DEF ObjectOK
<1>8. \A z \in Requests :
        reqs'[z].status = IF z \in FirstOf(w, n) THEN "held" ELSE rq[z].status
  <2> DEFINE granted == FirstOf(w, n)
  <2>1. reqs' = WithStatus(rq, granted, "held")
    BY <1>1
  <2>2. \A z \in Requests : [rq[z] EXCEPT !.status = "held"].status = "held"
    BY DEF Request
  <2>. HIDE DEF granted
  <2>3. \A z \in Requests :
          reqs'[z] = IF z \in granted THEN [rq[z] EXCEPT !.status = "held"] ELSE rq[z]
    BY <2>1 DEF WithStatus
  <2>4. \A z \in Requests : reqs'[z].status = IF z \in granted THEN "held" ELSE rq[z].status
    BY <2>2, <2>3
  <2>. QED
    BY <2>4 DEF granted
<1>. HIDE DEF w, w2
<1>9. y \notin FirstOf(w, n) /\ (x \in FirstOf(w, n) <=> reqs'[x].status = "held")
  BY <1>8
<1>10. ~(j <= n) /\ (i <= n <=> x \in FirstOf(w, n))
  <2>1. i <= n => x \in FirstOf(w, n)
    BY <1>3, <1>5 DEF FirstOf
  <2>2. j <= n => y \in FirstOf(w, n)
    BY <1>3, <1>6 DEF FirstOf
  <2>3. ASSUME x \in FirstOf(w, n) PROVE i <= n
    <3>1. PICK k \in 1..n : w[k] = x
      BY <2>3 DEF FirstOf
    <3>. QED
      BY <3>1, <1>3, <1>5, <1>7
  <2>. QED
    BY <2>1, <2>2, <2>3, <1>9
<1>11. ASSUME reqs'[x].status = "held" PROVE Before(st, x, y)
  <2>1. i < j
    BY <1>3, <1>5, <1>6, <1>9, <1>10, <1>11
  <2>. QED
    BY <2>1, <1>5, <1>6 DEF Before, w
<1>12. ASSUME reqs'[x].status = "queued", Before(st, x, y) PROVE Before(locks'[s], x, y)
  <2>1. i < j
    BY <1>5, <1>6, <1>7, <1>12 DEF Before, w
  <2>2. /\ i - n \in 1..(Len(w) - n) /\ j - n \in 1..(Len(w) - n) /\ i - n < j - n
        /\ (i - n) + n = i /\ (j - n) + n = j
    BY <2>1, <1>3, <1>5, <1>6, <1>9, <1>10, <1>12
  <2>3. w2[i - n] = x /\ w2[j - n] = y
    BY <2>2, <1>4, <1>5, <1>6
  <2>4. \E a, b \in 1..Len(w2) : a < b /\ w2[a] = x /\ w2[b] = y
    BY <2>2, <2>3, <1>4
  <2>. QED
    BY <2>4, <1>2 DEF Before
<1>. QED
  BY <1>11, <1>12

\* The queue is serviced after one request left it, or left the lock.
LEMMA LeaverOvertakesNobody ==
    ASSUME IInv, IInv', NEW s \in LockIds, NEW st \in LockState,
           NEW rq \in [Requests -> Request], ObjectOK(s, st, rq), ServiceQueue(s, st, rq),
           \A x \in Requests : rq[x].status \in {"queued", "held"} => rq[x] = reqs[x],
           \A x, y \in Requests :
              rq[x].status = "queued" /\ rq[y].status = "queued" =>
                  (Before(locks[s], x, y) <=> Before(st, x, y)),
           NEW q \in Requests, NEW r \in Requests, q # r,
           reqs'[r].status = "queued", reqs'[r].path = reqs'[q].path
    PROVE  InTurn(q, r)
<1>1. /\ \A t \in LockIds \ {s} : locks'[t] = locks[t]
      /\ \A x \in Requests :
           \/ reqs'[x] = rq[x]
           \/ /\ rq[x].status = "queued" /\ rq[x].lock = s
              /\ reqs'[x] = [rq[x] EXCEPT !.status = "held"]
  BY ServiceIInv DEF IInv
<1>2. \A x \in Requests : [rq[x] EXCEPT !.status = "held"].status = "held"
                       /\ [rq[x] EXCEPT !.status = "held"].path = rq[x].path
                       /\ [rq[x] EXCEPT !.status = "held"].lock = rq[x].lock
  BY DEF Request
<1>3. reqs'[r] = rq[r] /\ rq[r] = reqs[r] /\ rq[r].status = "queued"
  BY <1>1, <1>2
<1>4. ASSUME reqs[q].status # "held", reqs'[q].status = "held"
      PROVE  Ahead(q, r)
  <2>1. rq[q].status = "queued" /\ rq[q].lock = s /\ rq[q] = reqs[q] /\ reqs'[q].path = reqs[q].path
    <3>1. rq[q].status # "held"
      BY <1>4
    <3>2. reqs'[q] # rq[q]
      BY <3>1, <1>4
    <3>3. rq[q].status = "queued" /\ rq[q].lock = s /\ reqs'[q] = [rq[q] EXCEPT !.status = "held"]
      BY <3>2, <1>1
    <3>4. rq[q] = reqs[q]
      BY <3>3
    <3>. QED
      BY <3>3, <3>4, <1>2
  <2>2. rq[r].lock = s /\ reqs[q].path = reqs[r].path
    BY <2>1, <1>3 DEF IInv, MapOK
  <2>3. Before(st, q, r)
    BY <2>1, <2>2, <1>3, <1>4, ServedInOrder DEF IInv
  <2>4. Before(locks[s], q, r)
    BY <2>1, <2>3, <1>3
  <2>. QED
    BY <2>1, <2>2, <2>4, <1>3, AheadIsBefore
<1>5. ASSUME reqs[q].status = "queued", reqs'[q].status = "queued", Ahead(q, r)
      PROVE  Ahead(q, r)'
  <2>1. /\ reqs'[q] = rq[q] /\ rq[q] = reqs[q] /\ reqs[q].lock = reqs[r].lock
        /\ reqs[q].lock \in LockIds /\ Before(locks[reqs[q].lock], q, r)
    <3>1. reqs'[q] = rq[q]
      BY <1>1, <1>2, <1>5
    <3>2. rq[q] = reqs[q]
      BY <3>1, <1>5
    <3>. QED
      BY <3>1, <3>2, <1>5, AheadIsBefore
  <2>2. Before(locks'[reqs[q].lock], q, r)
    <3>1. CASE reqs[q].lock = s
      <4>1. Before(st, q, r)
        BY <3>1, <2>1, <1>3, <1>5
      <4>. QED
        BY <4>1, <3>1, <2>1, <1>3, <1>5, ServedInOrder DEF IInv
    <3>2. CASE reqs[q].lock # s
      BY <3>2, <2>1, <1>1
    <3>. QED
      BY <3>1, <3>2
  <2>. QED
    BY <2>1, <2>2, <1>3, <1>5, StillAhead
<1>. QED
  BY <1>3, <1>4, <1>5 DEF InTurn

\* A release lets nobody past who waits.
LEMMA ReleaseInTurn ==
    ASSUME IInv, IInv', NEW l \in Requests, Release(l),
           NEW q \in Requests, NEW r \in Requests, q # r,
           reqs'[r].status = "queued", reqs'[r].path = reqs'[q].path
    PROVE  InTurn(q, r)
<1> DEFINE s == reqs[l].lock
           st == GivenBack(reqs[l].mode, locks[s])
           rq == [reqs EXCEPT ![l] = NoRequest]
<1>1. TypeOK /\ reqs[l].status = "held" /\ s \in LockIds
  BY DEF IInv, MapOK, Release
<1>2. (\A x \in Requests \ {l} : rq[x] = reqs[x]) /\ rq[l] = NoRequest
  BY <1>1 DEF TypeOK
<1>3. \/ ServiceQueue(s, st, rq)
      \/ Idle(st) /\ reqs' = rq /\ locks' = [locks EXCEPT ![s] = st]
  BY DEF Release
<1>4. rq \in [Requests -> Request]
  BY <1>1 DEF TypeOK, NoRequest, Request, Statuses, Modes
<1>5. st \in LockState /\ ObjectOK(s, st, rq)
  BY <1>1, GivenBackOK DEF IInv, TypeOK
<1>6. st.queue = locks[s].queue
  BY <1>1 DEF GivenBack, IInv, TypeOK, LockState
<1>7. \A x, y : Before(locks[s], x, y) <=> Before(st, x, y)
  BY <1>6 DEF Before
<1>8. \A x \in Requests : rq[x].status \in {"queued", "held"} => rq[x] = reqs[x]
  BY <1>2 DEF NoRequest
<1>. HIDE DEF st, rq
<1>9. CASE ServiceQueue(s, st, rq)
  BY <1>1, <1>4, <1>5, <1>7, <1>8, <1>9, LeaverOvertakesNobody
<1>10. CASE Idle(st) /\ reqs' = rq /\ locks' = [locks EXCEPT ![s] = st]
  <2>1. r # l /\ reqs'[r] = reqs[r] /\ (reqs'[q].status \in {"queued", "held"} => reqs'[q] = reqs[q])
    BY <1>2, <1>8, <1>10 DEF NoRequest
  <2>2. ASSUME reqs[q].status = "queued", reqs'[q].status = "queued", Ahead(q, r)
        PROVE  Ahead(q, r)'
    <3>1. /\ reqs[q].lock = reqs[r].lock /\ reqs[q].lock \in LockIds
          /\ Before(locks[reqs[q].lock], q, r)
      BY <2>2, AheadIsBefore
    <3>2. \A t \in LockIds \ {s} : locks'[t] = locks[t]
      BY <1>10, <1>1 DEF TypeOK
    <3>3. locks'[s] = st
      BY <1>10, <1>1 DEF TypeOK
    <3>4. Before(locks'[reqs[q].lock], q, r)
      BY <3>1, <3>2, <3>3, <1>7
    <3>. QED
      BY <3>4, <2>1, <2>2, StillAhead
  <2>. QED
    BY <2>1, <2>2 DEF InTurn
<1>. QED
  BY <1>3, <1>9, <1>10

\* A timeout takes a request out of the queue and lets nobody past the rest.
LEMMA TimeoutInTurn ==
    ASSUME IInv, IInv', NEW l \in Requests, Timeout(l),
           NEW q \in Requests, NEW r \in Requests, q # r,
           reqs'[r].status = "queued", reqs'[r].path = reqs'[q].path
    PROVE  InTurn(q, r)
<1> DEFINE s == reqs[l].lock
           w == locks[s].queue
           rq == WithStatus(reqs, {l}, "rejected")
<1>1. /\ TypeOK /\ reqs[l].status = "queued" /\ reqs \in [Requests -> Request]
      /\ s \in LockIds /\ locks[s] \in LockState /\ ObjectOK(s, locks[s], reqs)
  BY DEF Timeout, IInv, TypeOK, MapOK
<1>2. PICK i \in 1..Len(w) :
        w[i] = l /\ ServiceQueue(s, [locks[s] EXCEPT !.queue = Without(@, i)], rq)
  <2>1. DOMAIN w = 1..Len(w)
    BY <1>1 DEF LockState
  <2>. QED
    BY <2>1 DEF Timeout
<1>3. /\ \A x \in Requests \ {l} : rq[x] = reqs[x]
      /\ rq[l].status = "rejected"
  BY <1>1 DEF WithStatus, Request
<1> DEFINE st == [locks[s] EXCEPT !.queue = Without(@, i)]
<1>4. st \in LockState /\ rq \in [Requests -> Request] /\ ObjectOK(s, st, rq)
  <2>1. rq = WithStatus(reqs, {w[i]}, "rejected")
    BY <1>2
  <2>. HIDE DEF rq
  <2>2. /\ st \in LockState /\ WithStatus(reqs, {w[i]}, "rejected") \in [Requests -> Request]
        /\ ObjectOK(s, st, WithStatus(reqs, {w[i]}, "rejected"))
    BY <1>1, LeftOK
  <2>. QED
    BY <2>1, <2>2
<1>5. \A x \in Requests : rq[x].status \in {"queued", "held"} => rq[x] = reqs[x]
  BY <1>3
<1>6. w \in Seq(Requests) /\ st.queue = Without(w, i)
  BY <1>1 DEF LockState
<1>. HIDE DEF rq
<1>7. ASSUME NEW x \in Requests, NEW y \in Requests,
             rq[x].status = "queued", rq[y].status = "queued"
      PROVE  Before(locks[s], x, y) <=> Before(st, x, y)
  <2>1. /\ Len(Without(w, i)) = Len(w) - 1 /\ Len(w) \in Nat
        /\ \A j \in 1..(Len(w) - 1) : Without(w, i)[j] = IF j < i THEN w[j] ELSE w[j + 1]
    <3>1. Len(w) \in Nat
      BY <1>6
    <3>. HIDE DEF w
    <3>. QED
      BY <3>1, <1>6, WithoutElements
  <2>2. x # w[i] /\ y # w[i]
    BY <1>2, <1>3, <1>7
  <2>. HIDE DEF w
  <2>3. ASSUME NEW a \in 1..Len(w), NEW b \in 1..Len(w), a < b, w[a] = x, w[b] = y
        PROVE  \E c, d \in 1..(Len(w) - 1) :
                  c < d /\ Without(w, i)[c] = x /\ Without(w, i)[d] = y
    <3> DEFINE c == IF a < i THEN a ELSE a - 1
               d == IF b < i THEN b ELSE b - 1
    <3>1. a # i /\ b # i
      BY <2>2, <2>3
    <3>2. c \in 1..(Len(w) - 1) /\ d \in 1..(Len(w) - 1) /\ c < d
      BY <3>1, <2>1, <2>3
    <3>3. (a < i => c < i /\ c = a) /\ (~(a < i) => ~(c < i) /\ c + 1 = a)
      BY <3>1
    <3>4. (b < i => d < i /\ d = b) /\ (~(b < i) => ~(d < i) /\ d + 1 = b)
      BY <3>1
    <3>. HIDE DEF c, d
    <3>5. Without(w, i)[c] = x /\ Without(w, i)[d] = y
      BY <3>2, <3>3, <3>4, <2>1, <2>3
    <3>. QED
      BY <3>2, <3>5
  <2>4. ASSUME NEW c \in 1..(Len(w) - 1), NEW d \in 1..(Len(w) - 1), c < d,
               Without(w, i)[c] = x, Without(w, i)[d] = y
        PROVE  \E a, b \in 1..Len(w) : a < b /\ w[a] = x /\ w[b] = y
    <3> DEFINE a == IF c < i THEN c ELSE c + 1
               b == IF d < i THEN d ELSE d + 1
    <3>1. a \in 1..Len(w) /\ b \in 1..Len(w) /\ a < b
      BY <2>1, <2>4
    <3>2. w[a] = x /\ w[b] = y
      BY <2>1, <2>4
    <3>. QED
      BY <3>1, <3>2
  <2>5. Before(locks[s], x, y) <=> \E a, b \in 1..Len(w) : a < b /\ w[a] = x /\ w[b] = y
    BY DEF Before, w
  <2>6. Before(st, x, y) <=> \E c, d \in 1..(Len(w) - 1) :
                                c < d /\ Without(w, i)[c] = x /\ Without(w, i)[d] = y
    BY <1>6, <2>1 DEF Before
  <2>. QED
    BY <2>3, <2>4, <2>5, <2>6
<1>. QED
  BY <1>1, <1>2, <1>4, <1>5, <1>7, LeaverOvertakesNobody

\* A newcomer that finds somebody waiting for the path goes to the end of the queue.
LEMMA NewcomerInTurn ==
    ASSUME IInv, IInv', NEW l \in Requests, NEW mode \in Modes, NEW p \in Paths,
           NEW timed \in BOOLEAN, AcquireQueued(l, mode, p, timed),
           NEW q \in Requests, NEW r \in Requests, q # r,
           reqs'[r].status = "queued", reqs'[r].path = reqs'[q].path
    PROVE  InTurn(q, r)
<1> DEFINE rq == [reqs EXCEPT ![l] =
        [status |-> "queued", mode |-> mode, path |-> p, lock |-> fileLocks[p], timed |-> timed]]
<1>1. PICK s \in LockIds :
        /\ GetsLockState(p, s)
        /\ ~Admits(mode, StateGot(p, s))
        /\ ServiceQueue(s, [StateGot(p, s) EXCEPT !.queue = Append(@, l)],
             [reqs EXCEPT ![l] =
                [status |-> "queued", mode |-> mode, path |-> p, lock |-> s, timed |-> timed]])
  BY DEF AcquireQueued
<1>2. reqs[l].status = "idle" /\ TypeOK /\ MapOK(fileLocks, reqs)
  BY DEF AcquireQueued, IInv
<1>3. /\ StateGot(p, s) \in LockState /\ ObjectOK(s, StateGot(p, s), reqs)
      /\ StateGot(p, s) = FreshLock \/ fileLocks[p] = s
  BY <1>1, StateGotOK
<1>4. Admits(mode, FreshLock)
  BY DEF Admits, FreshLock
<1>5. fileLocks[p] = s /\ StateGot(p, s) = locks[s]
  BY <1>1, <1>3, <1>4 DEF StateGot
<1>6. /\ rq \in [Requests -> Request] /\ reqs \in [Requests -> Request]
      /\ \A x \in Requests \ {l} : rq[x] = reqs[x]
      /\ rq[l].status = "queued" /\ rq[l].lock = s /\ rq[l].path = p
  BY <1>2, <1>5 DEF TypeOK, Request, Statuses
<1> DEFINE st == [locks[s] EXCEPT !.queue = Append(@, l)]
<1>7. ServiceQueue(s, st, rq)
  BY <1>1, <1>5
<1>. HIDE DEF rq
<1>8. st \in LockState /\ ObjectOK(s, st, rq)
  BY <1>2, <1>3, <1>5, <1>6, QueuedOK
<1>9. /\ reqs'[l].path = p /\ \A x \in Requests \ {l} : reqs'[x] = reqs[x]
  BY AcquireEffect DEF Acquire
<1> DEFINE w == locks[s].queue
<1>10. /\ w \in Seq(Requests) /\ Len(w) \in Nat /\ st.queue = Append(w, l)
       /\ Len(st.queue) = Len(w) + 1 /\ st.queue[Len(w) + 1] = l
       /\ \A j \in 1..Len(w) : st.queue[j] = w[j]
  BY <1>3, <1>5 DEF LockState
<1>. HIDE DEF st
<1>11. \A x, y : Before(locks[s], x, y) => Before(st, x, y)
  BY <1>10 DEF Before
<1>12. \A t \in LockIds \ {s} : locks'[t] = locks[t]
  BY <1>2, <1>6, <1>7, <1>8, ServiceIInv
<1>13. CASE q = l
  <2>1. reqs'[r] = reqs[r] /\ reqs[r] = rq[r] /\ reqs[r].lock = s
    BY <1>13, <1>2, <1>5, <1>6, <1>9 DEF MapOK
  <2>2. ASSUME reqs'[q].status = "held" PROVE FALSE
    <3>1. Before(st, q, r)
      BY <2>1, <2>2, <1>2, <1>6, <1>7, <1>8, <1>13, ServedInOrder
    <3>2. PICK a, b \in 1..Len(st.queue) : a < b /\ st.queue[a] = l
      BY <3>1, <1>13 DEF Before
    <3>3. \A i, j \in 1..Len(st.queue) : st.queue[i] = st.queue[j] => i = j
      BY <1>8 DEF ObjectOK
    <3>4. Len(w) + 1 \in 1..Len(st.queue) /\ st.queue[Len(w) + 1] = l
      BY <1>10
    <3>5. a = Len(w) + 1
      BY <3>2, <3>3, <3>4
    <3>. QED
      BY <3>2, <3>5, <1>10
  <2>. QED
    BY <2>2, <1>2, <1>13 DEF InTurn
<1>14. CASE q # l
  <2>1. reqs'[q] = reqs[q] /\ rq[q] = reqs[q]
    BY <1>14, <1>6, <1>9
  <2>2. ASSUME reqs[q].status = "queued", Ahead(q, r) \/ reqs[r].status # "queued"
        PROVE  Before(locks'[reqs[q].lock], q, r)
    <3>1. CASE r = l
      <4>1. reqs[q].lock = s
        BY <3>1, <2>1, <2>2, <1>2, <1>5, <1>9 DEF MapOK
      <4>2. PICK k \in 1..Len(w) : w[k] = q
        BY <4>1, <2>2, <1>3, <1>5 DEF ObjectOK
      <4>3. /\ k \in 1..Len(st.queue) /\ Len(w) + 1 \in 1..Len(st.queue) /\ k < Len(w) + 1
            /\ st.queue[k] = q /\ st.queue[Len(w) + 1] = r
        BY <4>2, <3>1, <1>10
      <4>4. Before(st, q, r)
        BY <4>3 DEF Before
      <4>. QED
        BY <4>1, <4>4, <3>1, <2>1, <2>2, <1>2, <1>6, <1>7, <1>8, ServedInOrder
    <3>2. CASE r # l
      <4>1. reqs'[r] = reqs[r] /\ rq[r] = reqs[r]
        BY <3>2, <1>6, <1>9
      <4>2. /\ reqs[q].lock = reqs[r].lock /\ reqs[q].lock \in LockIds
            /\ Before(locks[reqs[q].lock], q, r)
        BY <4>1, <2>2, AheadIsBefore
      <4>3. CASE reqs[q].lock = s
        <5>1. Before(st, q, r) /\ rq[q].lock = s /\ rq[r].lock = s
          BY <4>1, <4>2, <4>3, <2>1, <1>11
        <5>2. rq[q].status = "queued" /\ rq[r].status = "queued" /\ reqs'[q].status = "queued"
          BY <4>1, <2>1, <2>2
        <5>. QED
          BY <5>1, <5>2, <4>3, <1>2, <1>6, <1>7, <1>8, ServedInOrder
      <4>4. CASE reqs[q].lock # s
        BY <4>2, <4>4, <1>12
      <4>. QED
        BY <4>3, <4>4
    <3>. QED
      BY <3>1, <3>2
  <2>3. ASSUME reqs[q].status = "queued", Ahead(q, r) \/ reqs[r].status # "queued"
        PROVE  Ahead(q, r)'
    BY <2>1, <2>2, <2>3, StillAhead
  <2>. QED
    BY <2>1, <2>3 DEF InTurn
<1>. QED
  BY <1>13, <1>14

\* A lock is granted at once only if nobody waits for the path.
LEMMA AdmittedInTurn ==
    ASSUME IInv, IInv', NEW l \in Requests, NEW mode \in Modes, NEW p \in Paths,
           NEW timed \in BOOLEAN, AcquireNow(l, mode, p, timed),
           NEW q \in Requests, NEW r \in Requests, q # r,
           reqs'[r].status = "queued", reqs'[r].path = reqs'[q].path
    PROVE  InTurn(q, r)
<1>1. PICK s \in LockIds :
        /\ GetsLockState(p, s)
        /\ Admits(mode, StateGot(p, s))
        /\ locks' = [locks EXCEPT ![s] = Taken(mode, StateGot(p, s))]
        /\ reqs' = [reqs EXCEPT ![l] =
               [status |-> "held", mode |-> mode, path |-> p, lock |-> s, timed |-> timed]]
  BY DEF AcquireNow
<1>2. reqs[l].status = "idle" /\ TypeOK /\ MapOK(fileLocks, reqs)
  BY DEF AcquireNow, IInv
<1>3. /\ reqs'[l].status = "held" /\ reqs'[l].path = p
      /\ \A x \in Requests \ {l} : reqs'[x] = reqs[x]
  BY <1>1, <1>2 DEF TypeOK
<1>4. r # l /\ reqs'[r] = reqs[r]
  BY <1>3
<1>5. StateGot(p, s).queue = <<>> /\ ObjectOK(s, StateGot(p, s), reqs)
  BY <1>1, StateGotOK DEF Admits
<1>6. \A x \in Requests : reqs[x].status = "queued" => reqs[x].lock # s
  BY <1>5 DEF ObjectOK
<1>7. CASE q = l
  <2>1. reqs[r].lock = fileLocks[p] /\ reqs[r].lock \in LockIds
    BY <1>2, <1>3, <1>4, <1>7 DEF MapOK
  <2>2. reqs[r].lock = s
    BY <2>1, <1>1, LockConstants DEF GetsLockState
  <2>. QED
    BY <2>2, <1>4, <1>6
<1>8. CASE q # l
  <2>1. reqs'[q] = reqs[q]
    BY <1>3, <1>8
  <2>2. ASSUME reqs[q].status = "queued", Ahead(q, r) PROVE Ahead(q, r)'
    <3>1. reqs[q].lock \in LockIds /\ Before(locks[reqs[q].lock], q, r)
      BY <2>2, AheadIsBefore
    <3>2. locks'[reqs[q].lock] = locks[reqs[q].lock]
      BY <3>1, <2>2, <1>1, <1>2, <1>6 DEF TypeOK
    <3>. QED
      BY <3>1, <3>2, <2>1, <2>2, <1>4, StillAhead
  <2>. QED
    BY <2>1, <2>2, <1>4 DEF InTurn
<1>. QED
  BY <1>7, <1>8

\* Who waits for a path is overtaken by nobody.
LEMMA StepInTurn ==
    ASSUME IInv, IInv', [LockNext]_lockVars,
           NEW q \in Requests, NEW r \in Requests, q # r,
           reqs'[r].status = "queued", reqs'[r].path = reqs'[q].path
    PROVE  InTurn(q, r)
<1>1. CASE UNCHANGED lockVars
  BY <1>1 DEF lockVars, InTurn, Ahead
<1>2. ASSUME NEW l \in Requests, Forget(l) PROVE InTurn(q, r)
  <2>1. /\ locks' = locks /\ reqs'[l].status = "idle"
        /\ \A x \in Requests \ {l} : reqs'[x] = reqs[x]
    BY <1>2 DEF Forget, NoRequest, IInv, TypeOK
  <2>. QED
    BY <2>1 DEF InTurn, Ahead
<1>. QED
  BY <1>1, <1>2, ReleaseInTurn, TimeoutInTurn, NewcomerInTurn, AdmittedInTurn
     DEF LockNext, Acquire

\* Every lock is given to whoever asked first, for any number of requests and
\* paths: nobody is overtaken by a later reader, a release or a timeout.
THEOREM AdapterNoOvertaking == Spec => NoOvertaking
<1>1. ASSUME AInv, [Next]_vars
      PROVE  [\A q, r \in Requests :
                q # r /\ reqs'[r].status = "queued" /\ reqs'[r].path = reqs'[q].path =>
                    /\ reqs[q].status # "held" /\ reqs'[q].status = "held" => Ahead(q, r)
                    /\ reqs[q].status = "queued" /\ reqs'[q].status = "queued" =>
                            (Ahead(q, r) \/ reqs[r].status # "queued" => Ahead(q, r)')]_vars
  <2>1. IInv /\ IInv' /\ [LockNext]_lockVars
    BY <1>1, LocksUsed, NextAInv DEF AInv
  <2>. QED
    BY <2>1, StepInTurn DEF InTurn
<1>. QED
  BY <1>1, AdapterInvariance, PTL DEF Spec, NoOvertaking

-----------------------------------------------------------------------------
(* Steps *)

\* A file changes under a step only if the call that takes the step holds the
\* write lock on it, or is the end of deleteDirectory.
LEMMA WritersHoldLocks ==
    ASSUME AInv, [Next]_vars, NEW p \in Paths, file'[p] # file[p],
           ~\E d \in Ops : DirectoryRemove(d)
    PROVE  \E r \in Requests :
              reqs[r].status = "held" /\ reqs[r].mode = "write" /\ reqs[r].path = p
<1>0. file \in [Paths -> Contents]
  BY DEF AInv, CallsOK
<1>1. PICK d \in Ops : WriteOpened(d) \/ WriteEnd(d) \/ Remove(d) \/ Rename(d)
  <2>1. file' # file
    OBVIOUS
  <2>. QED
    BY <2>1, ZenonT(30) DEF vars, Next, Continue, StreamEnd, Start, DirectoryScan, Locked, MoveSecond,
         SecondLocked, Fail, ReadOpened, Unwind, ReadEnd, LockTimer
<1>2. /\ <<d, 1>> \in Requests /\ <<d, 2>> \in Requests
      /\ CallOK(ops[d], reqs[<<d, 1>>], reqs[<<d, 2>>])
  BY TwoRequests DEF AInv, CallsOK
<1>3. \A kind \in {"write", "delete", "move"} : LockMode(kind) = "write"
  BY DEF LockMode
<1>4. CASE WriteOpened(d) \/ Remove(d)
  <2>1. PICK kind \in {"write", "delete"} : Ready(d, kind)
    BY <1>4 DEF WriteOpened, Remove
  <2>2. kind \in CallKinds
    BY <2>1, <1>2 DEF Ready, CallOK
  <2>3. /\ reqs[<<d, 1>>].status = "held" /\ reqs[<<d, 1>>].mode = "write"
        /\ reqs[<<d, 1>>].path = FirstPath(ops[d])
        /\ ops[d].from = ops[d].to /\ ops[d].from \in Paths /\ ops[d].to \in Paths
    <3>1. LockMode(kind) = "write" /\ kind # "move"
      BY <1>3
    <3>. QED
      BY <3>1, <2>1, <2>2, ReadyHolds
  <2>4. FirstPath(ops[d]) = ops[d].from
    BY <2>3, PathOrder
  <2>5. p = ops[d].from
    BY <2>3, <1>0, <1>4 DEF WriteOpened, Remove
  <2>. QED
    BY <2>3, <2>4, <2>5, <1>2
<1>5. CASE WriteEnd(d)
  <2>1. ops[d].kind = "write" /\ ops[d].pc = "stream" /\ p = ops[d].from
    BY <1>0, <1>5 DEF WriteEnd
  <2>2. /\ ops[d].from = ops[d].to /\ ops[d].from \in Paths /\ ops[d].to \in Paths
        /\ reqs[<<d, 1>>].status = "held" /\ reqs[<<d, 1>>].mode = "write"
        /\ reqs[<<d, 1>>].path = FirstPath(ops[d])
    BY <2>1, <1>2, <1>3 DEF CallOK
  <2>. QED
    BY <2>1, <2>2, <1>2, PathOrder
<1>6. CASE Rename(d)
  <2>1. Ready(d, "move") /\ "move" \in CallKinds
    BY <1>2, <1>6 DEF Rename, Ready, CallOK
  <2>2. /\ reqs[<<d, 1>>].status = "held" /\ reqs[<<d, 1>>].mode = "write"
        /\ reqs[<<d, 1>>].path = FirstPath(ops[d])
        /\ ops[d].from \in Paths /\ ops[d].to \in Paths
        /\ ops[d].from # ops[d].to =>
             /\ reqs[<<d, 2>>].status = "held" /\ reqs[<<d, 2>>].mode = "write"
             /\ reqs[<<d, 2>>].path = SecondPath(ops[d])
    BY <2>1, <1>3, ReadyHolds
  <2>3. ops[d].from # ops[d].to /\ p \in {ops[d].from, ops[d].to}
    BY <2>2, <1>0, <1>6 DEF Rename
  <2>4. p \in {FirstPath(ops[d]), SecondPath(ops[d])}
    BY <2>2, <2>3, PathOrder
  <2>. QED
    BY <2>2, <2>3, <2>4, <1>2
<1>. QED
  BY <1>1, <1>4, <1>5, <1>6

\* A file does not change under an open read stream, unless deleteDirectory
\* removes it.
THEOREM AdapterStableRead == Spec => StableRead
<1>1. ASSUME AInv, [Next]_vars
      PROVE  [\A o \in Ops :
                ops[o].kind = "read" /\ ops[o].pc = "stream" /\ ~(\E d \in Ops : DirectoryRemove(d))
                    => file'[ops[o].from] = file[ops[o].from]]_vars
  <2>. SUFFICES ASSUME NEW o \in Ops, ops[o].kind = "read", ops[o].pc = "stream",
                       ~(\E d \in Ops : DirectoryRemove(d)),
                       file'[ops[o].from] # file[ops[o].from]
                PROVE  FALSE
    OBVIOUS
  <2>1. CallOK(ops[o], reqs[<<o, 1>>], reqs[<<o, 2>>]) /\ <<o, 1>> \in Requests
    BY <1>1, TwoRequests DEF AInv, CallsOK
  <2>2. /\ ops[o].from \in Paths /\ ops[o].to \in Paths /\ ops[o].from = ops[o].to
        /\ reqs[<<o, 1>>].status = "held" /\ reqs[<<o, 1>>].mode = "read"
        /\ reqs[<<o, 1>>].path = FirstPath(ops[o])
    BY <2>1 DEF CallOK, LockMode
  <2>3. reqs[<<o, 1>>].path = ops[o].from
    BY <2>2, PathOrder
  <2>4. PICK r \in Requests :
          reqs[r].status = "held" /\ reqs[r].mode = "write" /\ reqs[r].path = ops[o].from
    BY <1>1, <2>2, WritersHoldLocks
  <2>5. MutualExclusion
    BY <1>1, IInvMutualExclusion DEF AInv
  <2>. QED
    BY <2>1, <2>2, <2>3, <2>4, <2>5 DEF MutualExclusion
<1>. QED
  BY <1>1, AdapterInvariance, PTL DEF Spec, StableRead

\* What callers have been told.
Told(r) == [status |-> reqs[r].status, mode |-> reqs[r].mode, path |-> reqs[r].path]

\* The initial states of the lock manager are initial for the abstract lock.
LEMMA PromiseInit == LockInit => Promise!Init
  BY DEF LockInit, NoRequest, Promise!Init, Promise!Nothing

\* A step of the lock manager is a step of the abstract lock, or a stutter.
LEMMA PromiseStep ==
    ASSUME IInv, IInv', [LockNext]_lockVars
    PROVE  [Promise!Next]_([r \in Requests |-> Told(r)])
<1> DEFINE lock == [r \in Requests |-> Told(r)]
<1>1. lock' \in [Requests -> Promise!Told]
  BY DEF IInv, TypeOK, Request, Statuses, Modes, Told, Promise!Told
<1>2. Promise!Compatible(lock')
  <2>1. MutualExclusion'
    BY IInvMutualExclusion, PTL
  <2>. QED
    BY <2>1 DEF MutualExclusion, Promise!Compatible, Told
<1>3. Promise!NobodyWaitsForNobody(lock')
  BY LockConstants DEF IInv, MapOK, Promise!NobodyWaitsForNobody, Told
<1>4. \A r \in Requests : reqs'[r] = NoRequest => lock'[r] = Promise!Nothing
  BY DEF NoRequest, Promise!Nothing, Told
<1>5. CASE UNCHANGED lockVars
  BY <1>5 DEF lockVars, Told
<1>6. ASSUME NEW r \in Requests, reqs'[r].status # reqs[r].status,
             Promise!Ask(r) \/ Promise!GiveBack(r) \/ Promise!Reject(r) \/ Promise!GiveUp(r)
      PROVE  Promise!Next
  <2>1. lock'[r] # lock[r]
    BY <1>6 DEF Told
  <2>. QED
    BY <2>1, <1>1, <1>2, <1>3, <1>6 DEF Promise!Next, Told
<1>7. ASSUME NEW r \in Requests, NEW mode \in Modes, NEW p \in Paths, NEW timed \in BOOLEAN,
             Acquire(r, mode, p, timed)
      PROVE  Promise!Next
  <2>1. /\ reqs[r].status = "idle" /\ reqs'[r].status \in {"queued", "held"}
        /\ reqs'[r].path = p
        /\ \A x \in Requests \ {r} : reqs'[x] = reqs[x]
    BY <1>7, AcquireEffect
  <2>2. Promise!Ask(r)
    BY <2>1 DEF Promise!Ask
  <2>. QED
    BY <2>1, <2>2, <1>6
<1>8. ASSUME NEW r \in Requests, \A x \in Requests \ {r} : Granted(x, reqs[r].path)
      PROVE  Promise!OthersKeepOrGet(r)
  <2>. SUFFICES ASSUME NEW x \in Requests \ {r}
                PROVE  \/ Told(x)' = Told(x)
                       \/ /\ Told(x).status = "queued" /\ Told(x).path = Told(r).path
                          /\ Told(x)' = [Told(x) EXCEPT !.status = "held"]
    BY DEF Promise!OthersKeepOrGet, Told
  <2>1. CASE reqs'[x] = reqs[x]
    BY <2>1 DEF Told
  <2>2. CASE reqs[x].status = "queued" /\ reqs[x].path = reqs[r].path
             /\ reqs'[x] = [reqs[x] EXCEPT !.status = "held"]
    <3>1. reqs[x] \in Request
      BY DEF IInv, TypeOK
    <3>2. reqs'[x].status = "held" /\ reqs'[x].mode = reqs[x].mode /\ reqs'[x].path = reqs[x].path
      BY <3>1, <2>2 DEF Request
    <3>. QED
      BY <3>2, <2>2 DEF Told
  <2>. QED
    BY <1>8, <2>1, <2>2 DEF Granted
<1>9. ASSUME NEW r \in Requests, Release(r)
      PROVE  Promise!Next
  <2>1. /\ reqs[r].status = "held" /\ reqs'[r] = NoRequest
        /\ \A x \in Requests \ {r} : Granted(x, reqs[r].path)
    BY <1>9, ReleaseEffect
  <2>2. Promise!GiveBack(r)
    <3>1. lock'[r] = Promise!Nothing /\ lock[r].status = "held"
      BY <2>1, <1>4 DEF Told
    <3>2. Promise!OthersKeepOrGet(r)
      BY <2>1, <1>8
    <3>. QED
      BY <3>1, <3>2 DEF Promise!GiveBack, Told
  <2>. QED
    BY <2>1, <2>2, <1>6 DEF NoRequest
<1>10. ASSUME NEW r \in Requests, Timeout(r)
       PROVE  Promise!Next
  <2>1. /\ reqs[r].status = "queued" /\ reqs'[r] = [reqs[r] EXCEPT !.status = "rejected"]
        /\ \A x \in Requests \ {r} : Granted(x, reqs[r].path)
    BY <1>10, TimeoutEffect
  <2>2. /\ reqs'[r].status = "rejected" /\ reqs'[r].mode = reqs[r].mode
        /\ reqs'[r].path = reqs[r].path
    BY <2>1 DEF IInv, TypeOK, Request
  <2>3. Promise!Reject(r)
    <3>1. lock'[r] = [lock[r] EXCEPT !.status = "rejected"] /\ lock[r].status = "queued"
      <4>1. lock[r] = [status |-> "queued", mode |-> reqs[r].mode, path |-> reqs[r].path]
        BY <2>1 DEF Told
      <4>2. lock'[r] = [status |-> "rejected", mode |-> reqs[r].mode, path |-> reqs[r].path]
        BY <2>2 DEF Told
      <4>. HIDE DEF lock
      <4>. QED
        BY <4>1, <4>2
    <3>2. Promise!OthersKeepOrGet(r)
      BY <2>1, <1>8
    <3>. QED
      BY <3>1, <3>2 DEF Promise!Reject, Told
  <2>. QED
    BY <2>1, <2>2, <2>3, <1>6
<1>11. ASSUME NEW r \in Requests, Forget(r)
       PROVE  Promise!Next
  <2>1. /\ reqs[r].status = "rejected" /\ reqs'[r] = NoRequest
        /\ \A x \in Requests \ {r} : reqs'[x] = reqs[x]
    BY <1>11 DEF Forget, IInv, TypeOK
  <2>2. Promise!GiveUp(r)
    <3>1. lock'[r] = Promise!Nothing /\ lock[r].status = "rejected"
      BY <2>1, <1>4 DEF Told
    <3>. QED
      BY <3>1, <2>1 DEF Promise!GiveUp, Told
  <2>. QED
    BY <2>1, <2>2, <1>6 DEF NoRequest
<1>. QED
  BY <1>5, <1>7, <1>9, <1>10, <1>11 DEF LockNext

\* The lock manager, as the adapter uses it, implements the abstract
\* readers-writer lock of module ReadersWriterLock.
THEOREM AdapterKeepsPromise == Spec => KeepsPromise
<1>1. ASSUME AInv, AInv', [Next]_vars
      PROVE  [Promise!Next]_([r \in Requests |-> Told(r)])
  BY <1>1, LocksUsed, PromiseStep DEF AInv
<1>2. Init => Promise!Init
  BY PromiseInit DEF Init
<1>3. [r \in Requests |-> Told(r)] = [r \in Requests |->
         [status |-> reqs[r].status, mode |-> reqs[r].mode, path |-> reqs[r].path]]
  BY DEF Told
<1>. QED
  BY <1>1, <1>2, AdapterInvariance, PTL DEF Spec, KeepsPromise, Promise!Spec, Told
=============================================================================
