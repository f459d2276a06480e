------------------------- MODULE ComponentsProofs -------------------------
(***************************************************************************)
(* Theorems about the components of Components, for every value of their   *)
(* constants.  Of the log collector: its type invariant, that no entry is  *)
(* lost or repeated (EachEntryOnce), and that the order is kept while      *)
(* flushes do not overlap (OrderKept).  Of the others: their types, that   *)
(* tokens give access for their time, that events are whole, that the      *)
(* services of a tenant answer when they are initialised, that no load and *)
(* no run of a pipeline stalls, and that the adapters of a call are open   *)
(* while it works and closed in the end.                                   *)
(*                                                                         *)
(* Each part has an invariant that its own steps keep; as a step is one of *)
(* one part and leaves the variables of the others, together they are the  *)
(* invariant of PartsSpec (at the end).                                    *)
(*                                                                         *)
(* The log collector: a step moves a whole sequence of entries from one    *)
(* place to another.  The first lemmas say what appending, joining and     *)
(* taking the tail do to who is in a sequence and to its order; then each  *)
(* step is described by what it does to the five places.                   *)
(***************************************************************************)
EXTENDS Components, FiniteSetTheorems, SequenceTheorems, WellFoundedInduction, TLAPS

-----------------------------------------------------------------------------
(* Sequences *)

\* Appending adds one element, at the end.
LEMMA AppendFacts ==
    ASSUME NEW s \in Seq(Entries), NEW x \in Entries
    PROVE  /\ Append(s, x) \in Seq(Entries) /\ Append(s, x) # <<>>
           /\ \A e \in Entries : In(e, Append(s, x)) <=> In(e, s) \/ e = x
           /\ Injective(s) /\ ~In(x, s) => Injective(Append(s, x))
           /\ Ordered(s) /\ (\A i \in DOMAIN s : s[i] < x) => Ordered(Append(s, x))
  <1> DEFINE t == Append(s, x)
  <1>1. /\ t \in Seq(Entries) /\ t # <<>> /\ Len(t) = Len(s) + 1
        /\ \A i \in 1..Len(s) : t[i] = s[i]
        /\ t[Len(s) + 1] = x
    OBVIOUS
  <1>2. Len(s) \in Nat /\ DOMAIN s = 1..Len(s) /\ DOMAIN t = 1..(Len(s) + 1)
    BY <1>1
  <1> HIDE DEF t
  <1>3. ASSUME NEW e \in Entries PROVE In(e, t) <=> In(e, s) \/ e = x
    <2>1. ASSUME In(e, t) PROVE In(e, s) \/ e = x
      BY <2>1, <1>1, <1>2 DEF In
    <2>2. ASSUME In(e, s) PROVE In(e, t)
      BY <2>2, <1>1, <1>2 DEF In
    <2>3. ASSUME e = x PROVE In(e, t)
      BY <2>3, <1>1, <1>2 DEF In
    <2> QED BY <2>1, <2>2, <2>3
  <1>4. ASSUME Injective(s), ~In(x, s) PROVE Injective(t)
    BY <1>4, <1>1, <1>2 DEF Injective, In
  <1>5. ASSUME Ordered(s), \A i \in DOMAIN s : s[i] < x PROVE Ordered(t)
    BY <1>5, <1>1, <1>2 DEF Ordered
  <1> QED BY <1>1, <1>3, <1>4, <1>5 DEF t

\* Joining two sequences.
LEMMA JoinFacts ==
    ASSUME NEW s \in Seq(Entries), NEW u \in Seq(Entries)
    PROVE  /\ s \o u \in Seq(Entries)
           /\ \A e \in Entries : In(e, s \o u) <=> In(e, s) \/ In(e, u)
           /\ Injective(s) /\ Injective(u) /\ (\A e \in Entries : ~(In(e, s) /\ In(e, u)))
              => Injective(s \o u)
           /\ Ordered(s) /\ Ordered(u) /\ Before(s, u) => Ordered(s \o u)
  <1> DEFINE t == s \o u
  <1>1. /\ t \in Seq(Entries) /\ Len(t) = Len(s) + Len(u)
        /\ \A i \in 1..Len(s) : t[i] = s[i]
        /\ \A i \in 1..Len(u) : t[Len(s) + i] = u[i]
    OBVIOUS
  <1>2. /\ Len(s) \in Nat /\ Len(u) \in Nat
        /\ DOMAIN s = 1..Len(s) /\ DOMAIN u = 1..Len(u) /\ DOMAIN t = 1..(Len(s) + Len(u))
    BY <1>1
  <1> HIDE DEF t
  <1>3. \A i \in DOMAIN t : \/ i \in DOMAIN s /\ t[i] = s[i]
                            \/ i - Len(s) \in DOMAIN u /\ t[i] = u[i - Len(s)] /\ i > Len(s)
    <2> SUFFICES ASSUME NEW i \in 1..(Len(s) + Len(u)), i \notin 1..Len(s)
                 PROVE  i - Len(s) \in 1..Len(u) /\ t[i] = u[i - Len(s)] /\ i > Len(s)
      BY <1>1, <1>2
    <2>1. i - Len(s) \in 1..Len(u) /\ i > Len(s) /\ Len(s) + (i - Len(s)) = i
      BY <1>2
    <2> QED BY <2>1, <1>1
  <1>4. ASSUME NEW e \in Entries PROVE In(e, t) <=> In(e, s) \/ In(e, u)
    <2>1. ASSUME In(e, t) PROVE In(e, s) \/ In(e, u)
      BY <2>1, <1>3 DEF In
    <2>2. ASSUME In(e, s) PROVE In(e, t)
      BY <2>2, <1>1, <1>2 DEF In
    <2>3. ASSUME In(e, u) PROVE In(e, t)
      <3>1. PICK i \in DOMAIN u : u[i] = e
        BY <2>3 DEF In
      <3>2. Len(s) + i \in DOMAIN t /\ t[Len(s) + i] = e
        BY <3>1, <1>1, <1>2
      <3> QED BY <3>2 DEF In
    <2> QED BY <2>1, <2>2, <2>3
  <1>5. \A i \in DOMAIN s : s[i] \in Entries /\ In(s[i], s)
    BY DEF In
  <1>6. \A i \in DOMAIN u : u[i] \in Entries /\ In(u[i], u)
    BY DEF In
  <1>7. ASSUME Injective(s), Injective(u), \A e \in Entries : ~(In(e, s) /\ In(e, u))
        PROVE  Injective(t)
    <2> SUFFICES ASSUME NEW i \in DOMAIN t, NEW j \in DOMAIN t, t[i] = t[j] PROVE i = j
      BY DEF Injective
    <2>1. CASE i \in DOMAIN s /\ t[i] = s[i] /\ j \in DOMAIN s /\ t[j] = s[j]
      BY <2>1, <1>7 DEF Injective
    <2>2. CASE /\ i - Len(s) \in DOMAIN u /\ t[i] = u[i - Len(s)]
               /\ j - Len(s) \in DOMAIN u /\ t[j] = u[j - Len(s)]
      <3>1. i - Len(s) = j - Len(s)
        BY <2>2, <1>7 DEF Injective
      <3> QED BY <3>1, <1>2
    <2>3. CASE /\ i \in DOMAIN s /\ t[i] = s[i]
               /\ j - Len(s) \in DOMAIN u /\ t[j] = u[j - Len(s)]
      BY <2>3, <1>5, <1>6, <1>7
    <2>4. CASE /\ j \in DOMAIN s /\ t[j] = s[j]
               /\ i - Len(s) \in DOMAIN u /\ t[i] = u[i - Len(s)]
      BY <2>4, <1>5, <1>6, <1>7
    <2> QED BY <1>3, <2>1, <2>2, <2>3, <2>4
  <1>8. ASSUME Ordered(s), Ordered(u), Before(s, u) PROVE Ordered(t)
    <2> SUFFICES ASSUME NEW i \in DOMAIN t, NEW j \in DOMAIN t, i < j PROVE t[i] < t[j]
      BY DEF Ordered
    <2>1. CASE i \in DOMAIN s /\ t[i] = s[i] /\ j \in DOMAIN s /\ t[j] = s[j]
      BY <2>1, <1>8 DEF Ordered
    <2>2. CASE /\ i - Len(s) \in DOMAIN u /\ t[i] = u[i - Len(s)]
               /\ j - Len(s) \in DOMAIN u /\ t[j] = u[j - Len(s)]
      <3>1. i - Len(s) < j - Len(s)
        BY <1>2
      <3> QED BY <3>1, <2>2, <1>8 DEF Ordered
    <2>3. CASE /\ i \in DOMAIN s /\ t[i] = s[i]
               /\ j - Len(s) \in DOMAIN u /\ t[j] = u[j - Len(s)]
      BY <2>3, <1>8 DEF Before
    <2>4. CASE j \in DOMAIN s /\ i > Len(s)
      BY <2>4, <1>2
    <2> QED BY <1>3, <2>1, <2>2, <2>3, <2>4
  <1> QED BY <1>1, <1>4, <1>7, <1>8 DEF t

\* Taking off the first element.
LEMMA TailFacts ==
    ASSUME NEW s \in Seq(Entries), s # <<>>
    PROVE  /\ Tail(s) \in Seq(Entries) /\ Head(s) \in Entries /\ In(Head(s), s)
           /\ \A e \in Entries : In(e, Tail(s)) => In(e, s)
           /\ \A e \in Entries : In(e, s) => In(e, Tail(s)) \/ e = Head(s)
           /\ Injective(s) => Injective(Tail(s)) /\ ~In(Head(s), Tail(s))
           /\ Ordered(s) => Ordered(Tail(s))
  <1> DEFINE t == Tail(s)
  <1>1. /\ t \in Seq(Entries) /\ Len(s) > 0 /\ Len(t) = Len(s) - 1 /\ Head(s) = s[1]
        /\ \A i \in 1..Len(t) : t[i] = s[i + 1]
    OBVIOUS
  <1>2. Len(s) \in Nat /\ DOMAIN s = 1..Len(s) /\ DOMAIN t = 1..(Len(s) - 1)
    BY <1>1
  <1> HIDE DEF t
  <1>3. \A i \in DOMAIN t : i + 1 \in DOMAIN s /\ t[i] = s[i + 1]
    BY <1>1, <1>2
  <1>4. In(Head(s), s) /\ Head(s) \in Entries
    BY <1>1, <1>2 DEF In
  <1>5. ASSUME NEW e \in Entries, In(e, t) PROVE In(e, s)
    BY <1>5, <1>3 DEF In
  <1>6. ASSUME NEW e \in Entries, In(e, s) PROVE In(e, t) \/ e = Head(s)
    <2>1. PICK i \in DOMAIN s : s[i] = e
      BY <1>6 DEF In
    <2>2. CASE i = 1
      BY <2>1, <2>2, <1>1
    <2>3. CASE i # 1
      <3>1. i - 1 \in DOMAIN t /\ (i - 1) + 1 = i
        BY <2>3, <1>2
      <3> QED BY <2>1, <3>1, <1>3 DEF In
    <2> QED BY <2>2, <2>3
  <1>7. ASSUME Injective(s) PROVE Injective(t) /\ ~In(Head(s), t)
    <2>1. Injective(t)
      <3> SUFFICES ASSUME NEW i \in DOMAIN t, NEW j \in DOMAIN t, t[i] = t[j] PROVE i = j
        BY DEF Injective
      <3>1. i + 1 = j + 1
        BY <1>3, <1>7 DEF Injective
      <3> QED BY <3>1, <1>2
    <2>2. ~In(Head(s), t)
      <3> SUFFICES ASSUME NEW i \in DOMAIN t, t[i] = Head(s) PROVE FALSE
        BY DEF In
      <3>1. i + 1 = 1
        BY <1>1, <1>2, <1>3, <1>7 DEF Injective
      <3> QED BY <3>1, <1>2
    <2> QED BY <2>1, <2>2
  <1>8. ASSUME Ordered(s) PROVE Ordered(t)
    <2> SUFFICES ASSUME NEW i \in DOMAIN t, NEW j \in DOMAIN t, i < j PROVE t[i] < t[j]
      BY DEF Ordered
    <2>1. i + 1 < j + 1
      BY <1>2
    <2> QED BY <2>1, <1>3, <1>8 DEF Ordered
  <1> QED BY <1>1, <1>4, <1>5, <1>6, <1>7, <1>8 DEF t

\* Nobody is in an empty sequence, which is in order.
LEMMA EmptyFacts ==
    /\ <<>> \in Seq(Entries) /\ Injective(<<>>) /\ Ordered(<<>>)
    /\ \A e : ~In(e, <<>>)
  BY DEF Injective, Ordered, In

-----------------------------------------------------------------------------
(* The type invariant *)

\* A request in hand has entries enough, and a configuration.
TypeInv == TypeOK /\ posted + left <= MaxEntries /\ (left > 0 => by \in Configs)

\* The entry in hand, and what the queue is once it has been taken in.
Kept == IF Full(by) THEN Tail(queue) ELSE queue
Taken == Append(Kept, posted + 1)

\* The queue would be q, unless it was sent.
Sent(q) ==
    \/ queue' = q /\ flights' = flights /\ overlapped' = overlapped
    \/ /\ queue' = <<>> /\ q # <<>>
       /\ \E c \in Configs : flights' = flights \cup {[batch |-> q, to |-> c]}
       /\ overlapped' = (overlapped \/ flights # {})

\* A flush sends what it is given, or there is nothing to send.
LEMMA FlushSends == ASSUME NEW q, NEW c \in Configs, Flush(q, c) PROVE Sent(q)
  BY DEF Flush, Sent

LEMMA TakenType ==
    ASSUME TypeInv, left > 0
    PROVE  /\ posted + 1 \in Entries /\ Kept \in Seq(Entries) /\ Taken \in Seq(Entries)
           /\ by \in Configs
  <1>1. posted + 1 \in Entries
    BY ForwarderConstants DEF TypeInv, TypeOK, Entries
  <1>2. queue \in Seq(Entries)
    BY DEF TypeInv, TypeOK
  <1>3. Kept \in Seq(Entries)
    BY <1>2, TailFacts DEF Kept, Full
  <1> QED BY <1>1, <1>3, AppendFacts DEF Taken, TypeInv

\* What a processed entry does.
LEMMA ProcessEffect ==
    ASSUME TypeInv, ProcessEntry
    PROVE  /\ left > 0 /\ Sent(Taken)
           /\ posted' = posted + 1 /\ left' = left - 1
           /\ dropped' = IF Full(by) THEN dropped \cup {Head(queue)} ELSE dropped
           /\ timer' \in {timer, by}
           /\ UNCHANGED <<by, delivered, discarded>>
  <1>1. left > 0
    BY DEF ProcessEntry
  <1>2. CASE Flush(Taken, by)
    BY <1>1, <1>2, TakenType, FlushSends DEF ProcessEntry, EnsureFlushTimer
  <1>3. CASE queue' = Taken /\ UNCHANGED <<flights, overlapped>>
    BY <1>1, <1>3 DEF ProcessEntry, EnsureFlushTimer, Sent
  <1> QED BY <1>2, <1>3 DEF ProcessEntry, Taken, Kept

LEMMA SentType ==
    ASSUME TypeInv, NEW q \in Seq(Entries), Sent(q)
    PROVE  /\ queue' \in Seq(Entries) /\ overlapped' \in BOOLEAN
           /\ \A f \in flights' : f \in Flight
  <1>1. \A f \in flights : f \in Flight
    BY DEF TypeInv, TypeOK
  <1>2. overlapped \in BOOLEAN
    BY DEF TypeInv, TypeOK
  <1>3. CASE queue' = q /\ flights' = flights /\ overlapped' = overlapped
    BY <1>1, <1>2, <1>3
  <1>4. CASE /\ queue' = <<>> /\ q # <<>>
             /\ \E c \in Configs : flights' = flights \cup {[batch |-> q, to |-> c]}
             /\ overlapped' = (overlapped \/ flights # {})
    <2>1. PICK c \in Configs : flights' = flights \cup {[batch |-> q, to |-> c]}
      BY <1>4
    <2>2. [batch |-> q, to |-> c] \in Flight
      BY <1>4 DEF Flight
    <2> QED BY <1>1, <1>4, <2>1, <2>2, EmptyFacts
  <1> QED BY <1>3, <1>4 DEF Sent

LEMMA InitType == Init => TypeInv
  <1> SUFFICES ASSUME Init PROVE TypeInv
    OBVIOUS
  <1>1. queue \in Seq(Entries) /\ delivered \in Seq(Entries)
    BY EmptyFacts DEF Init
  <1>2. /\ posted = 0 /\ left = 0 /\ by = None /\ timer = None /\ flights = {}
        /\ dropped = {} /\ discarded = {} /\ overlapped = FALSE
    BY DEF Init
  <1>3. posted \in 0..MaxEntries /\ left \in 0..MaxPosted /\ posted + left <= MaxEntries
    BY <1>2, ForwarderConstants
  <1>4. ~(left > 0)
    BY <1>2
  <1>5. by \in Configs \cup {None} /\ timer \in Configs \cup {None} /\ overlapped \in BOOLEAN
    BY <1>2
  <1>6. /\ \A f \in flights : f \in Flight
        /\ dropped \subseteq Entries /\ discarded \subseteq Entries
    BY <1>2
  <1>7. TypeOK
    BY <1>1, <1>3, <1>5, <1>6 DEF TypeOK
  <1> QED BY <1>3, <1>4, <1>7 DEF TypeInv

LEMMA TypeStep == TypeInv /\ [Next]_vars => TypeInv'
  <1> SUFFICES ASSUME TypeInv, [Next]_vars PROVE TypeInv'
    OBVIOUS
  <1> USE ForwarderConstants
  <1>1. ASSUME NEW c \in Configs, NEW n \in 1..MaxPosted, Post(c, n) PROVE TypeInv'
    BY <1>1 DEF Post, TypeInv, TypeOK, Quiet
  <1>2. ASSUME ProcessEntry PROVE TypeInv'
    <2>1. /\ queue' \in Seq(Entries) /\ overlapped' \in BOOLEAN
          /\ \A f \in flights' : f \in Flight
      BY <1>2, ProcessEffect, TakenType, SentType
    <2>2. dropped' \subseteq Entries
      <3>1. queue \in Seq(Entries) /\ dropped \subseteq Entries
        BY DEF TypeInv, TypeOK
      <3>2. CASE Full(by)
        <4>1. queue # <<>>
          BY <3>2 DEF Full
        <4>2. Head(queue) \in Entries
          BY <3>1, <4>1, TailFacts
        <4> QED BY <1>2, <3>1, <3>2, <4>2, ProcessEffect
      <3>3. CASE ~Full(by)
        BY <1>2, <3>1, <3>3, ProcessEffect
      <3> QED BY <3>2, <3>3
    <2>3. posted' \in 0..MaxEntries /\ left' \in 0..MaxPosted /\ posted' + left' <= MaxEntries
      BY <1>2, ProcessEffect, SMTT(20) DEF TypeInv, TypeOK
    <2>4. timer' \in Configs \cup {None} /\ by' \in Configs
      BY <1>2, ProcessEffect, TakenType DEF TypeInv, TypeOK
    <2>5. delivered' \in Seq(Entries) /\ discarded' \subseteq Entries
      BY <1>2, ProcessEffect DEF TypeInv, TypeOK
    <2> QED BY <2>1, <2>2, <2>3, <2>4, <2>5 DEF TypeInv, TypeOK
  <1>3. ASSUME TimerFires PROVE TypeInv'
    <2>1. timer \in Configs /\ queue \in Seq(Entries)
      BY <1>3 DEF TimerFires, TypeInv, TypeOK
    <2>2. /\ queue' \in Seq(Entries) /\ overlapped' \in BOOLEAN
          /\ \A f \in flights' : f \in Flight
      BY <1>3, <2>1, FlushSends, SentType DEF TimerFires
    <2> QED BY <1>3, <2>2 DEF TimerFires, TypeInv, TypeOK
  <1>4. ASSUME NEW f \in flights, Accepted(f) PROVE TypeInv'
    <2>1. f.batch \in Seq(Entries) /\ delivered \in Seq(Entries)
      BY DEF TypeInv, TypeOK, Flight
    <2>2. delivered' \in Seq(Entries)
      BY <1>4, <2>1, JoinFacts DEF Accepted
    <2> QED BY <1>4, <2>2 DEF Accepted, Ends, TypeInv, TypeOK
  <1>5. ASSUME NEW f \in flights, Refused(f) PROVE TypeInv'
    <2>1. f.batch \in Seq(Entries) /\ queue \in Seq(Entries)
      BY DEF TypeInv, TypeOK, Flight
    <2>2. queue' \in Seq(Entries)
      BY <1>5, <2>1, JoinFacts DEF Refused
    <2> QED BY <1>5, <2>2 DEF Refused, Ends, TypeInv, TypeOK
  <1>6. ASSUME NEW f \in flights, NetworkError(f) PROVE TypeInv'
    <2>1. f.batch \in Seq(Entries)
      BY DEF TypeInv, TypeOK, Flight
    <2> QED BY <1>6, <2>1 DEF NetworkError, Ends, TypeInv, TypeOK
  <1>7. ASSUME UNCHANGED vars PROVE TypeInv'
    BY <1>7 DEF vars, TypeInv, TypeOK
  <1> QED BY <1>1, <1>2, <1>3, <1>4, <1>5, <1>6, <1>7 DEF Next

\* Every variable keeps its type; no flush is ever empty.
THEOREM ForwarderTypeCorrect == Spec => []TypeOK
  <1>1. TypeInv => TypeOK
    BY DEF TypeInv
  <1> QED BY <1>1, InitType, TypeStep, PTL DEF Spec

-----------------------------------------------------------------------------
(* Each entry once *)

Flying(e) == \E f \in flights : In(e, f.batch)

\* EachEntryOnce, the queue being q, n entries being processed and dr dropped.
OnceOf(q, n, dr) ==
    /\ \A e \in Entries :
        /\ e <= n <=> In(e, q) \/ Flying(e) \/ In(e, delivered) \/ e \in dr \/ e \in discarded
        /\ In(e, q) => ~Flying(e) /\ ~In(e, delivered) /\ e \notin dr /\ e \notin discarded
        /\ Flying(e) => ~In(e, delivered) /\ e \notin dr /\ e \notin discarded
        /\ In(e, delivered) => e \notin dr /\ e \notin discarded
        /\ ~(e \in dr /\ e \in discarded)
    /\ \A f1, f2 \in flights, e \in Entries : In(e, f1.batch) /\ In(e, f2.batch) => f1 = f2
    /\ Injective(q) /\ Injective(delivered)
    /\ \A f \in flights : Injective(f.batch)

Once == OnceOf(queue, posted, dropped)

LEMMA OnceIsEnough == Once => EachEntryOnce
  <1> SUFFICES ASSUME Once PROVE EachEntryOnce
    OBVIOUS
  <1> DEFINE inQueue(e) == Held(e, "queue")
  <1>1. \A e \in Entries :
          /\ Held(e, "queue") <=> In(e, queue)
          /\ Held(e, "flight") <=> Flying(e)
          /\ Held(e, "delivered") <=> In(e, delivered)
          /\ Held(e, "dropped") <=> e \in dropped
          /\ Held(e, "discarded") <=> e \in discarded
    BY DEF Held, Flying
  <1>2. \A place : place \in Places <=> place \in {"queue", "flight", "delivered", "dropped", "discarded"}
    BY DEF Places
  <1>3. ASSUME NEW e \in Entries
        PROVE  /\ e <= posted <=> \E place \in Places : Held(e, place)
               /\ \A p1, p2 \in Places : Held(e, p1) /\ Held(e, p2) => p1 = p2
    <2>1. /\ e <= posted <=> \/ In(e, queue) \/ Flying(e) \/ In(e, delivered)
                             \/ e \in dropped \/ e \in discarded
          /\ In(e, queue) => ~Flying(e) /\ ~In(e, delivered) /\ e \notin dropped /\ e \notin discarded
          /\ Flying(e) => ~In(e, delivered) /\ e \notin dropped /\ e \notin discarded
          /\ In(e, delivered) => e \notin dropped /\ e \notin discarded
          /\ ~(e \in dropped /\ e \in discarded)
      BY DEF Once, OnceOf
    <2> HIDE DEF Held
    <2>2. (\E place \in Places : Held(e, place)) <=>
             \/ Held(e, "queue") \/ Held(e, "flight") \/ Held(e, "delivered")
             \/ Held(e, "dropped") \/ Held(e, "discarded")
      BY <1>2
    <2>3. \A p1, p2 \in Places : Held(e, p1) /\ Held(e, p2) => p1 = p2
      BY <1>1, <1>2, <2>1
    <2> QED BY <1>1, <2>1, <2>2, <2>3
  <1> QED BY <1>3 DEF EachEntryOnce, Once, OnceOf

\* Taking in an entry: it is new, and the one dropped for it was queued.
LEMMA TakenOnce ==
    ASSUME TypeInv, left > 0, Once,
           NEW dr, dr = IF Full(by) THEN dropped \cup {Head(queue)} ELSE dropped
    PROVE  OnceOf(Taken, posted + 1, dr)
  <1> DEFINE x == posted + 1
  <1>1. /\ x \in Entries /\ Kept \in Seq(Entries) /\ queue \in Seq(Entries)
        /\ posted \in Nat
    BY TakenType DEF TypeInv, TypeOK
  <1>2. \A e \in Entries : In(e, Kept) => In(e, queue) /\ e \notin dr
    <2>1. CASE Full(by)
      BY <1>1, <2>1, TailFacts DEF Full, Kept, Once, OnceOf
    <2>2. CASE ~Full(by)
      BY <2>2 DEF Kept, Once, OnceOf
    <2> QED BY <2>1, <2>2
  <1>3. \A e \in Entries : In(e, queue) => In(e, Kept) \/ e \in dr
    <2>1. CASE Full(by)
      BY <1>1, <2>1, TailFacts DEF Full, Kept
    <2>2. CASE ~Full(by)
      BY <2>2 DEF Kept
    <2> QED BY <2>1, <2>2
  <1>4. Injective(Kept)
    <2>1. Injective(queue)
      BY DEF Once, OnceOf
    <2>2. CASE Full(by)
      BY <1>1, <2>1, <2>2, TailFacts DEF Full, Kept
    <2>3. CASE ~Full(by)
      BY <2>1, <2>3 DEF Kept
    <2> QED BY <2>2, <2>3
  <1>5. \A e \in Entries : e \in dr <=> e \in dropped \/ (In(e, queue) /\ ~In(e, Kept))
    <2>1. CASE Full(by)
      <3>1. queue # <<>> /\ Kept = Tail(queue) /\ dr = dropped \cup {Head(queue)}
        BY <2>1 DEF Full, Kept
      <3>2. Injective(queue)
        BY DEF Once, OnceOf
      <3> QED BY <1>1, <3>1, <3>2, TailFacts
    <2>2. CASE ~Full(by)
      BY <2>2 DEF Kept
    <2> QED BY <2>1, <2>2
  <1>6. ~(x <= posted) /\ \A e \in Entries : e <= x <=> e <= posted \/ e = x
    BY <1>1 DEF Entries
  <1>7. /\ ~In(x, queue) /\ ~Flying(x) /\ ~In(x, delivered) /\ x \notin dropped /\ x \notin discarded
    BY <1>1, <1>6 DEF Once, OnceOf
  <1>8. ~In(x, Kept) /\ x \notin dr
    BY <1>1, <1>2, <1>5, <1>7
  <1>9. /\ \A e \in Entries : In(e, Taken) <=> In(e, Kept) \/ e = x
        /\ Injective(Taken)
    BY <1>1, <1>4, <1>8, AppendFacts DEF Taken
  <1> HIDE DEF x
  <1>10. ASSUME NEW e \in Entries
         PROVE  /\ e <= x <=> \/ In(e, Taken) \/ Flying(e) \/ In(e, delivered)
                              \/ e \in dr \/ e \in discarded
                /\ In(e, Taken) => ~Flying(e) /\ ~In(e, delivered) /\ e \notin dr /\ e \notin discarded
                /\ Flying(e) => ~In(e, delivered) /\ e \notin dr /\ e \notin discarded
                /\ In(e, delivered) => e \notin dr /\ e \notin discarded
                /\ ~(e \in dr /\ e \in discarded)
    <2>1. /\ e <= posted <=> \/ In(e, queue) \/ Flying(e) \/ In(e, delivered)
                             \/ e \in dropped \/ e \in discarded
          /\ In(e, queue) => ~Flying(e) /\ ~In(e, delivered) /\ e \notin dropped /\ e \notin discarded
          /\ Flying(e) => ~In(e, delivered) /\ e \notin dropped /\ e \notin discarded
          /\ In(e, delivered) => e \notin dropped /\ e \notin discarded
          /\ ~(e \in dropped /\ e \in discarded)
      BY DEF Once, OnceOf
    <2>2. /\ e <= x <=> e <= posted \/ e = x
          /\ In(e, Taken) <=> In(e, Kept) \/ e = x
          /\ e \in dr <=> e \in dropped \/ (In(e, queue) /\ ~In(e, Kept))
          /\ In(e, Kept) => In(e, queue)
      BY <1>2, <1>5, <1>6, <1>9
    <2>3. e = x => /\ ~In(e, queue) /\ ~Flying(e) /\ ~In(e, delivered)
                   /\ e \notin dropped /\ e \notin discarded
      BY <1>7
    <2> QED BY <2>1, <2>2, <2>3
  <1> QED BY <1>9, <1>10 DEF Once, OnceOf, x

\* Sending a queue moves its entries to a flush that had none of them.
LEMMA SentOnce ==
    ASSUME NEW q \in Seq(Entries), NEW n, NEW dr, OnceOf(q, n, dr), Sent(q),
           posted' = n, dropped' = dr, UNCHANGED <<delivered, discarded>>
    PROVE  Once'
  <1>1. CASE queue' = q /\ flights' = flights /\ overlapped' = overlapped
    BY <1>1 DEF Once, OnceOf, Flying
  <1>2. CASE queue' = <<>> /\ \E c \in Configs : flights' = flights \cup {[batch |-> q, to |-> c]}
    <2>1. PICK c \in Configs : flights' = flights \cup {[batch |-> q, to |-> c]}
      BY <1>2
    <2> DEFINE new == [batch |-> q, to |-> c]
    <2>2. new.batch = q /\ flights' = flights \cup {new}
      BY <2>1
    <2> HIDE DEF new
    <2>3. \A e \in Entries : (Flying(e))' <=> Flying(e) \/ In(e, q)
      BY <2>2 DEF Flying
    <2>4. \A e \in Entries : ~In(e, queue')
      BY <1>2, EmptyFacts
    <2>5. \A f1, f2 \in flights', e \in Entries : In(e, f1.batch) /\ In(e, f2.batch) => f1 = f2
      <3>1. \A f \in flights, e \in Entries : In(e, q) => ~In(e, f.batch)
        BY DEF OnceOf, Flying
      <3>2. \A f1, f2 \in flights, e \in Entries : In(e, f1.batch) /\ In(e, f2.batch) => f1 = f2
        BY DEF OnceOf
      <3> QED BY <2>2, <3>1, <3>2
    <2>6. Injective(queue') /\ \A f \in flights' : Injective(f.batch)
      BY <1>2, <2>2, EmptyFacts DEF OnceOf
    <2>7. Injective(delivered')
      BY DEF OnceOf
    <2>8. ASSUME NEW e \in Entries
          PROVE  /\ e <= posted' <=> \/ In(e, queue') \/ (Flying(e))' \/ In(e, delivered')
                                     \/ e \in dropped' \/ e \in discarded'
                 /\ (Flying(e))' => ~In(e, delivered') /\ e \notin dropped' /\ e \notin discarded'
                 /\ In(e, delivered') => e \notin dropped' /\ e \notin discarded'
                 /\ ~(e \in dropped' /\ e \in discarded')
      BY <2>3, <2>4 DEF OnceOf
    <2> QED BY <2>4, <2>5, <2>6, <2>7, <2>8 DEF Once, OnceOf
  <1> QED BY <1>1, <1>2 DEF Sent

\* What the end of a flush does to where entries are.
LEMMA EndOnce ==
    ASSUME TypeInv, Once, NEW f \in flights, flights' = flights \ {f}, posted' = posted,
           dropped' = dropped,
           \/ /\ queue' = queue /\ delivered' = delivered \o f.batch /\ discarded' = discarded
           \/ /\ queue' = f.batch \o queue /\ delivered' = delivered /\ discarded' = discarded
           \/ /\ queue' = queue /\ delivered' = delivered
              /\ discarded' = discarded \cup {f.batch[i] : i \in DOMAIN f.batch}
    PROVE  Once'
  <1>1. f.batch \in Seq(Entries) /\ queue \in Seq(Entries) /\ delivered \in Seq(Entries)
    BY DEF TypeInv, TypeOK, Flight
  <1>2. \A e \in Entries : (Flying(e))' => Flying(e) /\ ~In(e, f.batch)
    BY DEF Flying, Once, OnceOf
  <1>3. \A e \in Entries : Flying(e) => (Flying(e))' \/ In(e, f.batch)
    BY DEF Flying
  <1>4. \A e \in Entries : In(e, f.batch) => Flying(e)
    BY DEF Flying
  <1>5. /\ \A f1, f2 \in flights', e \in Entries : In(e, f1.batch) /\ In(e, f2.batch) => f1 = f2
        /\ \A g \in flights' : Injective(g.batch)
    BY DEF Once, OnceOf
  <1>6. Injective(queue) /\ Injective(delivered) /\ Injective(f.batch)
    BY DEF Once, OnceOf
  <1>7. \A e \in Entries :
          /\ e <= posted <=> \/ In(e, queue) \/ Flying(e) \/ In(e, delivered)
                             \/ e \in dropped \/ e \in discarded
          /\ In(e, queue) => ~Flying(e) /\ ~In(e, delivered) /\ e \notin dropped /\ e \notin discarded
          /\ Flying(e) => ~In(e, delivered) /\ e \notin dropped /\ e \notin discarded
          /\ In(e, delivered) => e \notin dropped /\ e \notin discarded
          /\ ~(e \in dropped /\ e \in discarded)
    BY DEF Once, OnceOf
  <1>8. CASE queue' = queue /\ delivered' = delivered \o f.batch /\ discarded' = discarded
    <2>1. \A e \in Entries : In(e, delivered') <=> In(e, delivered) \/ In(e, f.batch)
      BY <1>1, <1>8, JoinFacts
    <2>2. \A e \in Entries : ~(In(e, delivered) /\ In(e, f.batch))
      BY <1>4, <1>7
    <2>3. Injective(delivered')
      BY <1>1, <1>6, <1>8, <2>2, JoinFacts
    <2>4. Injective(queue')
      BY <1>6, <1>8
    <2>5. ASSUME NEW e \in Entries
          PROVE  /\ e <= posted' <=> \/ In(e, queue') \/ (Flying(e))' \/ In(e, delivered')
                                     \/ e \in dropped' \/ e \in discarded'
                 /\ In(e, queue') => /\ ~(Flying(e))' /\ ~In(e, delivered')
                                     /\ e \notin dropped' /\ e \notin discarded'
                 /\ (Flying(e))' => ~In(e, delivered') /\ e \notin dropped' /\ e \notin discarded'
                 /\ In(e, delivered') => e \notin dropped' /\ e \notin discarded'
                 /\ ~(e \in dropped' /\ e \in discarded')
      BY <1>2, <1>3, <1>4, <1>7, <1>8, <2>1
    <2> QED BY <1>5, <2>3, <2>4, <2>5 DEF Once, OnceOf
  <1>9. CASE queue' = f.batch \o queue /\ delivered' = delivered /\ discarded' = discarded
    <2>1. \A e \in Entries : In(e, queue') <=> In(e, f.batch) \/ In(e, queue)
      BY <1>1, <1>9, JoinFacts
    <2>2. \A e \in Entries : ~(In(e, f.batch) /\ In(e, queue))
      BY <1>4, <1>7
    <2>3. Injective(queue')
      BY <1>1, <1>6, <1>9, <2>2, JoinFacts
    <2>4. Injective(delivered')
      BY <1>6, <1>9
    <2>5. ASSUME NEW e \in Entries
          PROVE  /\ e <= posted' <=> \/ In(e, queue') \/ (Flying(e))' \/ In(e, delivered')
                                     \/ e \in dropped' \/ e \in discarded'
                 /\ In(e, queue') => /\ ~(Flying(e))' /\ ~In(e, delivered')
                                     /\ e \notin dropped' /\ e \notin discarded'
                 /\ (Flying(e))' => ~In(e, delivered') /\ e \notin dropped' /\ e \notin discarded'
                 /\ In(e, delivered') => e \notin dropped' /\ e \notin discarded'
                 /\ ~(e \in dropped' /\ e \in discarded')
      BY <1>2, <1>3, <1>4, <1>7, <1>9, <2>1
    <2> QED BY <1>5, <2>3, <2>4, <2>5 DEF Once, OnceOf
  <1>10. CASE /\ queue' = queue /\ delivered' = delivered
              /\ discarded' = discarded \cup {f.batch[i] : i \in DOMAIN f.batch}
    <2>1. \A e \in Entries : e \in discarded' <=> e \in discarded \/ In(e, f.batch)
      BY <1>10 DEF In
    <2>2. Injective(queue') /\ Injective(delivered')
      BY <1>6, <1>10
    <2>3. ASSUME NEW e \in Entries
          PROVE  /\ e <= posted' <=> \/ In(e, queue') \/ (Flying(e))' \/ In(e, delivered')
                                     \/ e \in dropped' \/ e \in discarded'
                 /\ In(e, queue') => /\ ~(Flying(e))' /\ ~In(e, delivered')
                                     /\ e \notin dropped' /\ e \notin discarded'
                 /\ (Flying(e))' => ~In(e, delivered') /\ e \notin dropped' /\ e \notin discarded'
                 /\ In(e, delivered') => e \notin dropped' /\ e \notin discarded'
                 /\ ~(e \in dropped' /\ e \in discarded')
      BY <1>2, <1>3, <1>4, <1>7, <1>10, <2>1
    <2> QED BY <1>5, <2>2, <2>3 DEF Once, OnceOf
  <1> QED BY <1>8, <1>9, <1>10

LEMMA InitOnce == Init => Once
  <1> SUFFICES ASSUME Init PROVE Once
    OBVIOUS
  <1>1. \A e \in Entries : ~(e <= posted)
    BY DEF Init, Entries
  <1>2. /\ \A e \in Entries : ~In(e, queue) /\ ~In(e, delivered) /\ ~Flying(e)
        /\ Injective(queue) /\ Injective(delivered)
    BY EmptyFacts DEF Init, Flying
  <1> QED BY <1>1, <1>2 DEF Init, Once, OnceOf

LEMMA OnceStep == TypeInv /\ Once /\ [Next]_vars => Once'
  <1> SUFFICES ASSUME TypeInv, Once, [Next]_vars PROVE Once'
    OBVIOUS
  <1>1. ASSUME NEW c \in Configs, NEW n \in 1..MaxPosted, Post(c, n) PROVE Once'
    BY <1>1 DEF Post, Once, OnceOf, Flying
  <1>2. ASSUME ProcessEntry PROVE Once'
    <2>1. /\ left > 0 /\ Sent(Taken) /\ posted' = posted + 1 /\ UNCHANGED <<delivered, discarded>>
          /\ dropped' = IF Full(by) THEN dropped \cup {Head(queue)} ELSE dropped
      BY <1>2, ProcessEffect
    <2>2. OnceOf(Taken, posted + 1, dropped')
      BY <2>1, TakenOnce
    <2>3. Taken \in Seq(Entries)
      BY <2>1, TakenType
    <2> QED BY <2>1, <2>2, <2>3, SentOnce
  <1>3. ASSUME TimerFires PROVE Once'
    <2>1. timer \in Configs /\ queue \in Seq(Entries)
      BY <1>3 DEF TimerFires, TypeInv, TypeOK
    <2>2. Sent(queue) /\ UNCHANGED <<posted, dropped, delivered, discarded>>
      BY <1>3, <2>1, FlushSends DEF TimerFires
    <2> QED BY <2>1, <2>2, SentOnce DEF Once
  <1>4. ASSUME NEW f \in flights, Accepted(f) \/ Refused(f) \/ NetworkError(f) PROVE Once'
    BY <1>4, EndOnce DEF Accepted, Refused, NetworkError, Ends
  <1>5. ASSUME UNCHANGED vars PROVE Once'
    BY <1>5 DEF vars, Once, OnceOf, Flying
  <1> QED BY <1>1, <1>2, <1>3, <1>4, <1>5 DEF Next

\* The places of the entries, and their types.
THEOREM ForwarderInvariance == Spec => [](TypeInv /\ Once)
  <1>1. Init => TypeInv /\ Once
    BY InitType, InitOnce
  <1>2. (TypeInv /\ Once) /\ [Next]_vars => (TypeInv /\ Once)'
    BY TypeStep, OnceStep
  <1> QED BY <1>1, <1>2, PTL DEF Spec

\* No entry is lost or repeated, whatever flushes overlap and however they end.
THEOREM ForwarderEachEntryOnce == Spec => []EachEntryOnce
  <1>1. TypeInv /\ Once => EachEntryOnce
    BY OnceIsEnough
  <1> QED BY <1>1, ForwarderInvariance, PTL

-----------------------------------------------------------------------------
(* Order *)

\* Before, said of the entries and not of their places.
Earlier(s, t) == \A e, g \in Entries : In(e, s) /\ In(g, t) => e < g

LEMMA EarlierIsBefore ==
    ASSUME NEW s \in Seq(Entries), NEW t \in Seq(Entries)
    PROVE  Before(s, t) <=> Earlier(s, t)
  <1>1. /\ \A i \in DOMAIN s : s[i] \in Entries /\ In(s[i], s)
        /\ \A i \in DOMAIN t : t[i] \in Entries /\ In(t[i], t)
    BY DEF In
  <1>2. ASSUME Earlier(s, t) PROVE Before(s, t)
    BY <1>1, <1>2 DEF Earlier, Before
  <1>3. ASSUME Before(s, t) PROVE Earlier(s, t)
    BY <1>3 DEF Earlier, Before, In
  <1> QED BY <1>2, <1>3

\* OrderKept, the queue being q; and there is one flush at most.
OrderOf(q) ==
    /\ Ordered(q) /\ Ordered(delivered) /\ Earlier(delivered, q)
    /\ \A f \in flights :
        Ordered(f.batch) /\ Earlier(delivered, f.batch) /\ Earlier(f.batch, q)
    /\ \A f1, f2 \in flights : f1 = f2

InOrder == ~overlapped => OrderOf(queue)

LEMMA InOrderIsEnough == TypeInv /\ InOrder => OrderKept
  <1> SUFFICES ASSUME TypeInv, InOrder, ~overlapped PROVE OrderKept
    BY DEF OrderKept
  <1>1. /\ queue \in Seq(Entries) /\ delivered \in Seq(Entries)
        /\ \A f \in flights : f.batch \in Seq(Entries)
    BY DEF TypeInv, TypeOK, Flight
  <1>2. OrderOf(queue)
    BY DEF InOrder
  <1>3. Before(delivered, queue)
    BY <1>1, <1>2, EarlierIsBefore DEF OrderOf
  <1>4. \A f \in flights : Before(delivered, f.batch) /\ Before(f.batch, queue)
    BY <1>1, <1>2, EarlierIsBefore DEF OrderOf
  <1> QED BY <1>2, <1>3, <1>4 DEF OrderOf, OrderKept

LEMMA TakenOrder ==
    ASSUME TypeInv, left > 0, Once, OrderOf(queue)
    PROVE  OrderOf(Taken)
  <1>1. /\ posted + 1 \in Entries /\ Kept \in Seq(Entries) /\ queue \in Seq(Entries)
        /\ posted \in Nat
    BY TakenType DEF TypeInv, TypeOK
  <1>2. (\A e \in Entries : In(e, Kept) => In(e, queue)) /\ Ordered(Kept)
    <2>1. Ordered(queue)
      BY DEF OrderOf
    <2>2. CASE Full(by)
      BY <1>1, <2>1, <2>2, TailFacts DEF Full, Kept
    <2>3. CASE ~Full(by)
      BY <2>1, <2>3 DEF Kept
    <2> QED BY <2>2, <2>3
  <1>3. \A e \in Entries : In(e, queue) \/ Flying(e) \/ In(e, delivered) => e < posted + 1
    <2> SUFFICES ASSUME NEW e \in Entries, In(e, queue) \/ Flying(e) \/ In(e, delivered)
                 PROVE  e < posted + 1
      OBVIOUS
    <2>1. e <= posted
      BY DEF Once, OnceOf
    <2> QED BY <1>1, <2>1 DEF Entries
  <1>4. \A i \in DOMAIN Kept : Kept[i] < posted + 1
    <2>1. \A i \in DOMAIN Kept : Kept[i] \in Entries /\ In(Kept[i], Kept)
      BY <1>1 DEF In
    <2> QED BY <1>2, <1>3, <2>1
  <1>5. /\ \A e \in Entries : In(e, Taken) <=> In(e, Kept) \/ e = posted + 1
        /\ Ordered(Taken)
    BY <1>1, <1>2, <1>4, AppendFacts DEF Taken
  <1>6. Earlier(delivered, Taken)
    BY <1>2, <1>3, <1>5 DEF OrderOf, Earlier
  <1>7. ASSUME NEW f \in flights PROVE Earlier(f.batch, Taken)
    <2>1. \A e \in Entries : In(e, f.batch) => Flying(e)
      BY DEF Flying
    <2> QED BY <1>2, <1>3, <1>5, <2>1 DEF OrderOf, Earlier
  <1> QED BY <1>5, <1>6, <1>7 DEF OrderOf

LEMMA SentOrder ==
    ASSUME NEW q, ~overlapped => OrderOf(q), Sent(q), UNCHANGED delivered
    PROVE  InOrder'
  <1> SUFFICES ASSUME ~overlapped' PROVE (OrderOf(queue))'
    BY DEF InOrder
  <1>1. CASE queue' = q /\ flights' = flights /\ overlapped' = overlapped
    BY <1>1 DEF OrderOf, Earlier
  <1>2. CASE /\ queue' = <<>> /\ overlapped' = (overlapped \/ flights # {})
             /\ \E c \in Configs : flights' = flights \cup {[batch |-> q, to |-> c]}
    <2>1. ~overlapped /\ flights = {}
      BY <1>2
    <2>2. PICK c \in Configs : flights' = {[batch |-> q, to |-> c]}
      BY <1>2, <2>1
    <2>3. \A f \in flights' : f.batch = q
      BY <2>2
    <2>4. OrderOf(q)
      BY <2>1
    <2>5. \A e \in Entries : ~In(e, queue')
      BY <1>2, EmptyFacts
    <2> QED BY <1>2, <2>2, <2>3, <2>4, <2>5, EmptyFacts DEF OrderOf, Earlier
  <1> QED BY <1>1, <1>2 DEF Sent

LEMMA InitOrder == Init => InOrder
  BY EmptyFacts DEF Init, InOrder, OrderOf, Earlier

LEMMA OrderStep == TypeInv /\ Once /\ InOrder /\ [Next]_vars => InOrder'
  <1> SUFFICES ASSUME TypeInv, Once, InOrder, [Next]_vars PROVE InOrder'
    OBVIOUS
  <1>1. ASSUME NEW c \in Configs, NEW n \in 1..MaxPosted, Post(c, n) PROVE InOrder'
    BY <1>1 DEF Post, InOrder, OrderOf, Earlier
  <1>2. ASSUME ProcessEntry PROVE InOrder'
    <2>1. left > 0 /\ Sent(Taken) /\ UNCHANGED delivered
      BY <1>2, ProcessEffect
    <2>2. ~overlapped => OrderOf(Taken)
      BY <2>1, TakenOrder DEF InOrder
    <2> QED BY <2>1, <2>2, SentOrder
  <1>3. ASSUME TimerFires PROVE InOrder'
    <2>1. timer \in Configs
      BY <1>3 DEF TimerFires, TypeInv, TypeOK
    <2>2. Sent(queue) /\ UNCHANGED delivered
      BY <1>3, <2>1, FlushSends DEF TimerFires
    <2> QED BY <2>2, SentOrder DEF InOrder
  <1>4. ASSUME NEW f \in flights, Accepted(f) \/ Refused(f) \/ NetworkError(f) PROVE InOrder'
    <2> SUFFICES ASSUME ~overlapped' PROVE (OrderOf(queue))'
      BY DEF InOrder
    <2>1. ~overlapped /\ flights' = flights \ {f}
      BY <1>4 DEF Accepted, Refused, NetworkError, Ends
    <2>2. OrderOf(queue) /\ flights' = {}
      BY <2>1 DEF InOrder, OrderOf
    <2>3. /\ f.batch \in Seq(Entries) /\ queue \in Seq(Entries) /\ delivered \in Seq(Entries)
          /\ Ordered(f.batch) /\ Ordered(queue) /\ Ordered(delivered)
      BY <2>2 DEF TypeInv, TypeOK, Flight, OrderOf
    <2>4. Earlier(delivered, queue) /\ Earlier(delivered, f.batch) /\ Earlier(f.batch, queue)
      BY <2>2 DEF OrderOf
    <2>5. CASE Accepted(f)
      <3>1. queue' = queue /\ delivered' = delivered \o f.batch
        BY <2>5 DEF Accepted
      <3>2. /\ \A e \in Entries : In(e, delivered') <=> In(e, delivered) \/ In(e, f.batch)
            /\ Ordered(delivered')
        BY <2>3, <2>4, <3>1, JoinFacts, EarlierIsBefore
      <3>3. Earlier(delivered', queue')
        BY <2>4, <3>1, <3>2 DEF Earlier
      <3> QED BY <2>2, <2>3, <3>1, <3>2, <3>3 DEF OrderOf
    <2>6. CASE Refused(f)
      <3>1. queue' = f.batch \o queue /\ delivered' = delivered
        BY <2>6 DEF Refused
      <3>2. /\ \A e \in Entries : In(e, queue') <=> In(e, f.batch) \/ In(e, queue)
            /\ Ordered(queue')
        BY <2>3, <2>4, <3>1, JoinFacts, EarlierIsBefore
      <3>3. Earlier(delivered', queue')
        BY <2>4, <3>1, <3>2 DEF Earlier
      <3> QED BY <2>2, <2>3, <3>1, <3>2, <3>3 DEF OrderOf
    <2>7. CASE NetworkError(f)
      <3>1. queue' = queue /\ delivered' = delivered
        BY <2>7 DEF NetworkError
      <3> QED BY <2>2, <2>3, <2>4, <3>1 DEF OrderOf
    <2> QED BY <1>4, <2>5, <2>6, <2>7
  <1>5. ASSUME UNCHANGED vars PROVE InOrder'
    BY <1>5 DEF vars, InOrder, OrderOf, Earlier
  <1> QED BY <1>1, <1>2, <1>3, <1>4, <1>5 DEF Next

\* The sink is told of entries in the order they were processed as long as no two
\* flushes overlap, refusals and repeated flushes included.
THEOREM ForwarderOrderKept == Spec => []OrderKept
  <1>1. Init => TypeInv /\ Once /\ InOrder
    BY InitType, InitOnce, InitOrder
  <1>2. (TypeInv /\ Once /\ InOrder) /\ [Next]_vars => (TypeInv /\ Once /\ InOrder)'
    BY TypeStep, OnceStep, OrderStep
  <1>3. TypeInv /\ Once /\ InOrder => OrderKept
    BY InOrderIsEnough
  <1> QED BY <1>1, <1>2, <1>3, PTL DEF Spec
-----------------------------------------------------------------------------
(* Tokens.  The entries of the queue are those of the tokens that give access, one each, and each *)
(* tells when its token was last posted.                                                          *)

Expiries == validTokenExpiries

TokensInv ==
    /\ A!TypeOK /\ granted \in [Tokens -> 0..time]
    /\ \A i, j \in DOMAIN Expiries : i < j => Expiries[i][1] <= Expiries[j][1]
    /\ \A i \in DOMAIN Expiries :
         /\ Expiries[i][1] = granted[Expiries[i][2]] + ExpirySecs
         /\ granted[Expiries[i][2]] > 0
    /\ \A k \in Tokens \ tokenBaseUrls : granted[k] = 0 \/ granted[k] + ExpirySecs < time
    /\ A!AccessForItsTime

LEMMA LeastOf ==
    ASSUME NEW S \in SUBSET Nat, S # {}
    PROVE  \E i \in S : \A j \in S : i <= j
  <1>1. PICK i \in S : \A j \in S : <<j, i>> \notin OpToRel(<, Nat)
    BY NatLessThanWellFounded, WFMin
  <1>2. \A j \in S : ~(j < i)
    BY <1>1 DEF OpToRel
  <1>3. QED
    BY <1>2

\* The rest of a sequence, after n.
LEMMA RestFacts ==
    ASSUME NEW Item, NEW s \in Seq(Item), NEW n \in 0..Len(s)
    PROVE  LET q == SubSeq(s, n + 1, Len(s)) IN
           q \in Seq(Item) /\ DOMAIN q = 1..Len(s) - n /\ \A i \in DOMAIN q : n + i \in n + 1..Len(s) /\ q[i] = s[n + i]
  <1> DEFINE q == SubSeq(s, n + 1, Len(s))
  <1>1. Len(s) \in Nat /\ n \in Nat
    OBVIOUS
  <1>2. q \in Seq(Item) /\ Len(q) = Len(s) - n
    BY <1>1, SubSeqProperties
  <1>3. DOMAIN q = 1..Len(s) - n
    BY <1>2
  <1>4. \A i \in 1..Len(s) - n : n + i \in n + 1..Len(s) /\ q[i] = s[n + i]
    BY <1>1, SubSeqProperties
  <1> QED BY <1>2, <1>3, <1>4

\* A sequence without its element h.
Without(q, h) == SubSeq(q, 1, h - 1) \o SubSeq(q, h + 1, Len(q))

LEMMA RemovedFacts ==
    ASSUME NEW Item, NEW q \in Seq(Item), NEW h \in DOMAIN q
    PROVE  /\ Without(q, h) \in Seq(Item) /\ DOMAIN Without(q, h) = 1..Len(q) - 1
           /\ DOMAIN q = 1..Len(q) /\ Len(q) \in Nat
           /\ \A i \in DOMAIN Without(q, h) : Without(q, h)[i] = IF i < h THEN q[i] ELSE q[i + 1]
  <1> DEFINE s == Without(q, h)
             a == SubSeq(q, 1, h - 1)
             b == SubSeq(q, h + 1, Len(q))
  <1>1. h \in 1..Len(q) /\ Len(q) \in Nat /\ DOMAIN q = 1..Len(q)
    OBVIOUS
  <1>2. a \in Seq(Item) /\ Len(a) = h - 1 /\ \A i \in 1..h - 1 : a[i] = q[i]
    BY <1>1, SubSeqProperties
  <1>3. b \in Seq(Item) /\ DOMAIN b = 1..Len(q) - h /\ \A i \in DOMAIN b : b[i] = q[h + i]
    <2>1. h \in 0..Len(q)
      BY <1>1
    <2>2. /\ b \in Seq(Item) /\ DOMAIN b = 1..Len(q) - h
          /\ \A i \in 1..Len(q) - h : h + i \in h + 1..Len(q) /\ b[i] = q[h + i]
      BY <2>1, RestFacts
    <2> QED BY <2>2
  <1>4. Len(b) = Len(q) - h
    BY <1>1, <1>3
  <1>0. s = a \o b
    BY DEF Without
  <1> HIDE DEF a, b, s
  <1>5. /\ s \in Seq(Item) /\ Len(s) = Len(q) - 1
        /\ \A i \in 1..Len(q) - 1 : s[i] = IF i <= h - 1 THEN a[i] ELSE b[i - (h - 1)]
    <2>1. Len(a) + Len(b) = Len(q) - 1
      BY <1>1, <1>2, <1>4
    <2>2. /\ s \in Seq(Item) /\ Len(s) = Len(a) + Len(b)
          /\ \A i \in 1..Len(a) + Len(b) : s[i] = IF i <= Len(a) THEN a[i] ELSE b[i - Len(a)]
      BY <1>0, <1>2, <1>3, ConcatProperties
    <2> QED BY <1>2, <2>1, <2>2
  <1>6. DOMAIN s = 1..Len(q) - 1
    BY <1>5
  <1>7. ASSUME NEW i \in 1..Len(q) - 1 PROVE s[i] = IF i < h THEN q[i] ELSE q[i + 1]
    <2>1. CASE i < h
      BY <1>1, <1>2, <1>5, <2>1
    <2>2. CASE ~(i < h)
      <3> DEFINE j == i - (h - 1)
      <3>1. i >= h /\ ~(i <= h - 1) /\ j \in 1..Len(q) - h /\ h + j = i + 1
        BY <1>1, <2>2
      <3>2. s[i] = b[j]
        BY <1>5, <3>1
      <3> QED BY <1>3, <2>2, <3>1, <3>2
    <2> QED BY <2>1, <2>2
  <1> QED BY <1>1, <1>5, <1>6, <1>7 DEF s

\* What has expired is at the head.
LEMMA SweptIsHead ==
    ASSUME TokensInv
    PROVE  /\ A!Swept \in 0..Len(Expiries)
           /\ \A i \in 1..A!Swept : Expiries[i][1] < time
           /\ \A i \in A!Swept + 1..Len(Expiries) : Expiries[i][1] >= time
  <1> DEFINE Late(i) == i = Len(Expiries) + 1 \/ Expiries[i][1] >= time
             HeadAt(n) == /\ \A i \in 1..n : Expiries[i][1] < time
                          /\ n < Len(Expiries) => Expiries[n + 1][1] >= time
             S == {i \in 1..Len(Expiries) + 1 : Late(i)}
  <1>1. /\ Expiries \in Seq((1..MaxTime + ExpirySecs) \X Tokens) /\ DOMAIN Expiries = 1..Len(Expiries)
        /\ Len(Expiries) \in Nat /\ time \in Nat /\ \A i \in DOMAIN Expiries : Expiries[i][1] \in Int
    BY TokenConstants DEF TokensInv, A!TypeOK, Expiries
  <1>2. PICK m \in S : \A j \in S : m <= j
    <2>1. S \in SUBSET Nat /\ Len(Expiries) + 1 \in S
      BY <1>1
    <2> QED BY <2>1, LeastOf
  <1>3. m - 1 \in 0..Len(Expiries) /\ HeadAt(m - 1)
    <2>1. \A i \in 1..m - 1 : i \in DOMAIN Expiries /\ i \notin S
      BY <1>1, <1>2
    <2> QED BY <1>1, <1>2, <2>1, SMTT(20)
  <1>4. A!Swept \in 0..Len(Expiries) /\ HeadAt(A!Swept)
    <2>1. \E n \in 0..Len(Expiries) : HeadAt(n)
      BY <1>3
    <2>2. A!Swept = CHOOSE n \in 0..Len(Expiries) : HeadAt(n)
      BY DEF A!Swept, Expiries
    <2> QED BY <2>1, <2>2
  <1>5. ASSUME NEW i \in A!Swept + 1..Len(Expiries) PROVE Expiries[i][1] >= time
    <2>1. A!Swept + 1 \in DOMAIN Expiries /\ i \in DOMAIN Expiries /\ Expiries[A!Swept + 1][1] >= time
      BY <1>1, <1>4
    <2>2. A!Swept + 1 = i \/ A!Swept + 1 < i
      BY <1>4
    <2>3. A!Swept + 1 < i => Expiries[A!Swept + 1][1] <= Expiries[i][1]
      BY <2>1 DEF TokensInv
    <2> QED BY <1>1, <2>1, <2>2, <2>3
  <1> QED BY <1>4, <1>5

\* What is kept is a queue of the same kind, of the tokens that are valid.
LEMMA KeptIsQueue ==
    ASSUME TokensInv
    PROVE  LET q == A!Kept IN
           /\ q \in Seq((1..MaxTime + ExpirySecs) \X Tokens)
           /\ A!Valid = {q[i][2] : i \in DOMAIN q}
           /\ \A i, j \in DOMAIN q : q[i][2] = q[j][2] => i = j
           /\ \A i, j \in DOMAIN q : i < j => q[i][1] <= q[j][1]
           /\ \A i \in DOMAIN q : /\ q[i][1] = granted[q[i][2]] + ExpirySecs /\ granted[q[i][2]] > 0
                                  /\ q[i][1] >= time
           /\ \A k \in Tokens \ A!Valid : granted[k] = 0 \/ granted[k] + ExpirySecs < time
  <1> DEFINE n == A!Swept
             q == A!Kept
  <1>1. n \in 0..Len(Expiries) /\ (\A i \in 1..n : Expiries[i][1] < time)
        /\ \A i \in n + 1..Len(Expiries) : Expiries[i][1] >= time
    BY SweptIsHead
  <1>2. Expiries \in Seq((1..MaxTime + ExpirySecs) \X Tokens) /\ DOMAIN Expiries = 1..Len(Expiries)
        /\ Len(Expiries) \in Nat
    BY DEF TokensInv, A!TypeOK, Expiries
  <1>3. /\ q \in Seq((1..MaxTime + ExpirySecs) \X Tokens) /\ DOMAIN q = 1..Len(Expiries) - n
        /\ \A i \in DOMAIN q : n + i \in n + 1..Len(Expiries) /\ q[i] = Expiries[n + i]
    <2>1. q = SubSeq(Expiries, n + 1, Len(Expiries))
      BY DEF A!Kept, Expiries
    <2> QED BY <1>1, <1>2, <2>1, RestFacts
  <1> HIDE DEF n, q
  <1>4. \A i \in DOMAIN q : n + i \in DOMAIN Expiries
    BY <1>1, <1>2, <1>3
  <1>5. A!Valid = {q[i][2] : i \in DOMAIN q}
    <2>1. A!Valid = {Expiries[i][2] : i \in DOMAIN Expiries} \ {Expiries[i][2] : i \in 1..n}
      BY DEF A!Valid, TokensInv, A!TypeOK, Expiries, n
    <2>2. \A i, j \in DOMAIN Expiries : Expiries[i][2] = Expiries[j][2] => i = j
      BY DEF TokensInv, A!TypeOK, Expiries
    <2>3. \A i \in DOMAIN Expiries : i \in 1..n \/ (i - n \in DOMAIN q /\ q[i - n] = Expiries[i])
      BY <1>1, <1>2, <1>3
    <2>4. (\A i \in DOMAIN q : n + i \notin 1..n) /\ (\A i \in 1..n : i \in DOMAIN Expiries)
      BY <1>1, <1>2, <1>3
    <2>5. ASSUME NEW k \in A!Valid PROVE \E i \in DOMAIN q : q[i][2] = k
      BY <2>1, <2>3
    <2>6. ASSUME NEW i \in DOMAIN q PROVE q[i][2] \in A!Valid
      <3>1. n + i \in DOMAIN Expiries /\ q[i] = Expiries[n + i] /\ n + i \notin 1..n
        BY <1>3, <1>4, <2>4
      <3>2. \A j \in 1..n : Expiries[j][2] # Expiries[n + i][2]
        BY <2>2, <2>4, <3>1
      <3> QED BY <2>1, <3>1, <3>2
    <2> QED BY <2>5, <2>6
  <1>6. \A i, j \in DOMAIN q : q[i][2] = q[j][2] => i = j
    <2> SUFFICES ASSUME NEW i \in DOMAIN q, NEW j \in DOMAIN q, q[i][2] = q[j][2] PROVE i = j
      OBVIOUS
    <2>1. n + i = n + j
      BY <1>3, <1>4 DEF TokensInv, A!TypeOK, Expiries
    <2> QED BY <1>1, <1>3, <2>1
  <1>7. \A i, j \in DOMAIN q : i < j => q[i][1] <= q[j][1]
    <2> SUFFICES ASSUME NEW i \in DOMAIN q, NEW j \in DOMAIN q, i < j PROVE q[i][1] <= q[j][1]
      OBVIOUS
    <2>1. n + i < n + j
      BY <1>1, <1>3
    <2> QED BY <1>3, <1>4, <2>1 DEF TokensInv
  <1>8. \A i \in DOMAIN q : /\ q[i][1] = granted[q[i][2]] + ExpirySecs /\ granted[q[i][2]] > 0
                            /\ q[i][1] >= time
    BY <1>1, <1>3, <1>4 DEF TokensInv
  <1>9. ASSUME NEW k \in Tokens \ A!Valid PROVE granted[k] = 0 \/ granted[k] + ExpirySecs < time
    <2>1. CASE k \notin tokenBaseUrls
      BY <2>1 DEF TokensInv
    <2>2. CASE \E i \in 1..n : k = Expiries[i][2]
      <3>1. \A i \in 1..n : i \in DOMAIN Expiries
        BY <1>1, <1>2
      <3> QED BY <1>1, <2>2, <3>1 DEF TokensInv
    <2> QED BY <2>1, <2>2 DEF A!Valid, Expiries, n
  <1> QED BY <1>3, <1>5, <1>6, <1>7, <1>8, <1>9 DEF q

LEMMA InitTokens == A!Init => TokensInv
  <1> SUFFICES ASSUME A!Init PROVE TokensInv
    OBVIOUS
  <1>1. Expiries = <<>> /\ DOMAIN Expiries = {} /\ tokenBaseUrls = {} /\ time = 1 /\ posts = 0
    BY DEF A!Init, Expiries
  <1>2. A!AccessForItsTime
    BY TokenConstants DEF A!Init, A!AccessForItsTime
  <1>3. granted = [k \in Tokens |-> 0]
    BY DEF A!Init
  <1> QED BY <1>1, <1>2, <1>3, TokenConstants DEF TokensInv, A!TypeOK, Expiries

LEMMA TokensAreAccessed ==
    ASSUME TokensInv, NEW k \in Tokens, A!Access(k)
    PROVE  TokensInv'
  <1> DEFINE q == A!Kept
  <1>1. /\ Expiries' = q /\ tokenBaseUrls' = A!Valid /\ answer' = <<k, k \in A!Valid>>
        /\ UNCHANGED <<time, posts, granted>>
    BY DEF A!Access, Expiries
  <1>2. A!Valid = {q[i][2] : i \in DOMAIN q}
    BY KeptIsQueue
  <1>3. /\ q \in Seq((1..MaxTime + ExpirySecs) \X Tokens)
        /\ \A i, j \in DOMAIN q : q[i][2] = q[j][2] => i = j
        /\ \A i, j \in DOMAIN q : i < j => q[i][1] <= q[j][1]
        /\ \A i \in DOMAIN q : /\ q[i][1] = granted[q[i][2]] + ExpirySecs /\ granted[q[i][2]] > 0
                               /\ q[i][1] >= time
        /\ \A j \in Tokens \ A!Valid : granted[j] = 0 \/ granted[j] + ExpirySecs < time
    BY KeptIsQueue
  <1> HIDE DEF q
  <1>4. A!TypeOK'
    BY <1>1, <1>2, <1>3 DEF A!TypeOK, TokensInv, Expiries
  <1>5. granted \in [Tokens -> Nat] /\ time \in Nat
    BY DEF TokensInv, A!TypeOK
  <1>6. A!AccessForItsTime'
    <2> SUFFICES answer'[2] <=> granted[k] # 0 /\ time <= granted[k] + ExpirySecs
      BY <1>1 DEF A!AccessForItsTime
    <2>1. answer'[2] <=> k \in A!Valid
      BY <1>1
    <2>2. ASSUME k \in A!Valid PROVE granted[k] # 0 /\ time <= granted[k] + ExpirySecs
      <3>1. PICK i \in DOMAIN q : q[i][2] = k
        BY <1>2, <2>2
      <3> QED BY <1>3, <1>5, <3>1, TokenConstants
    <2>3. ASSUME k \notin A!Valid PROVE ~(granted[k] # 0 /\ time <= granted[k] + ExpirySecs)
      BY <1>3, <1>5, <2>3, TokenConstants
    <2> QED BY <2>1, <2>2, <2>3
  <1> QED BY <1>1, <1>3, <1>4, <1>6 DEF TokensInv

LEMMA TokensArePosted ==
    ASSUME TokensInv, NEW k \in Tokens, A!Post(k)
    PROVE  TokensInv'
  <1> DEFINE q == A!Kept
             e == <<time + ExpirySecs, k>>
             s == Append(q, e)
  <1>1. /\ Expiries' = s /\ tokenBaseUrls' = A!Valid \cup {k} /\ answer' = <<"none", FALSE>>
        /\ granted' = [granted EXCEPT ![k] = time] /\ UNCHANGED time
        /\ posts < MaxPosts /\ posts' = posts + 1 /\ k \notin A!Valid
    BY DEF A!Post, Expiries
  <1>2. A!Valid = {q[i][2] : i \in DOMAIN q}
    BY KeptIsQueue
  <1>3. /\ q \in Seq((1..MaxTime + ExpirySecs) \X Tokens)
        /\ \A i, j \in DOMAIN q : q[i][2] = q[j][2] => i = j
        /\ \A i, j \in DOMAIN q : i < j => q[i][1] <= q[j][1]
        /\ \A i \in DOMAIN q : /\ q[i][1] = granted[q[i][2]] + ExpirySecs /\ granted[q[i][2]] > 0
                               /\ q[i][1] >= time
        /\ \A j \in Tokens \ A!Valid : granted[j] = 0 \/ granted[j] + ExpirySecs < time
    BY KeptIsQueue
  <1> HIDE DEF q
  <1>4. granted \in [Tokens -> 0..time] /\ time \in 1..MaxTime /\ posts \in 0..MaxPosts
    BY DEF TokensInv, A!TypeOK
  <1>5. e \in (1..MaxTime + ExpirySecs) \X Tokens /\ e[1] = time + ExpirySecs /\ e[2] = k
    BY <1>4, TokenConstants
  <1> HIDE DEF e
  <1>6. /\ s \in Seq((1..MaxTime + ExpirySecs) \X Tokens) /\ DOMAIN s = 1..Len(q) + 1 /\ DOMAIN q = 1..Len(q)
        /\ Len(q) \in Nat /\ s[Len(q) + 1] = e /\ \A i \in 1..Len(q) : s[i] = q[i]
    BY <1>3, <1>5
  <1>7. \A i \in DOMAIN q : q[i] \in (1..MaxTime + ExpirySecs) \X Tokens /\ q[i][2] # k
    BY <1>1, <1>2, <1>3
  <1> HIDE DEF s
  <1>8. \A i \in DOMAIN s : (i \in DOMAIN q /\ s[i] = q[i] /\ q[i][2] # k) \/ (i = Len(q) + 1 /\ s[i] = e)
    BY <1>6, <1>7
  <1>9. \A i, j \in DOMAIN s : s[i][2] = s[j][2] => i = j
    BY <1>3, <1>5, <1>8
  <1>10. \A i \in DOMAIN s : s[i][1] = granted'[s[i][2]] + ExpirySecs /\ granted'[s[i][2]] > 0
    BY <1>1, <1>3, <1>4, <1>5, <1>7, <1>8
  <1>11. ASSUME NEW i \in DOMAIN s, NEW j \in DOMAIN s, i < j PROVE s[i][1] <= s[j][1]
    <2>1. i \in DOMAIN q /\ s[i] = q[i] /\ granted[q[i][2]] \in 0..time
      <3>1. i \in 1..Len(q)
        BY <1>6, <1>11
      <3>2. i \in DOMAIN q /\ s[i] = q[i]
        BY <1>6, <3>1
      <3>3. q[i][2] \in Tokens
        BY <1>7, <3>2
      <3> QED BY <1>4, <3>2, <3>3
    <2>2. CASE j \in DOMAIN q /\ s[j] = q[j]
      BY <1>3, <1>11, <2>1, <2>2
    <2>3. CASE s[j] = e
      <3>1. s[i][1] = granted[q[i][2]] + ExpirySecs /\ s[j][1] = time + ExpirySecs
        BY <1>3, <1>5, <2>1, <2>3
      <3> QED BY <1>4, <2>1, <3>1, TokenConstants
    <2> QED BY <1>8, <2>2, <2>3
  <1>12. A!Valid \cup {k} = {s[i][2] : i \in DOMAIN s}
    <2>1. \A i \in DOMAIN q : i \in DOMAIN s /\ s[i] = q[i]
      BY <1>6
    <2>2. Len(q) + 1 \in DOMAIN s /\ s[Len(q) + 1][2] = k
      BY <1>5, <1>6
    <2>3. \A i \in DOMAIN s : s[i][2] \in A!Valid \cup {k}
      BY <1>2, <1>5, <1>8
    <2>4. \A j \in A!Valid \cup {k} : \E i \in DOMAIN s : s[i][2] = j
      BY <1>2, <2>1, <2>2
    <2> QED BY <2>3, <2>4
  <1>13. A!TypeOK'
    <2>1. posts' \in 0..MaxPosts /\ time' \in 1..MaxTime
      BY <1>1, <1>4, TokenConstants
    <2>2. validTokenExpiries' = s /\ tokenBaseUrls' = A!Valid \cup {k}
      BY <1>1 DEF Expiries
    <2>3. tokenBaseUrls' = {validTokenExpiries'[i][2] : i \in DOMAIN validTokenExpiries'}
      BY <1>12, <2>2
    <2>4. \A i, j \in DOMAIN validTokenExpiries' : validTokenExpiries'[i][2] = validTokenExpiries'[j][2] => i = j
      BY <1>9, <2>2
    <2>5. validTokenExpiries' \in Seq((1..MaxTime + ExpirySecs) \X Tokens)
      BY <1>6, <2>2
    <2> QED BY <2>1, <2>3, <2>4, <2>5 DEF A!TypeOK
  <1>14. granted' \in [Tokens -> 0..time'] /\ \A j \in Tokens \ tokenBaseUrls' : granted'[j] = granted[j]
    BY <1>1, <1>4
  <1>15. \A j \in Tokens \ tokenBaseUrls' : granted'[j] = 0 \/ granted'[j] + ExpirySecs < time'
    BY <1>1, <1>3, <1>14
  <1>16. A!AccessForItsTime'
    BY <1>1, TokenConstants DEF A!AccessForItsTime
  <1> QED BY <1>1, <1>9, <1>10, <1>11, <1>13, <1>14, <1>15, <1>16 DEF TokensInv

LEMMA TokensAreDeleted ==
    ASSUME TokensInv, NEW k \in Tokens, A!Delete(k)
    PROVE  TokensInv'
  <1> DEFINE q == A!Kept
             s == Expiries'
  <1>1. PICK h \in DOMAIN q : q[h][2] = k /\ s = A!RemoveAt(q, h)
    BY DEF A!Delete, Expiries
  <1>2. /\ tokenBaseUrls' = A!Valid \ {k} /\ answer' = <<"none", FALSE>>
        /\ granted' = [granted EXCEPT ![k] = 0] /\ UNCHANGED <<time, posts>>
    BY DEF A!Delete
  <1>3. A!Valid = {q[i][2] : i \in DOMAIN q}
    BY KeptIsQueue
  <1>4. /\ q \in Seq((1..MaxTime + ExpirySecs) \X Tokens)
        /\ \A i, j \in DOMAIN q : q[i][2] = q[j][2] => i = j
        /\ \A i, j \in DOMAIN q : i < j => q[i][1] <= q[j][1]
        /\ \A i \in DOMAIN q : /\ q[i][1] = granted[q[i][2]] + ExpirySecs /\ granted[q[i][2]] > 0
                               /\ q[i][1] >= time
        /\ \A j \in Tokens \ A!Valid : granted[j] = 0 \/ granted[j] + ExpirySecs < time
    BY KeptIsQueue
  <1> HIDE DEF q
  <1>5. granted \in [Tokens -> 0..time] /\ time \in 1..MaxTime
    BY DEF TokensInv, A!TypeOK
  <1>6. /\ s \in Seq((1..MaxTime + ExpirySecs) \X Tokens) /\ DOMAIN s = 1..Len(q) - 1 /\ DOMAIN q = 1..Len(q)
        /\ Len(q) \in Nat
        /\ \A i \in DOMAIN s : s[i] = IF i < h THEN q[i] ELSE q[i + 1]
    <2>1. s = Without(q, h)
      BY <1>1 DEF A!RemoveAt, Without
    <2>2. q \in Seq((1..MaxTime + ExpirySecs) \X Tokens)
      BY <1>4
    <2>3. /\ Without(q, h) \in Seq((1..MaxTime + ExpirySecs) \X Tokens)
          /\ DOMAIN Without(q, h) = 1..Len(q) - 1 /\ DOMAIN q = 1..Len(q) /\ Len(q) \in Nat
          /\ \A i \in DOMAIN Without(q, h) : Without(q, h)[i] = IF i < h THEN q[i] ELSE q[i + 1]
      BY <2>2, RemovedFacts
    <2> QED BY <2>1, <2>3
  <1> DEFINE at(i) == IF i < h THEN i ELSE i + 1
  <1>7. \A i \in DOMAIN s : at(i) \in DOMAIN q /\ at(i) # h /\ s[i] = q[at(i)]
    BY <1>1, <1>6
  <1>8. \A i, j \in DOMAIN s : (at(i) = at(j) => i = j) /\ (i < j => at(i) < at(j))
    BY <1>1, <1>6
  <1>9. \A j \in DOMAIN q \ {h} : \E i \in DOMAIN s : at(i) = j
    <2> SUFFICES ASSUME NEW j \in DOMAIN q \ {h} PROVE \E i \in DOMAIN s : at(i) = j
      OBVIOUS
    <2>1. CASE j < h
      BY <1>1, <1>6, <2>1
    <2>2. CASE j > h
      <3>1. j - 1 \in DOMAIN s /\ ~(j - 1 < h) /\ (j - 1) + 1 = j
        BY <1>1, <1>6, <2>2
      <3> QED BY <3>1
    <2> QED BY <1>1, <1>6, <2>1, <2>2
  <1> HIDE DEF at, s
  <1>10. \A i \in DOMAIN q : q[i] \in (1..MaxTime + ExpirySecs) \X Tokens /\ (i # h => q[i][2] # k)
    BY <1>1, <1>4
  <1>11. \A i, j \in DOMAIN s : s[i][2] = s[j][2] => i = j
    BY <1>4, <1>7, <1>8
  <1>12. \A i, j \in DOMAIN s : i < j => s[i][1] <= s[j][1]
    BY <1>4, <1>7, <1>8
  <1>13. \A i \in DOMAIN s : s[i][1] = granted'[s[i][2]] + ExpirySecs /\ granted'[s[i][2]] > 0
    BY <1>2, <1>4, <1>5, <1>7, <1>10
  <1>14. A!Valid \ {k} = {s[i][2] : i \in DOMAIN s}
    <2>1. \A i \in DOMAIN s : s[i][2] \in A!Valid \ {k}
      BY <1>3, <1>7, <1>10
    <2>2. ASSUME NEW j \in A!Valid \ {k} PROVE \E i \in DOMAIN s : s[i][2] = j
      <3>1. PICK m \in DOMAIN q \ {h} : q[m][2] = j
        BY <1>1, <1>3
      <3>2. PICK i \in DOMAIN s : at(i) = m
        BY <1>9
      <3> QED BY <1>7, <3>1, <3>2
    <2> QED BY <2>1, <2>2
  <1>15. A!TypeOK'
    BY <1>2, <1>6, <1>11, <1>14 DEF A!TypeOK, Expiries, s, TokensInv
  <1>16. granted' \in [Tokens -> 0..time'] /\ \A j \in Tokens : granted'[j] = IF j = k THEN 0 ELSE granted[j]
    BY <1>2, <1>5
  <1>17. \A j \in Tokens \ tokenBaseUrls' : granted'[j] = 0 \/ granted'[j] + ExpirySecs < time'
    BY <1>2, <1>4, <1>16
  <1>18. A!AccessForItsTime'
    BY <1>2, TokenConstants DEF A!AccessForItsTime
  <1> QED BY <1>11, <1>12, <1>13, <1>15, <1>16, <1>17, <1>18 DEF TokensInv, s

LEMMA TokensStep == TokensInv /\ [A!Next]_tokenVars => TokensInv'
  <1> SUFFICES ASSUME TokensInv, [A!Next]_tokenVars PROVE TokensInv'
    OBVIOUS
  <1>1. ASSUME A!Tick PROVE TokensInv'
    <2>1. time' = time + 1 /\ answer' = <<"none", FALSE>> /\ time < MaxTime
          /\ UNCHANGED <<validTokenExpiries, tokenBaseUrls, posts, granted>>
      BY <1>1 DEF A!Tick
    <2>2. A!TypeOK'
      BY <2>1, TokenConstants DEF TokensInv, A!TypeOK
    <2>3. time \in Nat /\ granted \in [Tokens -> 0..time] /\ granted' \in [Tokens -> 0..time']
      BY <2>1 DEF TokensInv, A!TypeOK
    <2>4. \A k \in Tokens \ tokenBaseUrls : granted[k] = 0 \/ granted[k] + ExpirySecs < time'
      BY <2>1, <2>3, TokenConstants DEF TokensInv
    <2>5. A!AccessForItsTime'
      BY <2>1, TokenConstants DEF A!AccessForItsTime
    <2> QED BY <2>1, <2>2, <2>3, <2>4, <2>5 DEF TokensInv, Expiries
  <1>2. ASSUME UNCHANGED tokenVars PROVE TokensInv'
    BY <1>2 DEF tokenVars, TokensInv, A!TypeOK, A!AccessForItsTime, Expiries
  <1>3. ASSUME NEW k \in Tokens, A!Access(k) \/ A!Post(k) \/ A!Delete(k) PROVE TokensInv'
    BY <1>3, TokensAreAccessed, TokensArePosted, TokensAreDeleted
  <1> QED BY <1>1, <1>2, <1>3 DEF A!Next

-----------------------------------------------------------------------------
(* Sessions.  An event that is being piped, and whose push has overlapped no other, is alone on *)
(* its stream, and its head is the last that was written there.                                 *)

ConnInv ==
    /\ session \in 0..streams /\ streams \in 0..Connections
    /\ conn \in [1..Connections -> [stream : 0..Connections,
                                    state : {"no", "answering", "refused", "open", "gone"}]]
    /\ \A c \in 1..Connections : /\ conn[c].stream \in 0..streams
                                 /\ conn[c].state = "no" <=> conn[c].stream = 0
                                 /\ conn[c].state = "no" => streams < c
    /\ \A c, d \in 1..Connections : d < c /\ conn[c].state # "no" => conn[d].state # "no"

Written == [E!Streams -> Seq({"head", "end"} \X E!Events)]
Pushed == [E!Events -> [stream : 0..Connections, state : {"no", "head", "done", "failed"}]]

\* An event e that was written to a stream s is one that was pushed there; if it is being
\* piped, and alone, its head comes last.
WrittenBy(s, e) == push[e].stream = s /\ push[e].state # "no"
HeadLast(e) ==
    LET s == push[e].stream IN
    /\ s \in E!Streams /\ out[s] # <<>> /\ out[s][Len(out[s])] = <<"head", e>>
    /\ \A i \in DOMAIN out[s] : out[s][i][2] = e => i = Len(out[s])
    /\ \A f \in E!Events : push[f].stream = s /\ push[f].state = "head" => f = e

PushInv ==
    /\ push \in Pushed /\ out \in Written
    /\ \A e \in E!Events : push[e].stream \in 0..streams /\ (push[e].state = "no" <=> push[e].stream = 0)
    /\ \A s \in E!Streams : \A i \in DOMAIN out[s] : WrittenBy(s, out[s][i][2])
    /\ \A e \in E!Events : push[e].state = "head" /\ e \notin crossed => HeadLast(e)
    /\ E!WholeEvents

SessionsInv == ConnInv /\ PushInv

LEMMA SessionsType == SessionsInv => E!TypeOK
  BY DEF SessionsInv, ConnInv, PushInv, Pushed, E!TypeOK

LEMMA InitSessions == E!Init => SessionsInv
  <1> SUFFICES ASSUME E!Init PROVE SessionsInv
    OBVIOUS
  <1>1. ConnInv
    BY SessionConstants DEF E!Init, E!Nowhere, ConnInv
  <1>2. \A s \in E!Streams : out[s] = <<>> /\ DOMAIN out[s] = {}
    BY DEF E!Init
  <1>3. push \in Pushed /\ (\A e \in E!Events : push[e].stream = 0 /\ push[e].state = "no") /\ out \in Written /\ streams = 0
    BY SessionConstants DEF E!Init, E!Nowhere, Pushed, Written
  <1>4. E!WholeEvents
    BY <1>2 DEF E!WholeEvents
  <1> QED BY <1>1, <1>2, <1>3, <1>4 DEF SessionsInv, PushInv

\* What connections do leaves pushes alone.
LEMMA PushesAreLeft ==
    ASSUME PushInv, streams \in Nat, streams' \in Nat, streams <= streams', UNCHANGED <<push, out, crossed>>
    PROVE  PushInv'
  <1>1. \A e \in E!Events : push[e].stream \in 0..streams'
    BY DEF PushInv
  <1>2. (\A e \in E!Events : HeadLast(e) => HeadLast(e)') /\ E!WholeEvents'
    BY DEF HeadLast, PushInv, E!WholeEvents
  <1> QED BY <1>1, <1>2 DEF PushInv, WrittenBy

LEMMA ConnectionMoves ==
    ASSUME SessionsInv, NEW c \in 1..Connections, NEW state \in {"open", "gone"}, conn[c].state # "no",
           conn' = [conn EXCEPT ![c].state = state], session' \in {0, session},
           UNCHANGED <<streams, push, out, crossed>>
    PROVE  SessionsInv'
  <1>1. ConnInv /\ PushInv /\ streams \in Nat
    BY DEF SessionsInv, ConnInv
  <1>2. \A d \in 1..Connections : conn'[d].stream = conn[d].stream /\ (conn'[d].state = "no" <=> conn[d].state = "no")
    BY <1>1 DEF ConnInv
  <1>3. conn' \in [1..Connections -> [stream : 0..Connections,
                                      state : {"no", "answering", "refused", "open", "gone"}]]
    BY <1>1 DEF ConnInv
  <1>4. ConnInv'
    BY <1>1, <1>2, <1>3 DEF ConnInv
  <1>5. PushInv'
    BY <1>1, PushesAreLeft
  <1> QED BY <1>4, <1>5 DEF SessionsInv

LEMMA Connects ==
    ASSUME SessionsInv, NEW c \in 1..Connections, NEW again \in BOOLEAN, E!Connect(c, again)
    PROVE  SessionsInv'
  <1>1. ConnInv /\ PushInv /\ streams \in Nat
    BY DEF SessionsInv, ConnInv
  <1>2. conn[c].state = "no" /\ (c > 1 => conn[c - 1].state # "no") /\ UNCHANGED <<push, out, crossed>>
    <2>1. c > 1 => c - 1 \in 1..Connections
      BY SessionConstants
    <2> QED BY <1>1, <2>1 DEF E!Connect, E!Nowhere, ConnInv
  <1>3. streams < c /\ \A d \in 1..Connections : conn[d].state = "no" => d >= c
    <2>1. \A d \in 1..Connections : d < c => c > 1 /\ c - 1 \in 1..Connections /\ (d < c - 1 \/ d = c - 1)
      BY SessionConstants
    <2> QED BY <1>1, <1>2, <2>1 DEF ConnInv
  <1>4. CASE E!CreateSession(c)
    <2>1. /\ streams' = streams + 1 /\ session' = streams + 1
          /\ conn' = [conn EXCEPT ![c] = [stream |-> streams + 1, state |-> "answering"]]
      BY <1>4 DEF E!CreateSession
    <2>2. streams + 1 \in 0..Connections
      BY <1>1, <1>3, SessionConstants
    <2>3. conn' \in [1..Connections -> [stream : 0..Connections,
                                        state : {"no", "answering", "refused", "open", "gone"}]]
      BY <1>1, <2>1, <2>2 DEF ConnInv
    <2>4. \A d \in 1..Connections : /\ d # c => conn'[d] = conn[d]
                                    /\ d = c => conn'[d].stream = streams + 1 /\ conn'[d].state = "answering"
      BY <1>1, <2>1 DEF ConnInv
    <2>5. ASSUME NEW d \in 1..Connections
          PROVE  /\ conn'[d].stream \in 0..streams' /\ (conn'[d].state = "no" <=> conn'[d].stream = 0)
                 /\ conn'[d].state = "no" => streams' < d
      <3>1. CASE d = c
        BY <1>1, <2>1, <2>4, <3>1
      <3>2. CASE d # c
        <4>1. conn[d].stream \in 0..streams /\ (conn[d].state = "no" <=> conn[d].stream = 0)
          BY <1>1 DEF ConnInv
        <4> QED BY <1>1, <1>3, <2>1, <2>4, <3>2, <4>1
      <3> QED BY <3>1, <3>2
    <2>6. \A d, e \in 1..Connections : e < d /\ conn'[d].state # "no" => conn'[e].state # "no"
      <3> SUFFICES ASSUME NEW d \in 1..Connections, NEW e \in 1..Connections, e < d, conn'[d].state # "no",
                          conn'[e].state = "no"
                   PROVE  FALSE
        OBVIOUS
      <3>1. e # c /\ conn[e].state = "no"
        BY <2>4
      <3>2. e > c /\ d # c /\ conn[d].state # "no"
        BY <1>3, <2>4, <3>1
      <3> QED BY <1>1, <3>1, <3>2 DEF ConnInv
    <2>7. ConnInv'
      BY <1>1, <2>1, <2>2, <2>3, <2>5, <2>6 DEF ConnInv
    <2>8. PushInv'
      BY <1>1, <1>2, <2>1, PushesAreLeft
    <2> QED BY <2>7, <2>8 DEF SessionsInv
  <1>5. CASE /\ session # 0 /\ conn' = [conn EXCEPT ![c] = [stream |-> session, state |-> "refused"]]
             /\ UNCHANGED <<session, streams>>
    <2>1. session \in 1..streams /\ session \in 0..Connections
      BY <1>1, <1>5, SessionConstants DEF ConnInv
    <2>2. conn' \in [1..Connections -> [stream : 0..Connections,
                                        state : {"no", "answering", "refused", "open", "gone"}]]
      BY <1>1, <1>5, <2>1 DEF ConnInv
    <2>3. \A d \in 1..Connections : /\ d # c => conn'[d] = conn[d]
                                    /\ d = c => conn'[d].stream = session /\ conn'[d].state = "refused"
      BY <1>1, <1>5 DEF ConnInv
    <2>4. \A d, e \in 1..Connections : e < d /\ conn'[d].state # "no" => conn'[e].state # "no"
      <3> SUFFICES ASSUME NEW d \in 1..Connections, NEW e \in 1..Connections, e < d, conn'[d].state # "no",
                          conn'[e].state = "no"
                   PROVE  FALSE
        OBVIOUS
      <3>1. e # c /\ conn[e].state = "no"
        BY <2>3
      <3>2. e > c /\ d # c /\ conn[d].state # "no"
        BY <1>3, <2>3, <3>1
      <3> QED BY <1>1, <3>1, <3>2 DEF ConnInv
    <2>5. \A d \in 1..Connections : /\ conn'[d].stream \in 0..streams
                                    /\ (conn'[d].state = "no" <=> conn'[d].stream = 0)
                                    /\ conn'[d].state = "no" => streams < d
      BY <1>1, <2>1, <2>3 DEF ConnInv
    <2>6. ConnInv'
      BY <1>1, <1>5, <2>2, <2>4, <2>5 DEF ConnInv
    <2>7. PushInv'
      BY <1>1, <1>2, <1>5, PushesAreLeft
    <2> QED BY <2>6, <2>7 DEF SessionsInv
  <1> QED BY <1>4, <1>5 DEF E!Connect

\* What a step may do to what is written: w is appended to stream s, if b says so.
LEMMA WritingFacts ==
    ASSUME out \in Written, NEW s \in E!Streams, NEW w \in {"head", "end"} \X E!Events, NEW b \in BOOLEAN,
           out' = IF b THEN [out EXCEPT ![s] = Append(out[s], w)] ELSE out
    PROVE  /\ out' \in Written
           /\ \A u \in E!Streams :
                /\ Len(out[u]) \in Nat /\ DOMAIN out[u] = 1..Len(out[u])
                /\ Len(out'[u]) \in Nat /\ DOMAIN out'[u] = 1..Len(out'[u])
                /\ Len(out[u]) <= Len(out'[u]) /\ \A i \in 1..Len(out[u]) : out'[u][i] = out[u][i]
                /\ u # s \/ ~b => out'[u] = out[u]
           /\ b => Len(out'[s]) = Len(out[s]) + 1 /\ out'[s][Len(out[s]) + 1] = w
  <1> DEFINE Item == {"head", "end"} \X E!Events
  <1>1. \A u \in E!Streams : out[u] \in Seq(Item) /\ Len(out[u]) \in Nat /\ DOMAIN out[u] = 1..Len(out[u])
    BY DEF Written
  <1> HIDE DEF Item
  <1>2. w \in Item
    BY DEF Item
  <1> DEFINE r == Append(out[s], w)
  <1>3. /\ r \in Seq(Item) /\ Len(r) = Len(out[s]) + 1 /\ DOMAIN r = 1..Len(r) /\ r[Len(out[s]) + 1] = w
        /\ \A i \in 1..Len(out[s]) : r[i] = out[s][i]
    BY <1>1, <1>2
  <1> HIDE DEF r
  <1>4. \A u \in E!Streams : out'[u] = IF u = s /\ b THEN r ELSE out[u]
    BY DEF r, Written
  <1>5. out' \in Written
    BY <1>1, <1>3 DEF Written, Item, r
  <1> QED BY <1>1, <1>3, <1>4, <1>5

\* An entry with its other half beside it keeps it in a longer sequence.
HalfOf(r, i, f) ==
    IF r[i][1] = "head" THEN i < Len(r) /\ r[i + 1] = <<"end", f>> ELSE i > 1 /\ r[i - 1] = <<"head", f>>

LEMMA HalvesStay ==
    ASSUME NEW r, NEW q, NEW i, NEW f, Len(r) \in Nat, Len(q) \in Nat, i \in 1..Len(r), Len(r) <= Len(q),
           \A j \in 1..Len(r) : q[j] = r[j], HalfOf(r, i, f)
    PROVE  HalfOf(q, i, f)
  <1>1. q[i] = r[i]
    OBVIOUS
  <1>2. CASE r[i][1] = "head"
    <2>1. i < Len(r) /\ r[i + 1] = <<"end", f>> /\ i + 1 \in 1..Len(r)
      BY <1>2 DEF HalfOf
    <2>2. q[i + 1] = r[i + 1] /\ i < Len(q)
      BY <2>1
    <2> QED BY <1>1, <1>2, <2>1, <2>2 DEF HalfOf
  <1>3. CASE r[i][1] # "head"
    <2>1. i > 1 /\ r[i - 1] = <<"head", f>> /\ i - 1 \in 1..Len(r)
      BY <1>3 DEF HalfOf
    <2>2. q[i - 1] = r[i - 1]
      BY <2>1
    <2> QED BY <1>1, <1>3, <2>1, <2>2 DEF HalfOf
  <1> QED BY <1>2, <1>3

LEMMA EventIsSent ==
    ASSUME PushInv, streams \in 0..Connections, NEW e \in E!Events, NEW s \in 1..streams, E!SendEvent(e, s)
    PROVE  PushInv'
  <1> DEFINE w == <<"head", e>>
             state == IF E!Piping(s) # {} \/ E!Ended(s) THEN "failed" ELSE "head"
  <1>1. /\ push[e].state = "no" /\ push[e].stream = 0 /\ UNCHANGED streams
        /\ push' = [push EXCEPT ![e] = [stream |-> s, state |-> state]]
        /\ crossed' = IF E!Piping(s) = {} THEN crossed ELSE crossed \cup E!Piping(s) \cup {e}
        /\ out' = IF E!Ended(s) THEN out ELSE [out EXCEPT ![s] = Append(out[s], w)]
    BY DEF E!SendEvent, E!Nowhere
  <1>2. s \in E!Streams /\ s \in 0..Connections /\ s \in Nat /\ s > 0 /\ state \in {"failed", "head"}
    BY SessionConstants DEF E!Streams
  <1> HIDE DEF state
  <1>3. push' \in Pushed
    BY <1>1, <1>2 DEF PushInv, Pushed
  <1>4. \A f \in E!Events : /\ f # e => push'[f] = push[f]
                            /\ f = e => push'[f].stream = s /\ push'[f].state = state
    BY <1>1 DEF PushInv, Pushed
  <1>5. w \in {"head", "end"} \X E!Events /\ w[1] = "head" /\ w[2] = e
    OBVIOUS
  <1> HIDE DEF w
  <1>6. \A u \in E!Streams : out[u] \in Seq({"head", "end"} \X E!Events)
    BY DEF PushInv, Written
  <1>7. \A u \in E!Streams : \A i \in DOMAIN out[u] : out[u][i][2] # e /\ out[u][i][2] \in E!Events
    BY <1>1, <1>6 DEF PushInv, WrittenBy
  <1>8. /\ out' \in Written
        /\ \A u \in E!Streams :
             /\ Len(out[u]) \in Nat /\ DOMAIN out[u] = 1..Len(out[u])
             /\ Len(out'[u]) \in Nat /\ DOMAIN out'[u] = 1..Len(out'[u])
             /\ Len(out[u]) <= Len(out'[u]) /\ \A i \in 1..Len(out[u]) : out'[u][i] = out[u][i]
             /\ u # s \/ E!Ended(s) => out'[u] = out[u]
        /\ ~E!Ended(s) => Len(out'[s]) = Len(out[s]) + 1 /\ out'[s][Len(out[s]) + 1] = w
    <2> DEFINE b == ~E!Ended(s)
    <2>1. b \in BOOLEAN /\ out' = IF b THEN [out EXCEPT ![s] = Append(out[s], w)] ELSE out
      BY <1>1 DEF E!Ended
    <2>2. out \in Written
      BY DEF PushInv
    <2> HIDE DEF b
    <2>3. /\ out' \in Written
          /\ \A u \in E!Streams :
               /\ Len(out[u]) \in Nat /\ DOMAIN out[u] = 1..Len(out[u])
               /\ Len(out'[u]) \in Nat /\ DOMAIN out'[u] = 1..Len(out'[u])
               /\ Len(out[u]) <= Len(out'[u]) /\ \A i \in 1..Len(out[u]) : out'[u][i] = out[u][i]
               /\ u # s \/ ~b => out'[u] = out[u]
          /\ b => Len(out'[s]) = Len(out[s]) + 1 /\ out'[s][Len(out[s]) + 1] = w
      BY <1>2, <1>5, <2>1, <2>2, WritingFacts, ZenonT(30)
    <2> QED BY <2>3 DEF b
  <1>9. \A u \in E!Streams : \A i \in DOMAIN out'[u] :
          \/ i \in DOMAIN out[u] /\ out'[u][i] = out[u][i]
          \/ u = s /\ i = Len(out[u]) + 1 /\ out'[u][i] = w
    BY <1>8
  <1>10. \A u \in E!Streams : \A i \in DOMAIN out'[u] :
           push'[out'[u][i][2]].stream = u /\ push'[out'[u][i][2]].state # "no"
    <2> SUFFICES ASSUME NEW u \in E!Streams, NEW i \in DOMAIN out'[u]
                 PROVE  push'[out'[u][i][2]].stream = u /\ push'[out'[u][i][2]].state # "no"
      OBVIOUS
    <2>1. CASE i \in DOMAIN out[u] /\ out'[u][i] = out[u][i]
      BY <1>4, <1>7, <2>1 DEF PushInv, WrittenBy
    <2>2. CASE u = s /\ out'[u][i] = w
      BY <1>2, <1>4, <1>5, <2>2
    <2> QED BY <1>9, <2>1, <2>2
  <1>11. ASSUME NEW f \in E!Events, push'[f].state = "head", f \notin crossed' PROVE HeadLast(f)'
    <2>1. CASE f = e
      <3>1. state = "head" /\ E!Piping(s) = {} /\ ~E!Ended(s)
        BY <1>4, <1>11, <2>1 DEF state
      <3>2. /\ push'[f].stream = s /\ out'[s] # <<>> /\ Len(out'[s]) = Len(out[s]) + 1
            /\ out'[s][Len(out'[s])] = <<"head", e>>
        <4>1. Len(out'[s]) = Len(out[s]) + 1 /\ Len(out[s]) \in Nat /\ DOMAIN out'[s] = 1..Len(out'[s])
          BY <1>2, <1>8, <3>1
        <4> QED BY <1>2, <1>4, <1>8, <2>1, <3>1, <4>1 DEF w
      <3>3. \A i \in DOMAIN out'[s] : out'[s][i][2] = e => i = Len(out'[s])
        BY <1>2, <1>7, <1>9, <3>2
      <3>4. \A g \in E!Events : push'[g].stream = s /\ push'[g].state = "head" => g = e
        <4> SUFFICES ASSUME NEW g \in E!Events, push'[g].stream = s, push'[g].state = "head", g # e PROVE FALSE
          OBVIOUS
        <4>1. push[g].stream = s /\ push[g].state = "head"
          BY <1>4
        <4>2. push[g] = [stream |-> s, state |-> "head"]
          BY <4>1 DEF PushInv, Pushed
        <4> QED BY <3>1, <4>2 DEF E!Piping
      <3> QED BY <1>2, <2>1, <3>2, <3>3, <3>4 DEF HeadLast
    <2>2. CASE f # e
      <3> DEFINE u == push[f].stream
      <3>1. push'[f] = push[f] /\ push[f].state = "head" /\ f \notin crossed
        BY <1>1, <1>4, <1>11, <2>2
      <3>2. HeadLast(f)
        BY <3>1 DEF PushInv
      <3>3. u # s
        <4> SUFFICES ASSUME u = s PROVE FALSE
          OBVIOUS
        <4>1. push[f] = [stream |-> s, state |-> "head"]
          BY <3>1 DEF PushInv, Pushed
        <4>2. f \in E!Piping(s)
          BY <4>1 DEF E!Piping
        <4> QED BY <1>1, <1>11, <4>2
      <3>4. out'[u] = out[u] /\ u \in E!Streams
        BY <1>8, <3>2, <3>3 DEF HeadLast
      <3>5. \A g \in E!Events : push'[g].stream = u /\ push'[g].state = "head" => g = f
        BY <1>4, <3>2, <3>3 DEF HeadLast
      <3> QED BY <3>1, <3>2, <3>4, <3>5 DEF HeadLast
    <2> QED BY <2>1, <2>2
  <1>12. E!WholeEvents'
    <2> SUFFICES ASSUME NEW u \in E!Streams, NEW i \in DOMAIN out'[u], NEW f, f = out'[u][i][2],
                        f \notin crossed', push'[f].state = "done"
                 PROVE  HalfOf(out'[u], i, f)
      BY DEF E!WholeEvents, HalfOf
    <2>1. i \in DOMAIN out[u] /\ out'[u][i] = out[u][i] /\ f # e
      <3>1. CASE i \in DOMAIN out[u] /\ out'[u][i] = out[u][i]
        BY <1>7, <3>1
      <3>2. CASE out'[u][i] = w
        BY <1>2, <1>4, <1>5, <3>2
      <3> QED BY <1>9, <3>1, <3>2
    <2>2. f \in E!Events /\ f \notin crossed /\ push[f].state = "done"
      BY <1>1, <1>4, <1>7, <2>1
    <2>3. HalfOf(out[u], i, f)
      BY <2>1, <2>2 DEF PushInv, E!WholeEvents, HalfOf
    <2>4. Len(out[u]) <= Len(out'[u]) /\ \A j \in 1..Len(out[u]) : out'[u][j] = out[u][j]
      BY <1>8
    <2>5. Len(out[u]) \in Nat /\ Len(out'[u]) \in Nat /\ i \in 1..Len(out[u])
      BY <1>8, <2>1
    <2> QED BY <2>1, <2>3, <2>4, <2>5, HalvesStay
  <1>13. \A f \in E!Events : push'[f].stream \in 0..streams' /\ (push'[f].state = "no" <=> push'[f].stream = 0)
    BY <1>1, <1>2, <1>4 DEF PushInv
  <1> QED BY <1>3, <1>8, <1>10, <1>11, <1>12, <1>13 DEF PushInv, WrittenBy

LEMMA EventIsPiped ==
    ASSUME PushInv, NEW e \in E!Events, E!Piped(e)
    PROVE  PushInv'
  <1> DEFINE s == push[e].stream
             w == <<"end", e>>
             state == IF E!Ended(s) THEN "failed" ELSE "done"
  <1>1. /\ push[e].state = "head" /\ UNCHANGED <<streams, crossed>>
        /\ push' = [push EXCEPT ![e].state = state]
        /\ out' = IF E!Ended(s) THEN out ELSE [out EXCEPT ![s] = Append(out[s], w)]
    BY DEF E!Piped
  <1>2. state \in {"failed", "done"} /\ s \in 0..Connections /\ s \in E!Streams
    <2>1. s \in 0..Connections /\ s # 0
      BY <1>1 DEF PushInv, Pushed
    <2> QED BY <2>1, SessionConstants DEF E!Streams
  <1>3. state = "failed" <=> E!Ended(s)
    OBVIOUS
  <1> HIDE DEF state
  <1>4. push' \in Pushed
    BY <1>1, <1>2 DEF PushInv, Pushed
  <1>5. \A f \in E!Events : /\ f # e => push'[f] = push[f]
                            /\ f = e => push'[f].stream = s /\ push'[f].state = state
    BY <1>1 DEF PushInv, Pushed
  <1>6. w \in {"head", "end"} \X E!Events /\ w[1] = "end" /\ w[2] = e
    OBVIOUS
  <1> HIDE DEF w
  <1>7. \A u \in E!Streams : out[u] \in Seq({"head", "end"} \X E!Events)
    BY DEF PushInv, Written
  <1>8. /\ out' \in Written
        /\ \A u \in E!Streams :
             /\ Len(out[u]) \in Nat /\ DOMAIN out[u] = 1..Len(out[u])
             /\ Len(out'[u]) \in Nat /\ DOMAIN out'[u] = 1..Len(out'[u])
             /\ Len(out[u]) <= Len(out'[u]) /\ \A i \in 1..Len(out[u]) : out'[u][i] = out[u][i]
             /\ u # s \/ E!Ended(s) => out'[u] = out[u]
        /\ ~E!Ended(s) => Len(out'[s]) = Len(out[s]) + 1 /\ out'[s][Len(out[s]) + 1] = w
    <2> DEFINE b == ~E!Ended(s)
    <2>1. b \in BOOLEAN /\ out' = IF b THEN [out EXCEPT ![s] = Append(out[s], w)] ELSE out
      BY <1>1 DEF E!Ended
    <2>2. out \in Written
      BY DEF PushInv
    <2>3. s \in E!Streams
      BY <1>2
    <2> HIDE DEF b, s
    <2>4. /\ out' \in Written
          /\ \A u \in E!Streams :
               /\ Len(out[u]) \in Nat /\ DOMAIN out[u] = 1..Len(out[u])
               /\ Len(out'[u]) \in Nat /\ DOMAIN out'[u] = 1..Len(out'[u])
               /\ Len(out[u]) <= Len(out'[u]) /\ \A i \in 1..Len(out[u]) : out'[u][i] = out[u][i]
               /\ u # s \/ ~b => out'[u] = out[u]
          /\ b => Len(out'[s]) = Len(out[s]) + 1 /\ out'[s][Len(out[s]) + 1] = w
      BY <1>6, <2>1, <2>2, <2>3, WritingFacts, ZenonT(30)
    <2> QED BY <2>4 DEF b
  <1>9. \A u \in E!Streams : \A i \in DOMAIN out'[u] :
          \/ i \in DOMAIN out[u] /\ out'[u][i] = out[u][i]
          \/ u = s /\ i = Len(out[u]) + 1 /\ out'[u][i] = w /\ ~E!Ended(s)
    <2> SUFFICES ASSUME NEW u \in E!Streams, NEW i \in DOMAIN out'[u]
                 PROVE  \/ i \in DOMAIN out[u] /\ out'[u][i] = out[u][i]
                        \/ u = s /\ i = Len(out[u]) + 1 /\ out'[u][i] = w /\ ~E!Ended(s)
      OBVIOUS
    <2>1. /\ Len(out[u]) \in Nat /\ DOMAIN out[u] = 1..Len(out[u])
          /\ Len(out'[u]) \in Nat /\ DOMAIN out'[u] = 1..Len(out'[u])
          /\ \A j \in 1..Len(out[u]) : out'[u][j] = out[u][j]
          /\ u # s \/ E!Ended(s) => out'[u] = out[u]
      BY <1>8
    <2>2. CASE u # s \/ E!Ended(s)
      <3>1. out'[u] = out[u]
        BY <2>1, <2>2
      <3> QED BY <3>1
    <2>3. CASE u = s /\ ~E!Ended(s)
      <3>1. Len(out'[u]) = Len(out[u]) + 1 /\ out'[u][Len(out[u]) + 1] = w
        BY <1>8, <2>3
      <3>2. i \in 1..Len(out[u]) \/ i = Len(out[u]) + 1
        BY <2>1, <3>1
      <3> QED BY <2>1, <2>3, <3>1, <3>2
    <2> QED BY <2>2, <2>3
  <1>10. \A u \in E!Streams : \A i \in DOMAIN out[u] : out[u][i][2] \in E!Events
    BY <1>7
  <1>11. \A u \in E!Streams : \A i \in DOMAIN out'[u] :
           push'[out'[u][i][2]].stream = u /\ push'[out'[u][i][2]].state # "no"
    <2> SUFFICES ASSUME NEW u \in E!Streams, NEW i \in DOMAIN out'[u]
                 PROVE  push'[out'[u][i][2]].stream = u /\ push'[out'[u][i][2]].state # "no"
      OBVIOUS
    <2>1. CASE i \in DOMAIN out[u] /\ out'[u][i] = out[u][i]
      <3>1. WrittenBy(u, out[u][i][2]) /\ out[u][i][2] \in E!Events
        BY <1>10, <2>1 DEF PushInv
      <3> QED BY <1>2, <1>5, <2>1, <3>1 DEF WrittenBy
    <2>2. CASE u = s /\ out'[u][i] = w
      BY <1>2, <1>5, <1>6, <2>2
    <2> QED BY <1>9, <2>1, <2>2
  <1>12. ASSUME NEW f \in E!Events, push'[f].state = "head", f \notin crossed' PROVE HeadLast(f)'
    <2> DEFINE u == push[f].stream
    <2>1. f # e /\ push'[f] = push[f] /\ push[f].state = "head" /\ f \notin crossed
      BY <1>1, <1>2, <1>5, <1>12
    <2>2. HeadLast(f)
      BY <2>1 DEF PushInv
    <2>3. u # s
      BY <1>1, <2>1, <2>2 DEF HeadLast
    <2>4. out'[u] = out[u] /\ u \in E!Streams
      BY <1>8, <2>2, <2>3 DEF HeadLast
    <2>5. \A g \in E!Events : push'[g].stream = u /\ push'[g].state = "head" => g = f
      BY <1>2, <1>5, <2>2 DEF HeadLast
    <2> QED BY <2>1, <2>2, <2>4, <2>5 DEF HeadLast
  <1>13. E!WholeEvents'
    <2> SUFFICES ASSUME NEW u \in E!Streams, NEW i \in DOMAIN out'[u], NEW f, f = out'[u][i][2],
                        f \notin crossed', push'[f].state = "done"
                 PROVE  HalfOf(out'[u], i, f)
      BY DEF E!WholeEvents, HalfOf
    <2>1. /\ Len(out[u]) <= Len(out'[u]) /\ Len(out[u]) \in Nat /\ Len(out'[u]) \in Nat
          /\ \A j \in 1..Len(out[u]) : out'[u][j] = out[u][j]
          /\ DOMAIN out[u] = 1..Len(out[u])
      BY <1>8
    <2>2. CASE f # e
      <3>1. i \in DOMAIN out[u] /\ out'[u][i] = out[u][i]
        BY <1>6, <1>9, <2>2
      <3>2. f \in E!Events /\ f \notin crossed /\ push[f].state = "done"
        BY <1>1, <1>5, <1>10, <2>2, <3>1, SMTT(20)
      <3>3. HalfOf(out[u], i, f)
        BY <3>1, <3>2 DEF PushInv, E!WholeEvents, HalfOf
      <3> QED BY <2>1, <3>1, <3>3, HalvesStay
    <2>3. CASE f = e
      <3>1. ~E!Ended(s) /\ e \notin crossed
        BY <1>1, <1>3, <1>5, <2>3
      <3>2. HeadLast(e)
        BY <1>1, <3>1 DEF PushInv
      <3>3. u = s
        <4>1. i \in DOMAIN out[u] /\ out'[u][i] = out[u][i] => WrittenBy(u, e)
          BY <2>3 DEF PushInv
        <4> QED BY <1>9, <4>1 DEF WrittenBy
      <3>4. /\ Len(out[s]) > 0 /\ out'[s][Len(out[s])] = <<"head", e>> /\ out'[s][Len(out[s]) + 1] = w
            /\ Len(out'[s]) = Len(out[s]) + 1
        <4>1. /\ Len(out'[s]) = Len(out[s]) + 1 /\ out'[s][Len(out[s]) + 1] = w /\ Len(out[s]) \in Nat
              /\ \A j \in 1..Len(out[s]) : out'[s][j] = out[s][j]
          BY <1>2, <1>8, <3>1
        <4>2. out[s] \in Seq({"head", "end"} \X E!Events)
          BY <1>2, <1>7
        <4>3. out[s] # <<>> /\ out[s][Len(out[s])] = <<"head", e>>
          BY <3>2 DEF HeadLast
        <4> HIDE DEF s
        <4>4. Len(out[s]) > 0
          <5>1. Len(out[s]) # 0
            BY <4>2, <4>3, EmptySeq
          <5> QED BY <4>1, <5>1
        <4>5. Len(out[s]) \in 1..Len(out[s])
          BY <4>1, <4>4
        <4>6. out'[s][Len(out[s])] = <<"head", e>>
          <5>1. out'[s][Len(out[s])] = out[s][Len(out[s])]
            BY <4>1, <4>5
          <5> QED BY <4>3, <5>1
        <4> QED BY <4>1, <4>4, <4>6
      <3>5. i = Len(out[s]) \/ i = Len(out[s]) + 1
        BY <1>9, <2>3, <3>2, <3>3 DEF HeadLast
      <3>6. CASE i = Len(out[s])
        <4>1. out'[u][i][1] = "head" /\ i < Len(out'[u]) /\ out'[u][i + 1] = <<"end", f>>
          BY <2>1, <2>3, <3>3, <3>4, <3>6, SMTT(20) DEF w
        <4> QED BY <4>1 DEF HalfOf
      <3>7. CASE i = Len(out[s]) + 1
        <4>1. out'[u][i][1] = "end" /\ i > 1 /\ i - 1 = Len(out[s]) /\ out'[u][i - 1] = <<"head", f>>
          BY <1>6, <2>1, <2>3, <3>3, <3>4, <3>7, SMTT(20)
        <4> QED BY <4>1 DEF HalfOf
      <3> QED BY <3>5, <3>6, <3>7
    <2> QED BY <2>2, <2>3
  <1>14. \A f \in E!Events : push'[f].stream \in 0..streams' /\ (push'[f].state = "no" <=> push'[f].stream = 0)
    BY <1>1, <1>2, <1>5 DEF PushInv
  <1> QED BY <1>4, <1>8, <1>11, <1>12, <1>13, <1>14 DEF PushInv, WrittenBy

LEMMA SessionsStep == SessionsInv /\ [E!Next]_sessionVars => SessionsInv'
  <1> SUFFICES ASSUME SessionsInv, [E!Next]_sessionVars PROVE SessionsInv'
    OBVIOUS
  <1>1. ConnInv /\ PushInv /\ streams \in 0..Connections
    BY DEF SessionsInv, ConnInv
  <1>2. ASSUME NEW c \in 1..Connections, E!Connect(c, TRUE) \/ E!Connect(c, FALSE) PROVE SessionsInv'
    BY <1>2, Connects
  <1>3. ASSUME NEW c \in 1..Connections, E!Answered(c) \/ E!Abort(c) \/ E!Leave(c) PROVE SessionsInv'
    BY <1>3, ConnectionMoves DEF E!Answered, E!Abort, E!Leave
  <1>4. ASSUME NEW e \in E!Events, NEW s \in 1..streams, E!SendEvent(e, s) PROVE SessionsInv'
    <2>1. UNCHANGED <<session, streams, conn>>
      BY <1>4 DEF E!SendEvent
    <2>2. ConnInv'
      BY <1>1, <2>1 DEF ConnInv
    <2> QED BY <1>1, <1>4, <2>2, EventIsSent DEF SessionsInv
  <1>5. ASSUME NEW c \in 1..Connections, E!Greet(c) PROVE SessionsInv'
    <2>1. Pushes + c \in E!Events
      BY SessionConstants DEF E!Events
    <2>2. conn[c].stream \in 1..streams
      <3>1. conn[c].stream # 0
        BY <1>1, <1>5 DEF E!Greet, E!Nowhere, ConnInv
      <3> QED BY <1>1, <3>1 DEF ConnInv
    <2> QED BY <1>4, <1>5, <2>1, <2>2 DEF E!Greet
  <1>6. ASSUME NEW e \in 1..Pushes, E!Push(e) PROVE SessionsInv'
    <2>1. e \in E!Events /\ session \in 1..streams
      BY <1>1, <1>6, SessionConstants DEF E!Events, E!Push, ConnInv
    <2> QED BY <1>4, <1>6, <2>1 DEF E!Push
  <1>7. ASSUME NEW e \in E!Events, E!Piped(e) PROVE SessionsInv'
    <2>1. ConnInv'
      BY <1>1, <1>7 DEF ConnInv, E!Piped
    <2> QED BY <1>1, <1>7, <2>1, EventIsPiped DEF SessionsInv
  <1>8. ASSUME UNCHANGED sessionVars PROVE SessionsInv'
    BY <1>1, <1>8, PushesAreLeft DEF sessionVars, SessionsInv, ConnInv
  <1> QED BY <1>2, <1>3, <1>5, <1>6, <1>7, <1>8 DEF E!Next

-----------------------------------------------------------------------------
(* The load of a tenant.  A request is dispatched to the real tenant because a service of it is *)
(* ready, because the load is over and all are initialised, or because the load timed out.      *)

Built == Remote \cup Chord
AfterFirst == {"manifests2", "init2", "done", "failed"}

LoadFacts ==
    /\ L!TypeOK
    /\ promise = "none" => tenant = "none" /\ loadTimer = "off" /\ load = "none"
    /\ load \in {"none", "reading", "manifests1"} => configs = None
    /\ load \in {"init1", "manifests2"} => configs = Built
    /\ load \in {"init2", "done"} => configs = L!Services
    /\ configs \in {None, Built, L!Services}
    /\ ready \in {{}, Remote} /\ (ready # {} => configs # None /\ load \in AfterFirst)
    /\ load = "done" => configs \subseteq inited
    /\ promise = "resolved" => load \in {"done", "failed"} \/ loadTimer = "fired"
    /\ load = "failed" => tenant = "empty"

\* Why a request that is held by the real tenant may be dispatched.
Reason(r) ==
    \/ load = "done" \/ loadTimer = "fired"
    \/ ~requests[r].waited /\ L!BasePathFromUrl(Built, requests[r].url) \in ready

LoadInv ==
    /\ LoadFacts
    /\ \A r \in L!Requests : requests[r].pc # "idle" => requests[r].url \in Urls
    /\ \A r \in L!Requests : requests[r].pc = "dispatch" /\ requests[r].held = "real" => Reason(r)

\* A base path that is found is one of those looked for; and one that is found among many is
\* found among fewer that have it.
LEMMA BasePathFacts ==
    ASSUME NEW url \in Urls, NEW many \in SUBSET L!Services, NEW few \in SUBSET many
    PROVE  /\ L!BasePathFromUrl(many, url) \in many \cup {None}
           /\ L!BasePathFromUrl(many, url) \in few => L!BasePathFromUrl(few, url) = L!BasePathFromUrl(many, url)
  <1> DEFINE ps == Prefixes[url]
             found(bases) == {i \in DOMAIN ps : ps[i] \in bases}
             First(bases) == CHOOSE i \in found(bases) : \A j \in found(bases) : i <= j
  <1>1. ps \in Seq(L!Services) /\ DOMAIN ps = 1..Len(ps)
    BY LoadConstants DEF L!TenantConstants
  <1>2. \A bases : L!BasePathFromUrl(bases, url) = IF found(bases) = {} THEN None ELSE ps[First(bases)]
    BY DEF L!BasePathFromUrl
  <1>3. None \notin L!Services
    BY LoadConstants DEF L!TenantConstants
  <1>4. ASSUME NEW bases, found(bases) # {}
        PROVE  /\ First(bases) \in found(bases) /\ \A j \in found(bases) : First(bases) <= j
               /\ First(bases) \in DOMAIN ps /\ ps[First(bases)] \in bases
    <2>1. \E i \in found(bases) : \A j \in found(bases) : i <= j
      <3>1. found(bases) \in SUBSET Nat
        BY <1>1
      <3> QED BY <1>4, <3>1, LeastOf
    <2> QED BY <2>1
  <1> HIDE DEF First
  <1>5. L!BasePathFromUrl(many, url) \in many \cup {None}
    BY <1>2, <1>4
  <1>6. ASSUME L!BasePathFromUrl(many, url) \in few
        PROVE  L!BasePathFromUrl(few, url) = L!BasePathFromUrl(many, url)
    <2>1. found(many) # {} /\ ps[First(many)] \in few
      BY <1>2, <1>3, <1>6
    <2>2. First(many) \in found(few) /\ found(few) \subseteq found(many)
      BY <1>4, <2>1
    <2>3. First(few) \in found(few) /\ First(few) <= First(many) /\ First(many) <= First(few)
      BY <1>4, <2>1, <2>2
    <2>4. First(few) = First(many)
      BY <1>1, <2>2, <2>3
    <2> QED BY <1>2, <2>1, <2>2, <2>4
  <1> QED BY <1>5, <1>6

\* The places of services, and who asks, are all different.
LEMMA LoadNames ==
    /\ None \notin L!Services /\ L!Services # None /\ Built # None /\ Built \in SUBSET L!Services /\ Remote \in SUBSET Built
    /\ Callers \subseteq L!Requests /\ Local \subseteq L!Requests
    /\ Callers \cap Local = {}
  BY LoadConstants DEF L!TenantConstants, L!Services, L!Requests, Built

LEMMA InitLoad == L!Init => LoadInv
  <1> SUFFICES ASSUME L!Init PROVE LoadInv
    OBVIOUS
  <1>1. requests \in [L!Requests -> L!Request] /\ \A r \in L!Requests : requests[r].pc = "idle"
    BY DEF L!Init, L!Unasked, L!Request, L!PCs, L!Answers
  <1> QED BY <1>1 DEF L!Init, LoadInv, LoadFacts, L!TypeOK, L!Loads

\* A step of one request leaves the reasons of the others.
LEMMA OneIsPut ==
    ASSUME LoadInv, NEW r \in L!Requests, NEW rq \in L!Request, L!Put(r, rq), LoadFacts',
           rq.pc = "idle" \/ rq.url \in Urls,
           load = "done" => load' = "done", loadTimer = "fired" => loadTimer' = "fired", ready' = ready,
           rq.pc = "dispatch" /\ rq.held = "real" => Reason(r)'
    PROVE  LoadInv'
  <1>1. /\ requests \in [L!Requests -> L!Request]
        /\ requests'[r] = rq /\ \A o \in L!Requests \ {r} : requests'[o] = requests[o]
    BY DEF LoadInv, LoadFacts, L!TypeOK, L!Put
  <1>2. \A o \in L!Requests : requests'[o].pc # "idle" => requests'[o].url \in Urls
    BY <1>1 DEF LoadInv
  <1>3. ASSUME NEW o \in L!Requests \ {r}, requests'[o].pc = "dispatch", requests'[o].held = "real" PROVE Reason(o)'
    BY <1>1, <1>3 DEF LoadInv, Reason
  <1> QED BY <1>1, <1>2, <1>3 DEF LoadInv

\* And so does a step of the load.
LEMMA LoadMoves ==
    ASSUME LoadInv, LoadFacts', UNCHANGED requests,
           load = "done" => load' = "done", loadTimer = "fired" => loadTimer' = "fired", ready \subseteq ready'
    PROVE  LoadInv'
  BY DEF LoadInv, Reason

\* What getTenant makes of a request.
LEMMA ReturnedIs ==
    ASSUME NEW r \in L!Requests, NEW rq \in L!Request, NEW t \in {"none", "real", "empty"}
    PROVE  LET q == L!Returned(r, rq, t) IN
           /\ q \in L!Request /\ q.url = rq.url /\ q.waited = rq.waited
           /\ q.pc = "dispatch" /\ q.held = "real" => t = "real"
  BY DEF L!Returned, L!Request, L!PCs, L!Answers

LEMMA AskingIs ==
    ASSUME NEW url \in Urls
    PROVE  L!Asking(url) \in L!Request /\ L!Asking(url).url = url /\ ~L!Asking(url).waited
  BY DEF L!Asking, L!Unasked, L!Request, L!PCs, L!Answers

\* What it makes of one that joins the load, paths being ready: if it goes on, its path is.
LEMMA JoinedIs ==
    ASSUME LoadInv, NEW r \in L!Requests, NEW url \in Urls, NEW paths \in {{}, Remote}
    PROVE  LET q == L!Joined(r, url, paths) IN
           /\ q \in L!Request /\ q.url = url
           /\ q.pc = "dispatch" /\ q.held = "real" => ~q.waited /\ L!BasePathFromUrl(Built, url) \in paths
           /\ q.pc = "answered" => q.answer \notin L!Services
  <1> DEFINE a == L!Asking(url)
             q == L!Joined(r, url, paths)
  <1>1. a \in L!Request /\ a.url = url /\ ~a.waited
    BY AskingIs
  <1> HIDE DEF a
  <1>0. {"404", "500", "external"} \cap L!Services = {}
    BY LoadConstants DEF L!TenantConstants
  <1>2. CASE L!PathIsReadyThrows
    <2>1. q = [a EXCEPT !.pc = "answered", !.answer = L!Refusal(r)]
      BY <1>2 DEF L!Joined, a
    <2> QED BY <1>0, <1>1, <2>1 DEF L!Refusal, L!Request, L!PCs, L!Answers
  <1>3. CASE ~L!PathIsReadyThrows /\ tenant = "real" /\ L!PathIsReady(url, paths)
    <2>1. q = L!Returned(r, a, "real")
      BY <1>3 DEF L!Joined, a
    <2>2. q \in L!Request /\ q.url = url /\ ~q.waited /\ q.pc = "dispatch"
      BY <1>1, <2>1 DEF L!Returned, L!Request, L!PCs
    <2>3. configs \in {Built, L!Services} /\ L!BasePathFromUrl(configs, url) \in paths
      BY <1>3 DEF L!PathIsReadyThrows, L!PathIsReady, LoadInv, LoadFacts
    <2>4. L!BasePathFromUrl(Built, url) \in paths
      <3>1. L!BasePathFromUrl(configs, url) \in Built /\ configs \in SUBSET L!Services /\ Built \in SUBSET configs
        BY <2>3, LoadNames
      <3>2. L!BasePathFromUrl(Built, url) = L!BasePathFromUrl(configs, url)
        BY <3>1, BasePathFacts
      <3> QED BY <2>3, <3>2
    <2> QED BY <2>2, <2>4
  <1>4. CASE ~L!PathIsReadyThrows /\ ~(tenant = "real" /\ L!PathIsReady(url, paths))
    <2>1. q = [a EXCEPT !.pc = "waiting", !.waited = TRUE]
      BY <1>4 DEF L!Joined, a
    <2> QED BY <1>1, <2>1 DEF L!Request, L!PCs
  <1> QED BY <1>2, <1>3, <1>4

\* Requests.
LEMMA RequestsMove ==
    ASSUME LoadInv, NEW r \in L!Requests,
           (\E url \in Urls : L!Ask(r, url)) \/ L!Wake(r) \/ L!Dispatch(r)
    PROVE  LoadInv'
  <1>0. LoadFacts /\ L!TypeOK /\ requests \in [L!Requests -> L!Request] /\ requests[r] \in L!Request
        /\ tenant \in {"none", "real", "empty"}
    BY DEF LoadInv, LoadFacts, L!TypeOK
  <1>1. ASSUME NEW url \in Urls, L!BecomeLoader(r, url) PROVE LoadInv'
    <2> DEFINE rq == [L!Asking(url) EXCEPT !.pc = "loader"]
    <2>1. rq \in L!Request /\ rq.url \in Urls /\ rq.pc = "loader"
      BY AskingIs DEF L!Request, L!PCs
    <2>2. promise = "none" /\ promise' = "pending" /\ loadTimer' = "on" /\ load' = "reading"
          /\ L!Put(r, rq) /\ UNCHANGED <<tenant, configs, ready, inited>>
      BY <1>1 DEF L!BecomeLoader
    <2> HIDE DEF rq
    <2>3. requests' \in [L!Requests -> L!Request]
      BY <1>0, <2>1, <2>2 DEF L!Put
    <2>4. load = "none" /\ loadTimer = "off"
      BY <1>0, <2>2 DEF LoadFacts
    <2>5. LoadFacts'
      BY <1>0, <2>2, <2>3, <2>4 DEF LoadFacts, L!TypeOK, L!Loads, AfterFirst
    <2> QED BY <2>1, <2>2, <2>4, <2>5, OneIsPut
  <1>2. ASSUME NEW rq \in L!Request, L!Put(r, rq), rq.pc = "idle" \/ rq.url \in Urls,
               UNCHANGED <<tenant, promise, loadTimer, load, configs, ready, inited>>,
               rq.pc = "dispatch" /\ rq.held = "real" => Reason(r)'
        PROVE  LoadInv'
    <2>1. requests' \in [L!Requests -> L!Request]
      BY <1>0, <1>2 DEF L!Put
    <2>2. LoadFacts'
      BY <1>0, <1>2, <2>1 DEF LoadFacts, L!TypeOK
    <2> QED BY <1>2, <2>2, OneIsPut
  <1>3. ASSUME NEW rq \in L!Request, L!Put(r, rq) PROVE requests'[r] = rq
    BY <1>0, <1>3 DEF L!Put
  <1>4. ASSUME NEW url \in Urls, L!JoinLoad(r, url) PROVE LoadInv'
    <2> DEFINE rq == L!Joined(r, url, ready)
    <2>1. L!Put(r, rq) /\ UNCHANGED <<tenant, promise, loadTimer, load, configs, ready, inited>>
      BY <1>4 DEF L!JoinLoad
    <2>2. /\ rq \in L!Request /\ rq.url = url
          /\ rq.pc = "dispatch" /\ rq.held = "real" => ~rq.waited /\ L!BasePathFromUrl(Built, url) \in ready
      <3>1. ready \in {{}, Remote}
        BY <1>0 DEF LoadFacts
      <3> QED BY <3>1, JoinedIs
    <2> HIDE DEF rq
    <2>3. requests'[r] = rq
      BY <1>3, <2>1, <2>2
    <2>4. rq.pc = "dispatch" /\ rq.held = "real" => Reason(r)'
      BY <2>1, <2>2, <2>3 DEF Reason
    <2> QED BY <1>2, <2>1, <2>2, <2>4
  <1>5. ASSUME L!Wake(r) PROVE LoadInv'
    <2> DEFINE rq == L!Returned(r, requests[r], tenant)
    <2>1. requests[r].pc = "waiting" /\ promise = "resolved"
          /\ L!Put(r, rq) /\ UNCHANGED <<tenant, promise, loadTimer, load, configs, ready, inited>>
      BY <1>5 DEF L!Wake
    <2>2. rq \in L!Request /\ rq.url = requests[r].url /\ (rq.pc = "dispatch" /\ rq.held = "real" => tenant = "real")
      BY <1>0, ReturnedIs
    <2> HIDE DEF rq
    <2>3. rq.pc = "dispatch" /\ rq.held = "real" => Reason(r)'
      BY <1>0, <2>1, <2>2 DEF LoadFacts, Reason
    <2>4. rq.url \in Urls
      BY <2>1, <2>2 DEF LoadInv
    <2> QED BY <1>2, <2>1, <2>2, <2>3, <2>4
  <1>6. ASSUME L!Dispatch(r) PROVE LoadInv'
    <2> DEFINE rq == requests[r]
               bases == IF rq.held = "real" THEN configs ELSE None
               answer0 == IF bases = None THEN L!Refusal(r)
                          ELSE IF L!BasePathFromUrl(bases, rq.url) = None THEN "404"
                          ELSE L!BasePathFromUrl(bases, rq.url)
               done == [rq EXCEPT !.pc = "answered", !.answer = answer0]
    <2>1. rq.pc = "dispatch" /\ L!Put(r, done)
          /\ UNCHANGED <<tenant, promise, loadTimer, load, configs, ready, inited>>
      BY <1>6 DEF L!Dispatch
    <2>2. rq.url \in Urls /\ rq \in L!Request
      BY <1>0, <2>1 DEF LoadInv
    <2>3. answer0 \in L!Answers
      <3>1. bases # None => bases \in SUBSET L!Services
        BY <1>0, LoadNames DEF LoadFacts
      <3>2. bases # None => L!BasePathFromUrl(bases, rq.url) \in bases \cup {None}
        BY <2>2, <3>1, BasePathFacts
      <3> HIDE DEF bases
      <3> QED BY <3>1, <3>2 DEF L!Answers, L!Refusal
    <2> HIDE DEF answer0
    <2>4. done \in L!Request /\ done.url \in Urls /\ done.pc = "answered"
      BY <2>2, <2>3 DEF L!Request, L!PCs
    <2> HIDE DEF done
    <2> QED BY <1>2, <2>1, <2>4
  <1> QED BY <1>1, <1>4, <1>5, <1>6 DEF L!Ask

\* The load.
LEMMA LoadStepKeeps == LoadInv /\ L!LoadStep => LoadInv'
  <1> SUFFICES ASSUME LoadInv, L!LoadStep PROVE LoadInv'
    OBVIOUS
  <1>0. LoadFacts /\ L!TypeOK /\ requests \in [L!Requests -> L!Request]
        /\ tenant \in {"none", "real", "empty"} /\ promise \in {"none", "pending", "resolved"}
    BY DEF LoadInv, LoadFacts, L!TypeOK
  <1>1. ASSUME L!ReadServices PROVE LoadInv'
    <2>1. load = "reading" /\ tenant' = "real" /\ load' = "manifests1"
          /\ UNCHANGED <<promise, loadTimer, configs, ready, inited, requests>>
      BY <1>1 DEF L!ReadServices
    <2>2. promise = "resolved" => loadTimer = "fired"
      BY <1>0, <2>1 DEF LoadFacts
    <2>3. LoadFacts'
      BY <1>0, <2>1, <2>2 DEF LoadFacts, L!TypeOK, L!Loads, AfterFirst
    <2> QED BY <2>1, <2>3, LoadMoves
  <1>2. ASSUME L!BuildConfigs PROVE LoadInv'
    <2>1. load = "manifests1" /\ configs' = Built /\ load' = "init1"
          /\ UNCHANGED <<tenant, promise, loadTimer, ready, inited, requests>>
      BY <1>2 DEF L!BuildConfigs, Built
    <2>2. LoadFacts'
      BY <1>0, <2>1, LoadNames DEF LoadFacts, L!TypeOK, L!Loads, AfterFirst
    <2> QED BY <2>1, <2>2, LoadMoves
  <1>3. ASSUME NEW b \in L!Services, L!InitService(b) PROVE LoadInv'
    <2>1. inited' = inited \cup {b} /\ UNCHANGED <<tenant, promise, loadTimer, load, configs, ready, requests>>
      BY <1>3 DEF L!InitService
    <2>2. LoadFacts'
      BY <1>0, <2>1 DEF LoadFacts, L!TypeOK
    <2> QED BY <2>1, <2>2, LoadMoves
  <1>4. ASSUME L!DeclareReady PROVE LoadInv'
    <2>1. load = "init1" /\ ready' = Remote /\ load' = "manifests2"
          /\ UNCHANGED <<tenant, promise, loadTimer, configs, inited>>
      BY <1>4 DEF L!DeclareReady
    <2>2. PICK source \in [Local -> Urls] :
                 requests' = [r \in L!Requests |->
                     IF r \in Local THEN L!Joined(r, source[r], Remote) ELSE requests[r]]
      BY <1>4 DEF L!DeclareReady
    <2>3. ASSUME NEW r \in L!Requests
          PROVE  /\ requests'[r] \in L!Request
                 /\ requests'[r].pc # "idle" => requests'[r].url \in Urls
                 /\ requests'[r].pc = "dispatch" /\ requests'[r].held = "real" => Reason(r)'
      <3>1. CASE r \in Local
        <4>1. requests'[r] = L!Joined(r, source[r], Remote) /\ source[r] \in Urls
          BY <2>2, <3>1
        <4>2. /\ requests'[r] \in L!Request /\ requests'[r].url = source[r]
              /\ requests'[r].pc = "dispatch" /\ requests'[r].held = "real" =>
                    ~requests'[r].waited /\ L!BasePathFromUrl(Built, source[r]) \in Remote
          BY <4>1, JoinedIs
        <4> QED BY <2>1, <4>1, <4>2 DEF Reason
      <3>2. CASE r \notin Local
        <4>1. requests'[r] = requests[r]
          BY <2>2, <3>2
        <4>2. ready \subseteq ready'
          BY <1>0, <2>1 DEF LoadFacts
        <4>3. load # "done"
          BY <2>1
        <4> QED BY <1>0, <2>1, <4>1, <4>2, <4>3 DEF LoadInv, Reason
      <3> QED BY <3>1, <3>2
    <2>4. requests' \in [L!Requests -> L!Request]
      BY <2>2, <2>3
    <2>5. LoadFacts'
      <3>1. configs = Built /\ configs # None
        BY <1>0, <2>1, LoadNames DEF LoadFacts
      <3>2. promise # "none" /\ (promise = "resolved" => loadTimer = "fired")
        BY <1>0, <2>1 DEF LoadFacts
      <3> QED BY <1>0, <2>1, <2>4, <3>1, <3>2 DEF LoadFacts, L!TypeOK, L!Loads, AfterFirst
    <2> QED BY <2>3, <2>5 DEF LoadInv
  <1>5. ASSUME L!MergeConfigs PROVE LoadInv'
    <2>1. load = "manifests2" /\ configs' = configs \cup Local /\ load' = "init2"
          /\ UNCHANGED <<tenant, promise, loadTimer, ready, inited, requests>>
      BY <1>5 DEF L!MergeConfigs
    <2>2. configs' = L!Services
      BY <1>0, <2>1 DEF LoadFacts, Built, L!Services
    <2>3. L!Services # None
      BY LoadNames
    <2>4. LoadFacts'
      BY <1>0, <2>1, <2>2, <2>3 DEF LoadFacts, L!TypeOK, L!Loads, AfterFirst
    <2> QED BY <2>1, <2>4, LoadMoves
  <1>6. ASSUME NEW r \in Callers, L!Loaded(r) PROVE LoadInv'
    <2> DEFINE rq == L!Returned(r, requests[r], tenant)
    <2>0. r \in L!Requests /\ requests[r] \in L!Request
      BY <1>0, LoadNames
    <2>1. load = "init2" /\ configs \subseteq inited /\ load' = "done" /\ promise' = "resolved" /\ L!Put(r, rq)
          /\ requests[r].pc = "loader" /\ loadTimer' = (IF loadTimer = "on" THEN "off" ELSE loadTimer)
          /\ UNCHANGED <<tenant, configs, ready, inited>>
      BY <1>6 DEF L!Loaded, L!Loader, L!ClearTimer
    <2>2. rq \in L!Request /\ rq.url = requests[r].url
      BY <1>0, <2>0, ReturnedIs
    <2> HIDE DEF rq
    <2>3. requests' \in [L!Requests -> L!Request] /\ rq.url \in Urls
      BY <1>0, <2>0, <2>1, <2>2 DEF L!Put, LoadInv
    <2>4. LoadFacts'
      BY <1>0, <2>1, <2>3 DEF LoadFacts, L!TypeOK, L!Loads, AfterFirst
    <2>5. Reason(r)'
      BY <2>1 DEF Reason
    <2> QED BY <2>0, <2>1, <2>2, <2>3, <2>4, <2>5, OneIsPut
  <1>7. ASSUME NEW r \in Callers, L!LoadFailed(r) PROVE LoadInv'
    <2> DEFINE rq == [requests[r] EXCEPT !.pc = "answered", !.answer = L!Refusal(r)]
    <2>0. r \in L!Requests /\ requests[r] \in L!Request
      BY <1>0, LoadNames
    <2>1. load \in L!Loading /\ load' = "failed" /\ tenant' = "empty" /\ promise' = "resolved" /\ L!Put(r, rq)
          /\ requests[r].pc = "loader" /\ loadTimer' = (IF loadTimer = "on" THEN "off" ELSE loadTimer)
          /\ UNCHANGED <<configs, ready, inited>>
      BY <1>7 DEF L!LoadFailed, L!Loader, L!ClearTimer
    <2>2. rq \in L!Request /\ rq.url = requests[r].url /\ rq.pc = "answered"
      BY <2>0 DEF L!Request, L!PCs, L!Answers, L!Refusal
    <2> HIDE DEF rq
    <2>3. requests' \in [L!Requests -> L!Request] /\ rq.url \in Urls
      BY <1>0, <2>0, <2>1, <2>2 DEF L!Put, LoadInv
    <2>4. load # "done"
      BY <2>1 DEF L!Loading
    <2>5. LoadFacts'
      BY <1>0, <2>1, <2>3 DEF LoadFacts, L!TypeOK, L!Loads, AfterFirst
    <2> QED BY <2>0, <2>1, <2>2, <2>3, <2>4, <2>5, OneIsPut
  <1> QED BY <1>1, <1>2, <1>3, <1>4, <1>5, <1>6, <1>7 DEF L!LoadStep

LEMMA LoadInvStep == LoadInv /\ [L!Next]_loadVars => LoadInv'
  <1> SUFFICES ASSUME LoadInv, [L!Next]_loadVars PROVE LoadInv'
    OBVIOUS
  <1>1. ASSUME L!LoadTimeout PROVE LoadInv'
    <2>1. loadTimer = "on" /\ loadTimer' = "fired" /\ promise' = "resolved" /\ tenant' = "empty"
          /\ UNCHANGED <<load, configs, ready, inited, requests>>
      BY <1>1 DEF L!LoadTimeout
    <2>2. LoadFacts'
      BY <2>1 DEF LoadInv, LoadFacts, L!TypeOK
    <2> QED BY <2>1, <2>2, LoadMoves
  <1>2. ASSUME UNCHANGED loadVars PROVE LoadInv'
    BY <1>2 DEF loadVars, LoadInv, LoadFacts, L!TypeOK, Reason
  <1>3. ASSUME NEW r \in Callers, NEW url \in Urls, L!Ask(r, url) PROVE LoadInv'
    BY <1>3, RequestsMove, LoadNames
  <1>4. ASSUME NEW r \in L!Requests, L!Wake(r) \/ L!Dispatch(r) PROVE LoadInv'
    BY <1>4, RequestsMove
  <1> QED BY <1>1, <1>2, <1>3, <1>4, LoadStepKeeps DEF L!Next

\* A request that is dispatched to a service that is not initialised is one of the exceptions.
ServedInTime ==
    \A r \in L!Requests :
        L!Dispatched(r) /\ requests'[r].answer \in L!Services
            => requests'[r].answer \in inited \/ loadTimer = "fired" \/ L!Overtaken(r)

LEMMA DispatchIsInTime ==
    ASSUME LoadInv, [L!Next]_loadVars, NEW r \in L!Requests,
           L!Dispatched(r), requests'[r].answer \in L!Services
    PROVE  requests'[r].answer \in inited \/ loadTimer = "fired" \/ L!Overtaken(r)
  <1>0. LoadFacts /\ requests \in [L!Requests -> L!Request] /\ requests[r] \in L!Request
        /\ requests[r].pc = "dispatch" /\ requests'[r].pc = "answered"
    BY DEF LoadInv, LoadFacts, L!TypeOK, L!Dispatched
  <1>1. \A rq : \A o \in L!Requests \ {r} : L!Put(o, rq) => requests'[r] = requests[r]
    BY <1>0 DEF L!Put
  <1>2. L!Dispatch(r)
    <2>1. requests' # requests
      BY <1>0
    <2>2. \A o \in Callers, url \in Urls : ~L!Ask(o, url)
      <3> SUFFICES ASSUME NEW o \in Callers, NEW url \in Urls, L!Ask(o, url) PROVE FALSE
        OBVIOUS
      <3>1. requests[o].pc = "idle" /\ o \in L!Requests /\ \E rq : L!Put(o, rq)
        BY LoadNames DEF L!Ask, L!BecomeLoader, L!JoinLoad
      <3> QED BY <1>0, <1>1, <3>1
    <2>3. \A o \in L!Requests : ~L!Wake(o)
      <3> SUFFICES ASSUME NEW o \in L!Requests, L!Wake(o) PROVE FALSE
        OBVIOUS
      <3>1. requests[o].pc = "waiting" /\ \E rq : L!Put(o, rq)
        BY DEF L!Wake
      <3> QED BY <1>0, <1>1, <3>1
    <2>4. \A o \in L!Requests : L!Dispatch(o) => o = r
      <3> SUFFICES ASSUME NEW o \in L!Requests, L!Dispatch(o), o # r PROVE FALSE
        OBVIOUS
      <3>1. \E rq : L!Put(o, rq)
        BY DEF L!Dispatch
      <3> QED BY <1>0, <1>1, <3>1
    <2>5. ~L!DeclareReady
      <3> SUFFICES ASSUME L!DeclareReady PROVE FALSE
        OBVIOUS
      <3>1. PICK source \in [Local -> Urls] :
                   requests' = [o \in L!Requests |->
                       IF o \in Local THEN L!Joined(o, source[o], Remote) ELSE requests[o]]
        BY DEF L!DeclareReady
      <3>2. CASE r \in Local
        <4>1. requests'[r] = L!Joined(r, source[r], Remote) /\ source[r] \in Urls
          BY <3>1, <3>2
        <4> QED BY <1>0, <4>1, JoinedIs
      <3>3. CASE r \notin Local
        BY <1>0, <3>1, <3>3
      <3> QED BY <3>2, <3>3
    <2>6. \A o \in Callers : ~L!Loaded(o) /\ ~L!LoadFailed(o)
      <3> SUFFICES ASSUME NEW o \in Callers, L!Loaded(o) \/ L!LoadFailed(o) PROVE FALSE
        OBVIOUS
      <3>1. requests[o].pc = "loader" /\ o \in L!Requests /\ \E rq : L!Put(o, rq)
        BY LoadNames DEF L!Loaded, L!LoadFailed, L!Loader
      <3> QED BY <1>0, <1>1, <3>1
    <2>7. ~L!LoadStep
      BY <2>1, <2>5, <2>6 DEF L!LoadStep, L!ReadServices, L!BuildConfigs, L!MergeConfigs, L!InitService
    <2> QED BY <2>1, <2>2, <2>3, <2>4, <2>7 DEF L!Next, L!LoadTimeout, loadVars
  <1>3. /\ requests[r].held = "real" /\ configs # None
        /\ requests'[r].answer = L!BasePathFromUrl(configs, requests[r].url)
        /\ requests[r].url \in Urls
    <2> DEFINE bases == IF requests[r].held = "real" THEN configs ELSE None
               a == IF bases = None THEN L!Refusal(r)
                    ELSE IF L!BasePathFromUrl(bases, requests[r].url) = None THEN "404"
                    ELSE L!BasePathFromUrl(bases, requests[r].url)
    <2>1. L!Put(r, [requests[r] EXCEPT !.pc = "answered", !.answer = a])
      BY <1>2 DEF L!Dispatch
    <2>2. requests'[r].answer = a
      BY <1>0, <2>1 DEF L!Put, L!Request
    <2>3. a \notin {"404", "500", "external"}
      BY <2>2, LoadConstants DEF L!TenantConstants
    <2>4. bases # None /\ a = L!BasePathFromUrl(bases, requests[r].url)
      BY <2>3 DEF L!Refusal
    <2> HIDE DEF a
    <2> QED BY <1>0, <2>2, <2>4 DEF LoadInv
  <1>4. Reason(r)
    BY <1>0, <1>3 DEF LoadInv
  <1>5. ASSUME load = "done" PROVE requests'[r].answer \in inited
    <2>1. configs = L!Services /\ configs \subseteq inited
      BY <1>0, <1>5 DEF LoadFacts
    <2> QED BY <2>1
  <1> QED BY <1>4, <1>5 DEF Reason, L!Overtaken, Built

(* No stall.  Whoever waits for a promise that is not resolved is let go by the timer at the *)
(* latest, which is set for as long as the promise is pending.  The one that loads has no     *)
(* such help, but waits for nothing but manifests, whose requests the timer lets go.          *)

Placed(r) ==
    /\ requests[r].pc # "idle" => promise # "none"
    /\ requests[r].pc = "loader" => r \in Callers /\ load \in L!Loading
    /\ r \in Local /\ load = "manifests2" => requests[r].pc \in {"waiting", "dispatch", "answered"}

LoadGoes ==
    /\ promise = "pending" => loadTimer = "on"
    /\ \A r \in L!Requests : Placed(r)
    /\ \A r, q \in L!Requests : requests[r].pc = "loader" /\ requests[q].pc = "loader" => r = q

LEMMA InitGoes == L!Init => LoadGoes
  BY DEF L!Init, L!Unasked, LoadGoes, Placed

\* A request that goes on, or that ends the load, is not the one that loads any more.
LEMMA RequestGoesOn ==
    ASSUME LoadInv, LoadGoes, NEW r \in L!Requests, NEW rq, L!Put(r, rq),
           rq.pc \in {"waiting", "dispatch", "answered"},
           promise' # "none", promise' = "pending" => loadTimer' = "on",
           load' = load \/ (requests[r].pc = "loader" /\ load' # "manifests2")
    PROVE  LoadGoes'
  <1>1. requests \in [L!Requests -> L!Request]
    BY DEF LoadInv, LoadFacts, L!TypeOK
  <1>2. requests'[r] = rq /\ \A o \in L!Requests \ {r} : requests'[o] = requests[o]
    BY <1>1 DEF L!Put
  <1>3. \A o, q \in L!Requests : requests'[o].pc = "loader" /\ requests'[q].pc = "loader" => o = q
    BY <1>2 DEF LoadGoes
  <1>4. ASSUME NEW o \in L!Requests PROVE Placed(o)'
    <2>1. CASE o = r
      BY <1>2, <2>1 DEF LoadGoes, Placed
    <2>2. CASE o # r
      <3>1. requests'[o] = requests[o] /\ Placed(o)
        BY <1>2, <2>2 DEF LoadGoes
      <3>2. requests[r].pc = "loader" => requests[o].pc # "loader"
        BY <2>2 DEF LoadGoes
      <3> QED BY <3>1, <3>2 DEF Placed
    <2> QED BY <2>1, <2>2
  <1> QED BY <1>3, <1>4 DEF LoadGoes

\* A step of the load by itself.
LEMMA LoadGoesOnBy ==
    ASSUME LoadGoes, UNCHANGED requests, promise' = promise \/ promise' = "resolved",
           promise' = "pending" => loadTimer' = loadTimer,
           load' = load \/ (load' \in L!Loading /\ load' # "manifests2")
    PROVE  LoadGoes'
  BY DEF LoadGoes, Placed

LEMMA GoesStep == LoadInv /\ LoadGoes /\ [L!Next]_loadVars => LoadGoes'
  <1> SUFFICES ASSUME LoadInv, LoadGoes, [L!Next]_loadVars PROVE LoadGoes'
    OBVIOUS
  <1>0. /\ requests \in [L!Requests -> L!Request] /\ promise \in {"none", "pending", "resolved"}
        /\ promise = "none" => loadTimer = "off" /\ load = "none"
        /\ load # "none" => promise # "none"
    BY DEF LoadInv, LoadFacts, L!TypeOK
  <1>1. ASSUME NEW r \in Callers, NEW url \in Urls, L!BecomeLoader(r, url) PROVE LoadGoes'
    <2> DEFINE rq == [L!Asking(url) EXCEPT !.pc = "loader"]
    <2>1. rq.pc = "loader" /\ r \in L!Requests /\ r \notin Local
      BY LoadNames DEF L!Asking, L!Unasked
    <2>2. promise = "none" /\ promise' = "pending" /\ loadTimer' = "on" /\ load' = "reading" /\ L!Put(r, rq)
      BY <1>1 DEF L!BecomeLoader
    <2> HIDE DEF rq
    <2>3. requests'[r] = rq /\ \A o \in L!Requests \ {r} : requests'[o] = requests[o]
      BY <1>0, <2>1, <2>2 DEF L!Put
    <2>4. \A o \in L!Requests : requests[o].pc = "idle"
      BY <2>2 DEF LoadGoes, Placed
    <2> QED BY <2>1, <2>2, <2>3, <2>4 DEF LoadGoes, Placed, L!Loading, L!Loads
  <1>2. ASSUME NEW r \in L!Requests, NEW url \in Urls, NEW paths
        PROVE  L!Joined(r, url, paths).pc \in {"waiting", "dispatch", "answered"}
    BY DEF L!Joined, L!Returned, L!Asking, L!Unasked
  <1>3. ASSUME NEW r \in L!Requests, NEW t PROVE L!Returned(r, requests[r], t).pc \in {"dispatch", "answered"}
    BY <1>0 DEF L!Returned, L!Request
  <1>4. ASSUME NEW r \in Callers, NEW url \in Urls, L!JoinLoad(r, url) PROVE LoadGoes'
    <2>1. L!Put(r, L!Joined(r, url, ready)) /\ promise # "none" /\ UNCHANGED <<promise, loadTimer, load>>
      BY <1>4 DEF L!JoinLoad
    <2>2. r \in L!Requests /\ L!Joined(r, url, ready).pc \in {"waiting", "dispatch", "answered"}
      BY <1>2, LoadNames
    <2>3. promise' = "pending" => loadTimer' = "on"
      BY <2>1 DEF LoadGoes
    <2> QED BY <2>1, <2>2, <2>3, RequestGoesOn
  <1>5. ASSUME NEW r \in L!Requests, L!Wake(r) PROVE LoadGoes'
    <2>1. L!Put(r, L!Returned(r, requests[r], tenant)) /\ promise = "resolved" /\ UNCHANGED <<promise, loadTimer, load>>
      BY <1>5 DEF L!Wake
    <2>2. L!Returned(r, requests[r], tenant).pc \in {"waiting", "dispatch", "answered"}
      BY <1>3
    <2> QED BY <2>1, <2>2, RequestGoesOn
  <1>6. ASSUME NEW r \in L!Requests, L!Dispatch(r) PROVE LoadGoes'
    <2>0. PICK answer0 : L!Put(r, [requests[r] EXCEPT !.pc = "answered", !.answer = answer0])
      BY <1>6 DEF L!Dispatch
    <2>1. PICK rq : L!Put(r, rq) /\ rq.pc = "answered"
      <3>1. [requests[r] EXCEPT !.pc = "answered", !.answer = answer0].pc = "answered"
        BY <1>0 DEF L!Request
      <3> QED BY <2>0, <3>1
    <2>2. requests[r].pc = "dispatch" /\ UNCHANGED <<promise, loadTimer, load>>
      BY <1>6 DEF L!Dispatch
    <2>3. promise # "none" /\ (promise' = "pending" => loadTimer' = "on")
      BY <2>2 DEF LoadGoes, Placed
    <2> QED BY <2>1, <2>2, <2>3, RequestGoesOn
  <1>7. ASSUME L!DeclareReady PROVE LoadGoes'
    <2>1. load = "init1" /\ load' = "manifests2" /\ UNCHANGED <<promise, loadTimer>>
      BY <1>7 DEF L!DeclareReady
    <2>2. PICK source \in [Local -> Urls] :
                 requests' = [r \in L!Requests |->
                     IF r \in Local THEN L!Joined(r, source[r], Remote) ELSE requests[r]]
      BY <1>7 DEF L!DeclareReady
    <2>3. ASSUME NEW r \in L!Requests
          PROVE  \/ r \in Local /\ requests'[r].pc \in {"waiting", "dispatch", "answered"}
                 \/ r \notin Local /\ requests'[r] = requests[r]
      <3>1. CASE r \in Local
        <4>1. requests'[r] = L!Joined(r, source[r], Remote) /\ source[r] \in Urls
          BY <2>2, <3>1
        <4> QED BY <1>2, <3>1, <4>1
      <3>2. CASE r \notin Local
        BY <2>2, <3>2
      <3> QED BY <3>1, <3>2
    <2>4. \A r \in L!Requests : Placed(r)'
      BY <1>0, <2>1, <2>3 DEF LoadGoes, Placed, L!Loading, L!Loads
    <2>5. \A r, q \in L!Requests : requests'[r].pc = "loader" /\ requests'[q].pc = "loader" => r = q
      BY <2>3 DEF LoadGoes
    <2> QED BY <2>1, <2>4, <2>5 DEF LoadGoes
  <1>8. ASSUME L!ReadServices \/ L!BuildConfigs \/ L!MergeConfigs \/ (\E b \in L!Services : L!InitService(b))
        PROVE  LoadGoes'
    <2>1. UNCHANGED <<promise, loadTimer, requests>> /\ (load' = load \/ (load' \in L!Loading /\ load' # "manifests2"))
      BY <1>8 DEF L!ReadServices, L!BuildConfigs, L!MergeConfigs, L!InitService, L!Loading, L!Loads
    <2> QED BY <2>1, LoadGoesOnBy
  <1>9. ASSUME NEW r \in Callers, L!Loaded(r) \/ L!LoadFailed(r) PROVE LoadGoes'
    <2>1. r \in L!Requests
      BY LoadNames
    <2>2. PICK rq : L!Put(r, rq) /\ rq.pc \in {"dispatch", "answered"}
      <3>1. requests[r] \in L!Request
        BY <1>0, <2>1
      <3>2. L!Loaded(r) => L!Put(r, L!Returned(r, requests[r], tenant))
        BY DEF L!Loaded
      <3>3. L!LoadFailed(r) => L!Put(r, [requests[r] EXCEPT !.pc = "answered", !.answer = L!Refusal(r)])
        BY DEF L!LoadFailed
      <3>4. [requests[r] EXCEPT !.pc = "answered", !.answer = L!Refusal(r)].pc = "answered"
        BY <3>1 DEF L!Request
      <3> QED BY <1>3, <1>9, <2>1, <3>2, <3>3, <3>4
    <2>3. requests[r].pc = "loader" /\ promise' = "resolved" /\ load' \in {"done", "failed"}
      BY <1>9 DEF L!Loaded, L!LoadFailed, L!Loader
    <2> QED BY <2>1, <2>2, <2>3, RequestGoesOn
  <1>10. ASSUME L!LoadTimeout PROVE LoadGoes'
    <2>1. promise' = "resolved" /\ UNCHANGED <<load, requests>>
      BY <1>10 DEF L!LoadTimeout
    <2> QED BY <2>1, LoadGoesOnBy
  <1>11. ASSUME UNCHANGED loadVars PROVE LoadGoes'
    BY <1>11 DEF loadVars, LoadGoes, Placed
  <1> QED BY <1>1, <1>4, <1>5, <1>6, <1>7, <1>8, <1>9, <1>10, <1>11 DEF L!Next, L!Ask, L!LoadStep

LEMMA LoadsDoNotStall == LoadInv /\ LoadGoes => L!NoLoadStalls
  <1> SUFFICES ASSUME LoadInv, LoadGoes, NEW r \in L!Requests, requests[r].pc \notin {"idle", "answered"}
               PROVE  L!NoLoadStalls
    BY DEF L!NoLoadStalls
  <1>1. /\ \A o \in L!Requests : requests[o].pc \in L!PCs
        /\ promise \in {"none", "pending", "resolved"}
    BY DEF LoadInv, LoadFacts, L!TypeOK, L!Request
  <1>2. promise # "none" /\ (promise = "pending" => loadTimer = "on")
    BY DEF LoadGoes, Placed
  <1>3. CASE promise = "resolved" /\ \E o \in L!Requests : requests[o].pc = "waiting"
    BY <1>3 DEF L!NoLoadStalls
  <1>4. CASE promise = "pending"
    BY <1>2, <1>4 DEF L!NoLoadStalls, L!Quiet
  <1>5. CASE promise = "resolved" /\ \A o \in L!Requests : requests[o].pc # "waiting"
    <2>1. L!Quiet
      BY <1>5 DEF L!Quiet
    <2>2. CASE \E o \in L!Requests : requests[o].pc = "dispatch"
      BY <2>1, <2>2 DEF L!NoLoadStalls
    <2>3. CASE \A o \in L!Requests : requests[o].pc # "dispatch"
      <3>1. requests[r].pc = "loader"
        BY <1>1, <1>5, <2>3 DEF L!PCs
      <3>2. r \in Callers /\ L!Loader(r) /\ load \in L!Loading
        BY <3>1 DEF LoadGoes, Placed, L!Loader
      <3>3. load = "manifests2" => \A l \in Local : requests[l].pc = "answered"
        BY <1>5, <2>3, LoadNames DEF LoadGoes, Placed
      <3> QED BY <2>1, <3>2, <3>3 DEF L!NoLoadStalls, L!LoadGoesOn, L!MayFail
    <2> QED BY <2>2, <2>3
  <1> QED BY <1>1, <1>2, <1>3, <1>4, <1>5

-----------------------------------------------------------------------------
(* Timers *)

LEMMA InitTimer == T!Init => T!TypeOK
  <1> SUFFICES ASSUME T!Init PROVE T!TypeOK
    OBVIOUS
  <1>1. count \in 0..MaxTicks /\ changes \in 0..MaxChanges
    BY TimerConstants DEF T!Init
  <1> QED BY <1>1 DEF T!Init, T!TypeOK

LEMMA TimerStep == T!TypeOK /\ [T!Next]_timerVars => T!TypeOK'
  <1> SUFFICES ASSUME T!TypeOK, [T!Next]_timerVars PROVE T!TypeOK'
    OBVIOUS
  <1>1. T!Changes => changes' \in 0..MaxChanges
    BY TimerConstants DEF T!TypeOK, T!Changes
  <1>2. CASE T!Load
    BY <1>2 DEF T!TypeOK, T!Load
  <1>3. CASE T!Start \/ T!Pause
    BY <1>1, <1>3 DEF T!TypeOK, T!Start, T!Pause, T!State
  <1>4. CASE T!StopTimer
    BY <1>1, <1>4 DEF T!TypeOK, T!StopTimer, T!State, T!Stop
  <1>5. CASE T!Unload
    BY <1>1, <1>5 DEF T!TypeOK, T!Unload, T!Stop
  <1>6. CASE T!Fire
    BY <1>6, TimerConstants DEF T!TypeOK, T!Fire
  <1>7. CASE T!Answered
    BY <1>7 DEF T!TypeOK, T!Answered
  <1>8. ASSUME NEW s \in Specs, T!Put(s) PROVE T!TypeOK'
    BY <1>1, <1>8 DEF T!TypeOK, T!Put, T!SetConfig, T!Stop
  <1>9. CASE UNCHANGED timerVars
    BY <1>9 DEF T!TypeOK, timerVars
  <1> QED BY <1>2, <1>3, <1>4, <1>5, <1>6, <1>7, <1>8, <1>9 DEF T!Next

-----------------------------------------------------------------------------
(* Pipelines.  A message is somewhere in the pipelines it is in: at an element, or at the end   *)
(* of the innermost, and at the sub-pipelines it entered in the others.                         *)

Elements(p) == Len(Body[p])

FrameOK(f) ==
    /\ f = [pipe |-> f.pipe, pos |-> f.pos, below |-> f.below, by |-> f.by]
    /\ f.pipe \in DOMAIN Body /\ f.below \in BOOLEAN /\ f.pos \in 1..Elements(f.pipe) + 1
    /\ f.pos <= Elements(f.pipe) => Body[f.pipe][f.pos].kind # "mode"

AtOK(at) ==
    /\ \E Item : at \in Seq(Item)
    /\ Len(at) > 0
    /\ \A d \in 1..Len(at) : FrameOK(at[d])
    /\ \A d \in 1..Len(at) - 1 : at[d].pos <= Elements(at[d].pipe)

Inside(at) == at[Len(at)].pos <= Elements(at[Len(at)].pipe)
KindAt(at) == Body[at[Len(at)].pipe][at[Len(at)].pos].kind

\* The element at which a message waits in a phase.
WaitsAt == [sent |-> "step", running |-> "step", lost |-> "step", held |-> "split", teed |-> "sub", kept |-> "join"]

Fields(at, status, masked, body, over, phase) ==
    /\ AtOK(at) /\ (phase # "ready" => Inside(at) /\ KindAt(at) = WaitsAt[phase])
    /\ status \in {"ok", "error"} /\ body \in {"data", "text", "none", "null"} /\ over \in BOOLEAN
    /\ masked \in BOOLEAN /\ (masked => status = "ok")
    /\ phase \in {"ready", "sent", "running", "held", "lost", "teed", "kept"}

MessageOK(t) ==
    /\ t = [at |-> t.at, base |-> t.base, trace |-> t.trace, status |-> t.status, masked |-> t.masked,
            body |-> t.body, ended |-> t.ended, phase |-> t.phase]
    /\ Fields(t.at, t.status, t.masked, t.body, t.ended, t.phase)

OutputsOK == (\E Item : outputs \in Seq(Item)) /\ \A i \in DOMAIN outputs : MessageOK(outputs[i])

PipelineInv ==
    /\ main \in DOMAIN Body /\ size \in 0..2
    /\ OutputsOK /\ \A t \in messages : MessageOK(t)
    /\ IsFiniteSet(P!Running) /\ Cardinality(P!Running) <= Limit
    /\ \A k \in DOMAIN joins : joins[k].closed \in BOOLEAN

LEMMA PipelinesAre ==
    /\ \A p \in DOMAIN Body : /\ Body[p] # <<>> /\ Elements(p) \in Nat \ {0} /\ DOMAIN Body[p] = 1..Elements(p)
                              /\ \A i \in 1..Elements(p) :
                                   /\ Body[p][i].kind \in {"step", "transform", "split", "join", "sub", "mode"}
                                   /\ Body[p][i].kind = "step" => /\ Body[p][i].try \in BOOLEAN
                                                                  /\ Body[p][i].assign \in BOOLEAN
                                                                  /\ Body[p][i].many \in BOOLEAN
                                   /\ Body[p][i].kind = "sub" => Body[p][i].of \in DOMAIN Body
                                   /\ Body[p][i].kind = "mode" => Body[p][i].mode \in P!ModeSpecs
    /\ \A c \in Cases : c.main \in DOMAIN Body /\ c.size \in 0..2
    /\ Limit \in Nat
  BY PipelineConstants DEF P!PipelineConstants, Elements

\* Both are that of FiniteSets.
LEMMA SameCount == \A S : P!Cardinality(S) = Cardinality(S)
  BY DEF P!Cardinality, Cardinality

\* The next stage is an element, or the end.
LEMMA StageIn ==
    ASSUME NEW p \in DOMAIN Body, NEW i \in 1..Elements(p) + 1
    PROVE  /\ P!Stage(p, i) \in i..Elements(p) + 1 /\ P!Stage(p, i) \in 1..Elements(p) + 1
           /\ P!Stage(p, i) <= Elements(p) => Body[p][P!Stage(p, i)].kind # "mode"
  <1> DEFINE S == {j \in i..Elements(p) + 1 : j = Elements(p) + 1 \/ Body[p][j].kind # "mode"}
             IsStage(j) == /\ \A k \in i..j - 1 : Body[p][k].kind = "mode"
                           /\ j <= Elements(p) => Body[p][j].kind # "mode"
  <1>1. Elements(p) \in Nat /\ i \in Nat /\ i >= 1
    BY PipelinesAre
  <1>2. PICK m \in S : \A j \in S : m <= j
    <2>1. S \in SUBSET Nat /\ Elements(p) + 1 \in S
      BY <1>1
    <2> QED BY <2>1, LeastOf
  <1>3. IsStage(m) /\ m \in i..Elements(p) + 1
    <2>1. ASSUME NEW k \in i..m - 1 PROVE Body[p][k].kind = "mode"
      <3>1. k \notin S /\ k \in i..Elements(p) + 1
        BY <1>1, <1>2
      <3> QED BY <3>1
    <2>2. m <= Elements(p) => Body[p][m].kind # "mode"
      BY <1>1, <1>2
    <2> QED BY <1>2, <2>1, <2>2
  <1>4. P!Stage(p, i) = CHOOSE j \in i..Elements(p) + 1 : IsStage(j)
    BY DEF P!Stage, Elements
  <1> HIDE DEF IsStage
  <1>5. P!Stage(p, i) \in i..Elements(p) + 1 /\ IsStage(P!Stage(p, i))
    BY <1>3, <1>4
  <1> QED BY <1>1, <1>5 DEF IsStage

\* The mode of each element is a mode.
LEMMA ModeAfterIs ==
    ASSUME NEW p \in DOMAIN Body, NEW below \in BOOLEAN, NEW i \in 0..Elements(p)
    PROVE  P!ModeAfter(p, below, i) \in P!ModeSpecs
  <1> DEFINE kind(j) == Body[p][j].kind
             Last(j) == (j > 0 => kind(j) = "mode") /\ \A k \in j + 1..i : kind(k) # "mode"
             S == {n \in 0..i : n = i \/ kind(i - n) = "mode"}
             from == CHOOSE j \in 0..i : Last(j)
             mode == IF from > 0 THEN Body[p][from].mode ELSE IF below THEN P!ParallelMode ELSE P!SerialMode
             try == \E k \in from + 1..i : kind(k) = "step" /\ Body[p][k].try
  <1>1. Elements(p) \in Nat /\ i \in Nat /\ i <= Elements(p)
    BY PipelinesAre
  <1>2. PICK m \in S : \A j \in S : m <= j
    <2>1. S \in SUBSET Nat /\ i \in S
      BY <1>1
    <2> QED BY <2>1, LeastOf
  <1>3. i - m \in 0..i /\ Last(i - m)
    <2>1. ASSUME NEW k \in (i - m) + 1..i PROVE kind(k) # "mode"
      <3>1. i - k \notin S /\ i - k \in 0..i /\ i - (i - k) = k
        BY <1>1, <1>2
      <3> QED BY <3>1
    <2>2. i - m > 0 => kind(i - m) = "mode"
      BY <1>1, <1>2
    <2> QED BY <1>1, <1>2, <2>1, <2>2
  <1>4. P!ModeAfter(p, below, i) = IF ~mode.par /\ try THEN P!Conditional ELSE mode
    BY DEF P!ModeAfter
  <1>5. from \in 0..i /\ (from > 0 => kind(from) = "mode")
    <2> HIDE DEF Last
    <2>1. from \in 0..i /\ Last(from)
      BY <1>3
    <2> QED BY <2>1 DEF Last
  <1> HIDE DEF from
  <1>6. mode \in P!ModeSpecs
    <2>1. from > 0 => from \in 1..Elements(p)
      BY <1>1, <1>5
    <2>2. P!ParallelMode \in P!ModeSpecs /\ P!SerialMode \in P!ModeSpecs
      BY DEF P!ParallelMode, P!SerialMode, P!ModeSpecs
    <2> QED BY <1>5, <2>1, <2>2, PipelinesAre
  <1>7. P!Conditional \in P!ModeSpecs
    BY DEF P!Conditional, P!SerialMode, P!ModeSpecs
  <1> HIDE DEF mode, try
  <1> QED BY <1>4, <1>6, <1>7

LEMMA ModesAre ==
    ASSUME NEW p \in DOMAIN Body, NEW below \in BOOLEAN
    PROVE  /\ \A i \in 1..Elements(p) + 1 : P!Modes[p][below][i] \in P!ModeSpecs
           /\ P!LastMode(p, below) \in P!ModeSpecs /\ P!Branches[p][below] \in BOOLEAN
  <1>1. Elements(p) \in Nat /\ Elements(p) > 0
    BY PipelinesAre
  <1>2. ASSUME NEW i \in 1..Elements(p) + 1 PROVE P!Modes[p][below][i] \in P!ModeSpecs
    <2>1. i - 1 \in 0..Elements(p)
      BY <1>1
    <2>2. P!Modes[p][below][i] = P!ModeAfter(p, below, i - 1)
      BY DEF P!Modes, Elements
    <2> QED BY <2>1, <2>2, ModeAfterIs
  <1>3. P!LastMode(p, below) \in P!ModeSpecs
    BY <1>1, <1>2 DEF P!LastMode, Elements
  <1>4. P!Branches[p][below] = P!Modes[p][below][IF Body[p][1].kind = "mode" THEN 2 ELSE 1].par
    BY DEF P!Branches
  <1>5. 1 \in 1..Elements(p) + 1 /\ 2 \in 1..Elements(p) + 1
    BY <1>1
  <1>6. P!Branches[p][below] \in BOOLEAN
    BY <1>2, <1>4, <1>5 DEF P!ModeSpecs
  <1> QED BY <1>2, <1>3, <1>6

-----------------------------------------------------------------------------

LEMMA AtFacts ==
    ASSUME NEW at, AtOK(at)
    PROVE  /\ Len(at) \in Nat \ {0} /\ DOMAIN at = 1..Len(at) /\ Len(at) \in 1..Len(at)
           /\ FrameOK(at[Len(at)])
  <1>1. Len(at) \in Nat \ {0} /\ DOMAIN at = 1..Len(at)
    BY DEF AtOK
  <1> QED BY <1>1 DEF AtOK

\* A message moves on in the innermost pipeline, enters one, and leaves it.
LEMMA AtMoves ==
    ASSUME NEW at, AtOK(at), NEW pos \in 1..Elements(at[Len(at)].pipe) + 1,
           pos <= Elements(at[Len(at)].pipe) => Body[at[Len(at)].pipe][pos].kind # "mode"
    PROVE  LET q == [at EXCEPT ![Len(at)].pos = pos] IN
           /\ AtOK(q) /\ Len(q) = Len(at) /\ q[Len(q)] = [at[Len(at)] EXCEPT !.pos = pos]
           /\ q[Len(q)].pos = pos /\ \A d \in 1..Len(at) - 1 : q[d] = at[d]
  <1> DEFINE n == Len(at)
             f == [at[n] EXCEPT !.pos = pos]
             q == [at EXCEPT ![n].pos = pos]
  <1>1. n \in Nat \ {0} /\ DOMAIN at = 1..n /\ n \in 1..n /\ FrameOK(at[n])
    BY AtFacts
  <1>2. FrameOK(f)
    BY <1>1 DEF FrameOK
  <1>3. q = [at EXCEPT ![n] = f]
    OBVIOUS
  <1> HIDE DEF f
  <1>4. PICK Item : at \in Seq(Item)
    BY DEF AtOK
  <1>5. q \in Seq(Item \cup {f}) /\ Len(q) = n /\ q[n] = f /\ \A d \in 1..n : d # n => q[d] = at[d]
    BY <1>1, <1>3, <1>4
  <1>6. \A d \in 1..n : FrameOK(q[d])
    BY <1>2, <1>5 DEF AtOK
  <1>7. \A d \in 1..n - 1 : q[d] = at[d] /\ at[d].pos <= Elements(at[d].pipe)
    BY <1>1, <1>5 DEF AtOK
  <1> HIDE DEF q
  <1>8. AtOK(q)
    BY <1>1, <1>5, <1>6, <1>7 DEF AtOK
  <1>9. f.pos = pos
    BY <1>1 DEF FrameOK, f
  <1>10. \A d \in 1..n - 1 : q[d] = at[d]
    BY <1>7
  <1> QED BY <1>5, <1>8, <1>9, <1>10 DEF q, f

LEMMA AtEnters ==
    ASSUME NEW at, AtOK(at), Inside(at), NEW f, FrameOK(f)
    PROVE  /\ AtOK(Append(at, f)) /\ Len(Append(at, f)) = Len(at) + 1 /\ Append(at, f)[Len(at) + 1] = f
           /\ \A d \in 1..Len(at) : Append(at, f)[d] = at[d]
  <1> DEFINE n == Len(at)
             q == Append(at, f)
  <1>1. n \in Nat \ {0} /\ DOMAIN at = 1..n /\ n \in 1..n /\ FrameOK(at[n])
    BY AtFacts
  <1>2. PICK Item : at \in Seq(Item)
    BY DEF AtOK
  <1>3. at \in Seq(Item \cup {f}) /\ f \in Item \cup {f}
    BY <1>1, <1>2
  <1>4. q \in Seq(Item \cup {f}) /\ Len(q) = n + 1 /\ q[n + 1] = f /\ \A d \in 1..n : q[d] = at[d]
    BY <1>3
  <1>5. \A d \in 1..n + 1 : FrameOK(q[d])
    BY <1>1, <1>4 DEF AtOK
  <1>6. \A d \in 1..n : q[d].pos <= Elements(q[d].pipe)
    BY <1>1, <1>4 DEF AtOK, Inside
  <1> HIDE DEF q
  <1>7. AtOK(q)
    BY <1>1, <1>4, <1>5, <1>6 DEF AtOK
  <1> QED BY <1>4, <1>7 DEF q

LEMMA AtLeaves ==
    ASSUME NEW at, AtOK(at), Len(at) > 1
    PROVE  LET q == SubSeq(at, 1, Len(at) - 1) IN
           AtOK(q) /\ Inside(q) /\ Len(q) = Len(at) - 1 /\ \A d \in 1..Len(at) - 1 : q[d] = at[d]
  <1> DEFINE n == Len(at)
             q == SubSeq(at, 1, n - 1)
  <1>1. n \in Nat \ {0} /\ DOMAIN at = 1..n /\ n - 1 \in 1..n - 1
    BY AtFacts
  <1>2. PICK Item : at \in Seq(Item)
    BY DEF AtOK
  <1>3. q \in Seq(Item) /\ Len(q) = n - 1 /\ \A d \in 1..n - 1 : q[d] = at[d]
    BY <1>1, <1>2, SubSeqProperties
  <1>4. \A d \in 1..n - 1 : FrameOK(q[d]) /\ q[d].pos <= Elements(q[d].pipe)
    BY <1>1, <1>3 DEF AtOK
  <1> HIDE DEF q
  <1>5. AtOK(q)
    BY <1>1, <1>3, <1>4 DEF AtOK
  <1>6. Inside(q)
    BY <1>1, <1>3, <1>4 DEF Inside
  <1> QED BY <1>3, <1>5, <1>6 DEF q

-----------------------------------------------------------------------------
(* The order of places.  Messages go on in it: an element further, or into a sub-pipeline. *)

Positions(at) == [d \in 1..Len(at) |-> at[d].pos]

PlaceBefore(a, b) ==
    \E n \in 1..Len(b) : n - 1 <= Len(a) /\ (\A i \in 1..n - 1 : a[i] = b[i]) /\ (n <= Len(a) => a[n] < b[n])

LEMMA PositionsAre ==
    ASSUME NEW at, AtOK(at)
    PROVE  /\ Positions(at) \in Seq(Nat) /\ Len(Positions(at)) = Len(at) /\ Len(at) \in Nat \ {0}
           /\ \A d \in 1..Len(at) : Positions(at)[d] = at[d].pos /\ at[d].pos \in Nat
  <1>1. Len(at) \in Nat \ {0}
    BY AtFacts
  <1>2. ASSUME NEW d \in 1..Len(at) PROVE at[d].pos \in Nat
    <2>1. at[d].pipe \in DOMAIN Body /\ at[d].pos \in 1..Elements(at[d].pipe) + 1
      BY DEF AtOK, FrameOK
    <2>2. Elements(at[d].pipe) \in Nat
      BY <2>1, PipelinesAre
    <2> QED BY <2>1, <2>2
  <1>3. Positions(at) \in [1..Len(at) -> Nat]
    BY <1>2 DEF Positions
  <1> QED BY <1>1, <1>2, <1>3 DEF Positions

LEMMA OrderOfPlaces ==
    ASSUME NEW a \in Seq(Nat), NEW b \in Seq(Nat), NEW c \in Seq(Nat), PlaceBefore(a, b), PlaceBefore(b, c)
    PROVE  PlaceBefore(a, c)
  <1>1. PICK n \in 1..Len(b) : n - 1 <= Len(a) /\ (\A i \in 1..n - 1 : a[i] = b[i]) /\ (n <= Len(a) => a[n] < b[n])
    BY DEF PlaceBefore
  <1>2. PICK m \in 1..Len(c) : m - 1 <= Len(b) /\ (\A i \in 1..m - 1 : b[i] = c[i]) /\ (m <= Len(b) => b[m] < c[m])
    BY DEF PlaceBefore
  <1>3. Len(a) \in Nat /\ Len(b) \in Nat /\ Len(c) \in Nat
    OBVIOUS
  <1>4. CASE n <= m
    <2>1. n \in 1..Len(c) /\ n - 1 <= Len(a)
      BY <1>1, <1>2, <1>3, <1>4
    <2>2. \A i \in 1..n - 1 : a[i] = c[i]
      BY <1>1, <1>2, <1>3, <1>4
    <2>3. ASSUME n <= Len(a) PROVE a[n] < c[n]
      <3>1. a[n] < b[n] /\ n \in 1..Len(a) /\ n \in 1..Len(b) /\ n \in 1..Len(c)
        BY <1>1, <1>3, <2>1, <2>3
      <3>2. a[n] \in Nat /\ b[n] \in Nat /\ c[n] \in Nat
        <4>1. a[n] \in Nat
          BY <3>1
        <4>2. b[n] \in Nat
          BY <3>1
        <4>3. c[n] \in Nat
          BY <3>1, SMTT(20)
        <4> QED BY <4>1, <4>2, <4>3
      <3>3. CASE n = m
        BY <1>2, <3>1, <3>2, <3>3, SMTT(20)
      <3>4. CASE n < m
        <4>1. n \in 1..m - 1
          BY <1>2, <1>3, <3>1, <3>4
        <4> QED BY <1>2, <3>1, <4>1
      <3> QED BY <1>2, <1>3, <1>4, <3>1, <3>3, <3>4
    <2> QED BY <2>1, <2>2, <2>3 DEF PlaceBefore
  <1>5. CASE m < n
    <2>1. m - 1 <= Len(a) /\ m \in 1..n - 1 /\ m <= Len(b)
      BY <1>1, <1>2, <1>3, <1>5, SMTT(20)
    <2>2. \A i \in 1..m - 1 : a[i] = c[i]
      BY <1>1, <1>2, <1>3, <1>5
    <2>3. a[m] < c[m]
      BY <1>1, <1>2, <2>1
    <2> QED BY <2>1, <2>2, <2>3 DEF PlaceBefore
  <1> QED BY <1>3, <1>4, <1>5

LEMMA NotBeforeItself == ASSUME NEW a \in Seq(Nat) PROVE ~PlaceBefore(a, a)
  BY DEF PlaceBefore

\* An element further, from where it is or from where it came into the pipeline.
LEMMA Further ==
    ASSUME NEW at, AtOK(at), NEW q, AtOK(q), Len(q) <= Len(at),
           \A d \in 1..Len(q) - 1 : q[d] = at[d], q[Len(q)].pos > at[Len(q)].pos
    PROVE  PlaceBefore(Positions(at), Positions(q))
  <1>1. /\ Len(Positions(at)) = Len(at) /\ Len(Positions(q)) = Len(q)
        /\ Len(at) \in Nat /\ Len(q) \in Nat \ {0} /\ Len(q) \in 1..Len(q)
        /\ \A d \in 1..Len(at) : Positions(at)[d] = at[d].pos
        /\ \A d \in 1..Len(q) : Positions(q)[d] = q[d].pos
    BY PositionsAre
  <1>2. \A i \in 1..Len(q) - 1 : Positions(at)[i] = Positions(q)[i]
    BY <1>1
  <1>3. Positions(at)[Len(q)] < Positions(q)[Len(q)]
    <2>1. at[Len(q)].pos \in Nat /\ q[Len(q)].pos \in Nat
      BY <1>1, PositionsAre
    <2> QED BY <1>1, <2>1
  <1> QED BY <1>1, <1>2, <1>3 DEF PlaceBefore

LEMMA Deeper ==
    ASSUME NEW at, AtOK(at), NEW q, AtOK(q), Len(q) = Len(at) + 1, \A d \in 1..Len(at) : q[d] = at[d]
    PROVE  PlaceBefore(Positions(at), Positions(q))
  <1>1. /\ Len(Positions(at)) = Len(at) /\ Len(Positions(q)) = Len(q) /\ Len(at) \in Nat /\ Len(q) \in Nat
        /\ \A d \in 1..Len(at) : Positions(at)[d] = at[d].pos
        /\ \A d \in 1..Len(q) : Positions(q)[d] = q[d].pos
    BY PositionsAre
  <1>2. Len(q) \in 1..Len(q) /\ Len(q) - 1 <= Len(at) /\ ~(Len(q) <= Len(at))
    BY <1>1
  <1>3. \A i \in 1..Len(q) - 1 : Positions(at)[i] = Positions(q)[i]
    BY <1>1
  <1> QED BY <1>1, <1>2, <1>3 DEF PlaceBefore

\* What was done to u is told as it was of t, and it is where t was, or further.
Follows(t, u) ==
    u.base = t.base /\ (u.at = t.at \/ PlaceBefore(Positions(t.at), Positions(u.at)))

-----------------------------------------------------------------------------
(* What elements make of a message. *)

LEMMA PlaceOf ==
    ASSUME NEW t, MessageOK(t)
    PROVE  /\ AtOK(t.at) /\ P!Frame(t) = t.at[Len(t.at)] /\ FrameOK(P!Frame(t))
           /\ P!Finished(t) <=> ~Inside(t.at)
           /\ P!Parallel(P!Frame(t)) \in BOOLEAN
           /\ P!Frame(t).pipe \in DOMAIN Body /\ P!Frame(t).below \in BOOLEAN
           /\ P!Frame(t).pos \in 1..Elements(P!Frame(t).pipe) + 1 /\ Elements(P!Frame(t).pipe) \in Nat
           /\ P!Mode(t) \in P!ModeSpecs
  <1>1. AtOK(t.at) /\ P!Frame(t) = t.at[Len(t.at)]
    BY DEF MessageOK, Fields, P!Frame
  <1>2. FrameOK(P!Frame(t))
    BY <1>1, AtFacts
  <1> DEFINE f == P!Frame(t)
  <1>3. f.pipe \in DOMAIN Body /\ f.below \in BOOLEAN /\ f.pos \in 1..Elements(f.pipe) + 1
    BY <1>2 DEF FrameOK
  <1>4. Elements(f.pipe) \in Nat
    BY <1>3, PipelinesAre
  <1>5. P!Finished(t) <=> ~Inside(t.at)
    BY <1>1, <1>3, <1>4 DEF P!Finished, Inside, Elements
  <1>6. P!Parallel(f) \in BOOLEAN
    BY <1>3, ModesAre DEF P!Parallel
  <1>7. P!Mode(t) \in P!ModeSpecs
    <2>1. P!ParallelMode \in P!ModeSpecs
      BY DEF P!ParallelMode, P!SerialMode, P!ModeSpecs
    <2> QED BY <1>3, <2>1, ModesAre DEF P!Mode
  <1> QED BY <1>1, <1>2, <1>3, <1>4, <1>5, <1>6, <1>7

\* Onward is where it was, at the next stage or the end.
LEMMA OnwardIs ==
    ASSUME NEW t, MessageOK(t), ~P!Finished(t)
    PROVE  LET u == P!Onward(t) IN
           /\ MessageOK(u) /\ u.phase = "ready" /\ Len(u.at) = Len(t.at)
           /\ u.at[Len(t.at)].pos > t.at[Len(t.at)].pos /\ \A d \in 1..Len(t.at) - 1 : u.at[d] = t.at[d]
           /\ u.base = t.base /\ u.trace = t.trace /\ u.status = t.status /\ u.masked = t.masked
           /\ u.body = t.body /\ u.ended = t.ended
  <1> DEFINE f == P!Frame(t)
             pos == IF P!Parallel(f) THEN Len(Body[f.pipe]) + 1 ELSE P!Stage(f.pipe, f.pos + 1)
             q == [t.at EXCEPT ![Len(t.at)].pos = pos]
  <1>1. /\ AtOK(t.at) /\ f = t.at[Len(t.at)] /\ f.pipe \in DOMAIN Body
        /\ f.pos \in 1..Elements(f.pipe) + 1 /\ Elements(f.pipe) \in Nat
    BY PlaceOf
  <1>2. f.pos + 1 \in 1..Elements(f.pipe) + 1
    BY <1>1, PlaceOf DEF Inside
  <1>3. /\ pos \in 1..Elements(f.pipe) + 1 /\ pos > f.pos
        /\ pos <= Elements(f.pipe) => Body[f.pipe][pos].kind # "mode"
    <2>1. CASE P!Parallel(f)
      <3>1. pos = Elements(f.pipe) + 1
        BY <2>1 DEF Elements
      <3> HIDE DEF pos, f
      <3> QED BY <1>1, <1>2, <3>1
    <2>2. CASE ~P!Parallel(f)
      <3>1. /\ P!Stage(f.pipe, f.pos + 1) \in 1..Elements(f.pipe) + 1
            /\ P!Stage(f.pipe, f.pos + 1) \in f.pos + 1..Elements(f.pipe) + 1
            /\ P!Stage(f.pipe, f.pos + 1) <= Elements(f.pipe) =>
                    Body[f.pipe][P!Stage(f.pipe, f.pos + 1)].kind # "mode"
        BY <1>1, <1>2, StageIn
      <3> QED BY <1>1, <2>2, <3>1
    <2> QED BY <2>1, <2>2
  <1>4. P!Onward(t) = [t EXCEPT !.phase = "ready", !.at = q]
    BY DEF P!Onward, MessageOK
  <1> HIDE DEF pos, f
  <1>5. /\ AtOK(q) /\ Len(q) = Len(t.at) /\ q[Len(q)].pos = pos
        /\ \A d \in 1..Len(t.at) - 1 : q[d] = t.at[d]
    <2>1. /\ pos \in 1..Elements(t.at[Len(t.at)].pipe) + 1
          /\ pos <= Elements(t.at[Len(t.at)].pipe) => Body[t.at[Len(t.at)].pipe][pos].kind # "mode"
      BY <1>1, <1>3
    <2> HIDE DEF q
    <2>2. /\ AtOK([t.at EXCEPT ![Len(t.at)].pos = pos]) /\ Len([t.at EXCEPT ![Len(t.at)].pos = pos]) = Len(t.at)
          /\ [t.at EXCEPT ![Len(t.at)].pos = pos][Len([t.at EXCEPT ![Len(t.at)].pos = pos])].pos = pos
          /\ \A d \in 1..Len(t.at) - 1 : [t.at EXCEPT ![Len(t.at)].pos = pos][d] = t.at[d]
      BY <1>1, <2>1, AtMoves
    <2> QED BY <2>2 DEF q
  <1> HIDE DEF q
  <1>6. P!Onward(t) = [at |-> q, base |-> t.base, trace |-> t.trace, status |-> t.status, masked |-> t.masked,
                       body |-> t.body, ended |-> t.ended, phase |-> "ready"]
    BY <1>4 DEF MessageOK
  <1>7. Fields(q, t.status, t.masked, t.body, t.ended, "ready")
    BY <1>5 DEF MessageOK, Fields
  <1> QED BY <1>1, <1>3, <1>5, <1>6, <1>7 DEF MessageOK

LEMMA OnwardFollows ==
    ASSUME NEW t, MessageOK(t), ~P!Finished(t)
    PROVE  Follows(t, P!Onward(t))
  <1>1. AtOK(t.at) /\ AtOK(P!Onward(t).at) /\ Len(t.at) \in Nat
    BY OnwardIs, PlaceOf, AtFacts
  <1> DEFINE q == P!Onward(t).at
  <1>2. Len(q) = Len(t.at) /\ q[Len(t.at)].pos > t.at[Len(t.at)].pos /\ \A d \in 1..Len(t.at) - 1 : q[d] = t.at[d]
    BY OnwardIs
  <1>3. AtOK(q)
    BY <1>1
  <1> HIDE DEF q
  <1>4. Len(q) <= Len(t.at) /\ q[Len(q)].pos > t.at[Len(q)].pos /\ \A d \in 1..Len(q) - 1 : q[d] = t.at[d]
    BY <1>1, <1>2
  <1>5. PlaceBefore(Positions(t.at), Positions(q))
    BY <1>1, <1>3, <1>4, Further
  <1> QED BY <1>5, OnwardIs DEF Follows, q

\* What steps and transforms put in the place of a message, and items of a list.
Waits(u) == MessageOK(u) /\ u.phase \notin {"running", "kept"}
AllFollow(t, ts) == \A u \in ts : Waits(u) /\ Follows(t, u)

\* A message of the place of another is followed by what follows that.
LEMMA SamePlace ==
    ASSUME NEW t, NEW u, NEW v, u.at = t.at, u.base = t.base, Follows(u, v)
    PROVE  Follows(t, v)
  BY DEF Follows

LEMMA FiniteImage ==
    ASSUME NEW S, IsFiniteSet(S), NEW f, DOMAIN f = S
    PROVE  IsFiniteSet({f[x] : x \in S})
  <1> DEFINE image == {f[x] : x \in S}
             g == [x \in S |-> f[x]]
  <1>1. g \in Surjection(S, image)
    BY DEF Surjection
  <1> QED BY <1>1, FS_Surjection

LEMMA PairIsFinite == ASSUME NEW a, NEW b PROVE IsFiniteSet({a, b})
  <1>1. IsFiniteSet({a} \cup {b})
    BY FS_Singleton, FS_Union
  <1>2. {a, b} = {a} \cup {b}
    OBVIOUS
  <1> QED BY <1>1, <1>2

\* The elements of a pipeline that are stages.
LEMMA FewStages ==
    ASSUME NEW p \in DOMAIN Body
    PROVE  IsFiniteSet({j \in DOMAIN Body[p] : Body[p][j].kind # "mode"})
  <1>1. Elements(p) \in Int /\ 1 \in Int /\ DOMAIN Body[p] = 1..Elements(p)
    BY PipelinesAre
  <1>2. IsFiniteSet(DOMAIN Body[p])
    BY <1>1, FS_Interval
  <1> QED BY <1>2, FS_Subset

LEMMA OnFailIs ==
    ASSUME NEW t, MessageOK(t), ~P!Finished(t), NEW mode \in P!ModeSpecs
    PROVE  AllFollow(t, P!OnFail(t, mode)) /\ IsFiniteSet(P!OnFail(t, mode))
  <1>1. MessageOK(P!Onward(t)) /\ P!Onward(t).phase = "ready" /\ Follows(t, P!Onward(t))
    BY OnwardIs, OnwardFollows
  <1> DEFINE o == P!Onward(t)
             u == [o EXCEPT !.ended = TRUE]
  <1>2. P!OnFail(t, mode) \subseteq {o, u}
    <2>1. mode.fail \in {"stop", "next", "end"}
      BY DEF P!ModeSpecs
    <2> QED BY <2>1 DEF P!OnFail
  <1>0. MessageOK(o) /\ o.phase = "ready" /\ Follows(t, o)
    BY <1>1
  <1>6. u = [o EXCEPT !.ended = TRUE]
    OBVIOUS
  <1> HIDE DEF o, u
  <1>3. u = [at |-> o.at, base |-> o.base, trace |-> o.trace, status |-> o.status, masked |-> o.masked,
             body |-> o.body, ended |-> TRUE, phase |-> o.phase]
    BY <1>0, <1>6 DEF MessageOK
  <1>4. MessageOK(u) /\ u.phase = "ready" /\ Follows(t, u)
    BY <1>0, <1>3 DEF MessageOK, Fields, Follows
  <1>5. AllFollow(t, P!OnFail(t, mode))
    BY <1>0, <1>2, <1>4 DEF AllFollow, Waits
  <1>7. IsFiniteSet(P!OnFail(t, mode))
    <2>1. IsFiniteSet({o, u})
      BY PairIsFinite
    <2> QED BY <1>2, <2>1, FS_Subset
  <1> QED BY <1>5, <1>7

LEMMA OnSuccessIs ==
    ASSUME NEW t, MessageOK(t), ~P!Finished(t), NEW mode \in P!ModeSpecs, NEW single \in BOOLEAN
    PROVE  /\ Waits(P!OnSuccess(t, mode, single)) /\ Follows(t, P!OnSuccess(t, mode, single))
           /\ P!OnSuccess(t, mode, single).at = P!Onward(t).at
           /\ P!OnSuccess(t, mode, single).base = P!Onward(t).base
  <1> DEFINE o == P!Onward(t)
             over == mode.succeed = "end" \/ (single /\ ~mode.par /\ t.status = "error")
             u == P!OnSuccess(t, mode, single)
  <1>1. MessageOK(o) /\ o.phase = "ready" /\ Follows(t, o)
    BY OnwardIs, OnwardFollows
  <1>2. u = [o EXCEPT !.ended = over]
    BY DEF P!OnSuccess
  <1>3. over \in BOOLEAN
    OBVIOUS
  <1> HIDE DEF o, over
  <1>4. u = [at |-> o.at, base |-> o.base, trace |-> o.trace, status |-> o.status, masked |-> o.masked,
             body |-> o.body, ended |-> over, phase |-> o.phase]
    BY <1>1, <1>2 DEF MessageOK
  <1> HIDE DEF u
  <1>5. Waits(u) /\ Follows(t, u) /\ u.at = o.at /\ u.base = o.base
    BY <1>1, <1>3, <1>4 DEF MessageOK, Fields, Waits, Follows
  <1> QED BY <1>5 DEF u, o

\* In another phase.
LEMMA Phased ==
    ASSUME NEW t, MessageOK(t), ~P!Finished(t), NEW phase \in {"sent", "running", "held", "lost", "teed", "kept"},
           P!Here(t).kind = WaitsAt[phase]
    PROVE  LET u == [t EXCEPT !.phase = phase] IN
           MessageOK(u) /\ u.phase = phase /\ u.at = t.at /\ u.base = t.base /\ Follows(t, u)
  <1> DEFINE u == [t EXCEPT !.phase = phase]
  <1>1. u = [at |-> t.at, base |-> t.base, trace |-> t.trace, status |-> t.status, masked |-> t.masked,
             body |-> t.body, ended |-> t.ended, phase |-> phase]
    BY DEF MessageOK
  <1>2. Inside(t.at) /\ KindAt(t.at) = WaitsAt[phase]
    BY PlaceOf DEF KindAt, P!Here
  <1> HIDE DEF u
  <1>3. Fields(t.at, t.status, t.masked, t.body, t.ended, phase)
    BY <1>2 DEF MessageOK, Fields
  <1>4. MessageOK(u) /\ u.phase = phase /\ u.at = t.at /\ u.base = t.base
    BY <1>1, <1>3 DEF MessageOK
  <1> QED BY <1>4 DEF Follows, u

LEMMA ItemsAre ==
    ASSUME NEW t, MessageOK(t), NEW n, NEW u \in P!Items(t, n)
    PROVE  MessageOK(u) /\ u.phase = t.phase /\ u.at = t.at /\ u.base = t.base
  <1>1. CASE u = [t EXCEPT !.body = "null"]
    <2>1. u = [at |-> t.at, base |-> t.base, trace |-> t.trace, status |-> t.status, masked |-> t.masked,
               body |-> "null", ended |-> t.ended, phase |-> t.phase]
      BY <1>1 DEF MessageOK
    <2> QED BY <2>1 DEF MessageOK, Fields
  <1>2. ASSUME NEW i \in 1..n, u = [t EXCEPT !.trace = Append(t.trace, P!Mark[i]), !.body = "data"]
        PROVE  MessageOK(u) /\ u.phase = t.phase /\ u.at = t.at /\ u.base = t.base
    <2> DEFINE trace == Append(t.trace, P!Mark[i])
    <2> HIDE DEF trace
    <2>1. u = [at |-> t.at, base |-> t.base, trace |-> trace, status |-> t.status, masked |-> t.masked,
               body |-> "data", ended |-> t.ended, phase |-> t.phase]
      BY <1>2 DEF MessageOK, trace
    <2> QED BY <2>1 DEF MessageOK, Fields
  <1> QED BY <1>1, <1>2 DEF P!Items

LEMMA FewItems == ASSUME NEW t, NEW n \in Nat PROVE IsFiniteSet(P!Items(t, n))
  <1> DEFINE none == [t EXCEPT !.body = "null"]
             One(i) == [t EXCEPT !.trace = Append(@, P!Mark[i]), !.body = "data"]
             all == [i \in 1..n |-> One(i)]
  <1>1. IsFiniteSet({none}) /\ IsFiniteSet(1..n)
    <2>1. n \in Int /\ 1 \in Int
      OBVIOUS
    <2> HIDE DEF none
    <2> QED BY <2>1, FS_Singleton, FS_Interval
  <1>2. IsFiniteSet({all[i] : i \in 1..n})
    <2>1. DOMAIN all = 1..n
      OBVIOUS
    <2> HIDE DEF all
    <2> QED BY <1>1, <2>1, FiniteImage
  <1>3. {all[i] : i \in 1..n} = {One(i) : i \in 1..n}
    OBVIOUS
  <1>4. P!Items(t, n) = {none} \/ P!Items(t, n) = {One(i) : i \in 1..n}
    BY DEF P!Items
  <1> HIDE DEF none, One, all
  <1> QED BY <1>1, <1>2, <1>3, <1>4

\* The answer of a service, and a transform.
LEMMA AnswerIs ==
    ASSUME NEW t, MessageOK(t), ~P!Finished(t), P!Here(t).kind = "step", NEW outcome
    PROVE  LET u == P!Answer(t, outcome) IN MessageOK(u) /\ u.at = t.at /\ u.base = t.base /\ u.phase = t.phase
  <1> DEFINE step == P!Here(t)
             threw == outcome = "throws"
             assigned == step.assign /\ ~step.many /\ ~threw
             failed == outcome = "error"
             trace == Append(t.trace, step.request)
             status == IF threw \/ (failed /\ (step.many \/ ~(step.try \/ step.assign))) THEN "error" ELSE "ok"
             masked == IF assigned THEN t.masked ELSE failed /\ ~step.many /\ step.try
             body == CASE assigned /\ t.body # "none" -> t.body
                       [] outcome = "empty" -> "none"
                       [] outcome \in {"text", "throws"} -> "text"
                       [] OTHER -> "data"
             u == P!Answer(t, outcome)
  <1>1. step.try \in BOOLEAN /\ step.assign \in BOOLEAN /\ step.many \in BOOLEAN
    <2>1. P!Frame(t).pipe \in DOMAIN Body /\ P!Frame(t).pos \in 1..Elements(P!Frame(t).pipe)
      BY PlaceOf DEF Inside
    <2> QED BY <2>1, PipelinesAre DEF P!Here
  <1>2. /\ t.masked \in BOOLEAN /\ t.body \in {"data", "text", "none", "null"}
        /\ t = [at |-> t.at, base |-> t.base, trace |-> t.trace, status |-> t.status, masked |-> t.masked,
                body |-> t.body, ended |-> t.ended, phase |-> t.phase]
    BY DEF MessageOK, Fields
  <1>3. u = [t EXCEPT !.trace = trace, !.status = status, !.masked = masked, !.body = body]
    BY DEF P!Answer
  <1>9. (failed => ~threw) /\ failed \in BOOLEAN /\ threw \in BOOLEAN
    OBVIOUS
  <1> HIDE DEF step, failed, threw
  <1>4. status \in {"ok", "error"} /\ masked \in BOOLEAN /\ (masked => status = "ok")
    <2>1. status \in {"ok", "error"} /\ masked \in BOOLEAN
      BY <1>1, <1>2, <1>9
    <2>2. assigned => status = "ok"
      BY <1>1, <1>9
    <2>3. failed /\ ~step.many /\ step.try => status = "ok"
      BY <1>1, <1>9
    <2> QED BY <2>1, <2>2, <2>3
  <1>5. body \in {"data", "text", "none", "null"}
    BY <1>1, <1>2
  <1> HIDE DEF trace, status, masked, body, u
  <1>6. u = [at |-> t.at, base |-> t.base, trace |-> trace, status |-> status, masked |-> masked,
             body |-> body, ended |-> t.ended, phase |-> t.phase]
    BY <1>2, <1>3
  <1>7. Fields(t.at, status, masked, body, t.ended, t.phase)
    BY <1>4, <1>5 DEF MessageOK, Fields
  <1>8. MessageOK(u) /\ u.at = t.at /\ u.base = t.base /\ u.phase = t.phase
    BY <1>6, <1>7 DEF MessageOK
  <1> QED BY <1>8 DEF u

LEMMA TransformedIs ==
    ASSUME NEW t, MessageOK(t), ~P!Finished(t), NEW outcome
    PROVE  Waits(P!Transformed(t, outcome)) /\ Follows(t, P!Transformed(t, outcome))
  <1> DEFINE o == P!Onward(t)
             trace == Append(o.trace, P!Here(t).request)
             status == IF outcome = "error" THEN "error" ELSE o.status
             u == P!Transformed(t, outcome)
  <1>1. MessageOK(o) /\ o.phase = "ready" /\ Follows(t, o)
    BY OnwardIs, OnwardFollows
  <1>2. u = [o EXCEPT !.trace = trace, !.body = "data", !.masked = FALSE, !.status = status]
    BY OnwardIs DEF P!Transformed, MessageOK
  <1>3. status \in {"ok", "error"}
    BY <1>1 DEF MessageOK, Fields
  <1> HIDE DEF o, trace, status, u
  <1>4. u = [at |-> o.at, base |-> o.base, trace |-> trace, status |-> status, masked |-> FALSE,
             body |-> "data", ended |-> o.ended, phase |-> o.phase]
    BY <1>1, <1>2 DEF MessageOK
  <1>5. Fields(o.at, status, FALSE, "data", o.ended, "ready")
    BY <1>1, <1>3 DEF MessageOK, Fields
  <1>6. Waits(u) /\ Follows(t, u)
    BY <1>1, <1>4, <1>5 DEF MessageOK, Waits, Follows
  <1> QED BY <1>6 DEF u

\* What comes out of a joiner: the message itself, or a copy of it that is not ended.
LEMMA JoinerGives ==
    ASSUME NEW t, MessageOK(t), ~P!Finished(t), NEW base
    PROVE  /\ Waits(P!Joined(t, base)) /\ P!Joined(t, base).base = base
           /\ PlaceBefore(Positions(t.at), Positions(P!Joined(t, base).at))
  <1> DEFINE o == P!Onward(t)
             u == P!Joined(t, base)
  <1>1. MessageOK(o) /\ o.phase = "ready"
    BY OnwardIs
  <1>6. PlaceBefore(Positions(t.at), Positions(o.at))
    <2>1. AtOK(t.at) /\ AtOK(o.at) /\ Len(t.at) \in Nat
      BY OnwardIs, PlaceOf, AtFacts
    <2> QED BY <2>1, OnwardIs, Further
  <1>2. u = [o EXCEPT !.base = base, !.trace = <<>>, !.body = "data"]
    BY DEF P!Joined
  <1> HIDE DEF o, u
  <1>3. u = [at |-> o.at, base |-> base, trace |-> <<>>, status |-> o.status, masked |-> o.masked,
             body |-> "data", ended |-> o.ended, phase |-> o.phase]
    BY <1>1, <1>2 DEF MessageOK
  <1>4. Fields(o.at, o.status, o.masked, "data", o.ended, "ready")
    BY <1>1 DEF MessageOK, Fields
  <1>5. Waits(u) /\ u.base = base /\ u.at = o.at
    BY <1>1, <1>3, <1>4 DEF MessageOK, Waits
  <1> QED BY <1>5, <1>6 DEF u

OutOfJoiner(t, base) == {P!Joined(t, base), P!Joined([t EXCEPT !.ended = FALSE], base)}

LEMMA OutOfJoinerIs ==
    ASSUME NEW t, MessageOK(t), ~P!Finished(t), NEW base, NEW u \in OutOfJoiner(t, base)
    PROVE  Waits(u) /\ u.base = base /\ PlaceBefore(Positions(t.at), Positions(u.at))
  <1> DEFINE copy == [t EXCEPT !.ended = FALSE]
  <1>1. copy = [at |-> t.at, base |-> t.base, trace |-> t.trace, status |-> t.status, masked |-> t.masked,
                body |-> t.body, ended |-> FALSE, phase |-> t.phase]
    <2>1. ASSUME NEW over
          PROVE  [t EXCEPT !.ended = over] =
                    [at |-> t.at, base |-> t.base, trace |-> t.trace, status |-> t.status, masked |-> t.masked,
                     body |-> t.body, ended |-> over, phase |-> t.phase]
      BY DEF MessageOK
    <2> QED BY <2>1
  <1>2. u = P!Joined(t, base) \/ u = P!Joined(copy, base)
    BY DEF OutOfJoiner
  <1> HIDE DEF copy
  <1>3. MessageOK(copy) /\ copy.at = t.at
    BY <1>1 DEF MessageOK, Fields
  <1>4. ~P!Finished(copy)
    BY <1>3, PlaceOf
  <1>5. CASE u = P!Joined(t, base)
    BY <1>5, JoinerGives
  <1>6. CASE u = P!Joined(copy, base)
    BY <1>3, <1>4, <1>6, JoinerGives
  <1> QED BY <1>2, <1>5, <1>6

\* A message enters a sub-pipeline, and the end of a run.
LEMMA EnteredIs ==
    ASSUME NEW t, MessageOK(t), ~P!Finished(t), P!Here(t).kind = "sub", t.phase = "ready", NEW below \in BOOLEAN
    PROVE  AllFollow(t, P!Entered(t, below)) /\ IsFiniteSet(P!Entered(t, below))
  <1> DEFINE p == P!Here(t).of
             f == [pipe |-> p, pos |-> P!Stage(p, 1), below |-> below, by |-> P!Id(t)]
             at == Append(t.at, f)
             inside == [t EXCEPT !.at = at, !.ended = FALSE]
             One(i) == [inside EXCEPT !.trace = Append(@, P!Mark[i]), !.at[Len(t.at) + 1].pos = i]
             stages == {j \in DOMAIN Body[p] : Body[p][j].kind # "mode"}
  <1>1. /\ AtOK(t.at) /\ Inside(t.at) /\ Len(t.at) \in Nat
        /\ t = [at |-> t.at, base |-> t.base, trace |-> t.trace, status |-> t.status, masked |-> t.masked,
                body |-> t.body, ended |-> t.ended, phase |-> t.phase]
    BY PlaceOf, AtFacts DEF MessageOK
  <1>2. p \in DOMAIN Body
    <2>1. P!Frame(t).pipe \in DOMAIN Body /\ P!Frame(t).pos \in 1..Elements(P!Frame(t).pipe)
      BY PlaceOf DEF Inside
    <2> QED BY <2>1, PipelinesAre DEF P!Here
  <1> HIDE DEF p
  <1>3. Elements(p) \in Nat \ {0} /\ DOMAIN Body[p] = 1..Elements(p)
    BY <1>2, PipelinesAre
  <1>4. /\ P!Stage(p, 1) \in 1..Elements(p) + 1
        /\ P!Stage(p, 1) <= Elements(p) => Body[p][P!Stage(p, 1)].kind # "mode"
    BY <1>2, <1>3, StageIn
  <1>5. FrameOK(f) /\ f.pipe = p
    BY <1>2, <1>4 DEF FrameOK
  <1> HIDE DEF f
  <1>6. AtOK(at) /\ Len(at) = Len(t.at) + 1 /\ at[Len(at)] = f /\ \A d \in 1..Len(t.at) : at[d] = t.at[d]
    BY <1>1, <1>5, AtEnters
  <1> HIDE DEF at
  <1>7. inside = [t EXCEPT !.at = at, !.ended = FALSE]
    OBVIOUS
  <1>8. P!Entered(t, below) = {inside} \/ P!Entered(t, below) = {One(i) : i \in stages}
    <2>1. P!Entered(t, below) = IF P!Parallel(f) THEN {One(i) : i \in stages} ELSE {inside}
      BY DEF P!Entered, p, f, at
    <2> HIDE DEF inside, One, stages
    <2> QED BY <2>1
  <1> HIDE DEF inside
  <1>9. inside = [at |-> at, base |-> t.base, trace |-> t.trace, status |-> t.status, masked |-> t.masked,
                  body |-> t.body, ended |-> FALSE, phase |-> "ready"]
    BY <1>1, <1>7
  <1>10. Waits(inside) /\ Follows(t, inside)
    <2>1. Waits(inside)
      BY <1>1, <1>6, <1>9 DEF MessageOK, Fields, Waits
    <2>2. PlaceBefore(Positions(t.at), Positions(at))
      BY <1>1, <1>6, Deeper
    <2> QED BY <1>9, <2>1, <2>2 DEF Follows
  <1>11. ASSUME NEW i \in stages PROVE Waits(One(i)) /\ Follows(t, One(i))
    <2> DEFINE q == [at EXCEPT ![Len(at)].pos = i]
               trace == Append(t.trace, P!Mark[i])
               u == One(i)
    <2>1. AtOK(q) /\ Len(q) = Len(t.at) + 1 /\ \A d \in 1..Len(t.at) : q[d] = t.at[d]
      <3>1. i \in 1..Elements(at[Len(at)].pipe) + 1 /\ Body[at[Len(at)].pipe][i].kind # "mode"
        BY <1>3, <1>5, <1>6
      <3>2. AtOK(q) /\ Len(q) = Len(at) /\ \A d \in 1..Len(at) - 1 : q[d] = at[d]
        BY <1>6, <3>1, AtMoves, SMTT(20)
      <3> HIDE DEF q
      <3> QED BY <1>1, <1>6, <3>2
    <2>2. u = [inside EXCEPT !.trace = trace, !.at = q]
      BY <1>6, <1>9
    <2> HIDE DEF q, trace, u
    <2>3. u = [at |-> q, base |-> t.base, trace |-> trace, status |-> t.status, masked |-> t.masked,
               body |-> t.body, ended |-> FALSE, phase |-> "ready"]
      BY <1>9, <2>2
    <2>4. Waits(u)
      BY <1>1, <1>10, <2>1, <2>3 DEF MessageOK, Fields, Waits
    <2>5. PlaceBefore(Positions(t.at), Positions(q))
      BY <1>1, <2>1, Deeper
    <2> QED BY <2>3, <2>4, <2>5 DEF u, Follows
  <1>12. AllFollow(t, P!Entered(t, below))
    <2> HIDE DEF One, stages
    <2> QED BY <1>8, <1>10, <1>11 DEF AllFollow
  <1>13. IsFiniteSet({One(i) : i \in stages})
    <2> DEFINE all == [i \in stages |-> One(i)]
    <2>1. IsFiniteSet(stages)
      BY <1>2, FewStages
    <2>2. DOMAIN all = stages /\ {all[i] : i \in stages} = {One(i) : i \in stages}
      OBVIOUS
    <2> HIDE DEF all, stages, One
    <2>3. IsFiniteSet({all[i] : i \in stages})
      BY <2>1, <2>2, FiniteImage
    <2> QED BY <2>2, <2>3
  <1>14. IsFiniteSet(P!Entered(t, below))
    <2> HIDE DEF One, stages
    <2> QED BY <1>8, <1>13, FS_Singleton
  <1> QED BY <1>12, <1>14

LEMMA UnmaskedIs ==
    ASSUME NEW t, MessageOK(t)
    PROVE  LET u == P!Unmasked(t) IN MessageOK(u) /\ u.at = t.at /\ u.base = t.base /\ u.phase = t.phase
  <1> DEFINE status == IF t.masked THEN "error" ELSE t.status
             u == P!Unmasked(t)
  <1>1. u = [t EXCEPT !.status = status, !.masked = FALSE]
    BY DEF P!Unmasked
  <1>2. status \in {"ok", "error"}
    BY DEF MessageOK, Fields
  <1> HIDE DEF status, u
  <1>3. u = [at |-> t.at, base |-> t.base, trace |-> t.trace, status |-> status, masked |-> FALSE,
             body |-> t.body, ended |-> t.ended, phase |-> t.phase]
    BY <1>1 DEF MessageOK
  <1>4. Fields(t.at, status, FALSE, t.body, t.ended, t.phase)
    BY <1>2 DEF MessageOK, Fields
  <1>5. MessageOK(u) /\ u.at = t.at /\ u.base = t.base /\ u.phase = t.phase
    BY <1>3, <1>4 DEF MessageOK
  <1> QED BY <1>5 DEF u

LEMMA OutIs ==
    ASSUME NEW t, MessageOK(t), t.phase = "ready", Len(t.at) > 1
    PROVE  LET u == [t EXCEPT !.at = SubSeq(t.at, 1, Len(t.at) - 1)] IN
           MessageOK(u) /\ ~P!Finished(u) /\ u.base = t.base /\ Follows(t, P!Onward(u))
  <1> DEFINE at == SubSeq(t.at, 1, Len(t.at) - 1)
             u == [t EXCEPT !.at = at]
  <1>1. /\ AtOK(at) /\ Inside(at) /\ AtOK(t.at) /\ Len(at) = Len(t.at) - 1 /\ Len(at) \in Nat \ {0}
        /\ Len(t.at) \in Nat /\ \A d \in 1..Len(t.at) - 1 : at[d] = t.at[d]
    BY PlaceOf, AtLeaves, AtFacts
  <1> HIDE DEF at
  <1>2. u = [at |-> at, base |-> t.base, trace |-> t.trace, status |-> t.status, masked |-> t.masked,
             body |-> t.body, ended |-> t.ended, phase |-> t.phase]
    BY DEF MessageOK
  <1> HIDE DEF u
  <1>3. MessageOK(u) /\ u.at = at /\ u.base = t.base
    BY <1>1, <1>2 DEF MessageOK, Fields
  <1>4. ~P!Finished(u)
    BY <1>1, <1>3, PlaceOf
  <1>5. Follows(t, P!Onward(u))
    <2> DEFINE q == P!Onward(u).at
    <2>1. /\ AtOK(q) /\ Len(q) = Len(at) /\ q[Len(at)].pos > at[Len(at)].pos
          /\ \A d \in 1..Len(at) - 1 : q[d] = at[d]
      BY <1>3, <1>4, OnwardIs, PlaceOf
    <2> HIDE DEF q
    <2>2. /\ Len(q) <= Len(t.at) /\ q[Len(q)].pos > t.at[Len(q)].pos
          /\ \A d \in 1..Len(q) - 1 : q[d] = t.at[d]
      <3>1. Len(at) \in 1..Len(t.at) - 1 /\ \A d \in 1..Len(at) - 1 : d \in 1..Len(t.at) - 1
        BY <1>1
      <3> QED BY <1>1, <2>1, <3>1
    <2>3. PlaceBefore(Positions(t.at), Positions(q))
      BY <1>1, <2>1, <2>2, Further
    <2>4. P!Onward(u).base = t.base
      BY <1>3, <1>4, OnwardIs
    <2> QED BY <2>3, <2>4 DEF Follows, q
  <1> QED BY <1>3, <1>4, <1>5 DEF u, at

\* The messages of the first pipeline.
LEMMA FirstIs ==
    ASSUME NEW p \in DOMAIN Body
    PROVE  IsFiniteSet(P!First(p)) /\ \A u \in P!First(p) : Waits(u) /\ u.base = {}
  <1> DEFINE f == [pipe |-> p, pos |-> 1, below |-> FALSE, by |-> <<>>]
             at == <<f>>
             t == [at |-> at, base |-> {}, trace |-> <<>>, status |-> "ok", masked |-> FALSE,
                   body |-> "data", ended |-> FALSE, phase |-> "ready"]
             One(i) == [t EXCEPT !.trace = <<P!Mark[i]>>, !.at[1].pos = i]
             Only == [t EXCEPT !.at[1].pos = P!Stage(p, 1)]
             stages == {j \in DOMAIN Body[p] : Body[p][j].kind # "mode"}
  <1>1. Elements(p) \in Nat \ {0} /\ DOMAIN Body[p] = 1..Elements(p)
    BY PipelinesAre
  <1>2. P!First(p) = {Only} \/ P!First(p) = {One(i) : i \in stages}
    <2>1. P!First(p) = IF P!Parallel(f) THEN {One(i) : i \in stages} ELSE {Only}
      BY DEF P!First
    <2> HIDE DEF Only, One, stages, f
    <2> QED BY <2>1
  <1>3. ASSUME NEW pos \in 1..Elements(p) + 1, pos <= Elements(p) => Body[p][pos].kind # "mode"
        PROVE  AtOK([at EXCEPT ![1].pos = pos])
    <2> DEFINE g == [pipe |-> p, pos |-> pos, below |-> FALSE, by |-> <<>>]
               q == <<g>>
    <2>1. [at EXCEPT ![1].pos = pos] = q
      <3>1. [f EXCEPT !.pos = pos] = g
        <4>1. /\ f = [pipe |-> f.pipe, pos |-> f.pos, below |-> f.below, by |-> f.by]
              /\ f.pipe = p /\ f.below = FALSE /\ f.by = <<>>
          OBVIOUS
        <4> HIDE DEF f
        <4>2. [f EXCEPT !.pos = pos] = [pipe |-> f.pipe, pos |-> pos, below |-> f.below, by |-> f.by]
          BY <4>1
        <4> QED BY <4>1, <4>2
      <3> HIDE DEF f, g
      <3> QED BY <3>1
    <2>2. FrameOK(g)
      BY <1>3 DEF FrameOK
    <2> HIDE DEF g, at
    <2>3. q \in Seq({g}) /\ Len(q) = 1 /\ q[1] = g
      OBVIOUS
    <2> HIDE DEF q
    <2>4. AtOK(q)
      BY <2>2, <2>3 DEF AtOK
    <2> QED BY <2>1, <2>4
  <1> HIDE DEF at
  <1>4. Waits(Only) /\ Only.base = {}
    <2> DEFINE q == [at EXCEPT ![1].pos = P!Stage(p, 1)]
    <2>1. AtOK(q)
      BY <1>1, <1>3, StageIn
    <2>2. Only = [t EXCEPT !.at = q]
      OBVIOUS
    <2>3. Only = [at |-> q, base |-> {}, trace |-> <<>>, status |-> "ok", masked |-> FALSE,
                  body |-> "data", ended |-> FALSE, phase |-> "ready"]
      <3> HIDE DEF q, Only
      <3> QED BY <2>2
    <2> HIDE DEF q, Only
    <2> QED BY <2>1, <2>3 DEF MessageOK, Fields, Waits
  <1>5. ASSUME NEW i \in stages PROVE Waits(One(i)) /\ One(i).base = {}
    <2> DEFINE q == [at EXCEPT ![1].pos = i]
    <2>1. AtOK(q)
      BY <1>1, <1>3
    <2>2. One(i) = [t EXCEPT !.trace = <<P!Mark[i]>>, !.at = q]
      OBVIOUS
    <2>3. One(i) = [at |-> q, base |-> {}, trace |-> <<P!Mark[i]>>, status |-> "ok", masked |-> FALSE,
                    body |-> "data", ended |-> FALSE, phase |-> "ready"]
      <3> HIDE DEF q, One
      <3> QED BY <2>2
    <2> HIDE DEF q, One
    <2> QED BY <2>1, <2>3 DEF MessageOK, Fields, Waits
  <1>6. IsFiniteSet({One(i) : i \in stages})
    <2> DEFINE all == [i \in stages |-> One(i)]
    <2>1. IsFiniteSet(stages)
      BY FewStages
    <2>2. DOMAIN all = stages /\ {all[i] : i \in stages} = {One(i) : i \in stages}
      OBVIOUS
    <2> HIDE DEF all, stages, One
    <2>3. IsFiniteSet({all[i] : i \in stages})
      BY <2>1, <2>2, FiniteImage
    <2> QED BY <2>2, <2>3
  <1> HIDE DEF Only, One, stages
  <1> QED BY <1>2, <1>4, <1>5, <1>6, FS_Singleton

-----------------------------------------------------------------------------
(* Steps.  Most put what follows a message in its place. *)

LEMMA InitPipeline == P!Init => PipelineInv
  <1> SUFFICES ASSUME P!Init PROVE PipelineInv
    OBVIOUS
  <1>1. main \in DOMAIN Body /\ size \in 0..2 /\ messages = P!First(main) /\ joins = <<>> /\ outputs = <<>>
    BY PipelinesAre DEF P!Init
  <1>2. \A t \in messages : MessageOK(t) /\ t.phase # "running"
    BY <1>1, FirstIs DEF Waits
  <1>3. P!Running = {}
    BY <1>2 DEF P!Running
  <1>4. IsFiniteSet(P!Running) /\ Cardinality(P!Running) <= Limit
    BY <1>3, FS_EmptySet, PipelinesAre
  <1>5. DOMAIN joins = {}
    BY <1>1
  <1>6. OutputsOK
    <2>1. outputs \in Seq({}) /\ DOMAIN outputs = {}
      BY <1>1
    <2> QED BY <2>1 DEF OutputsOK
  <1> QED BY <1>1, <1>2, <1>4, <1>5, <1>6 DEF PipelineInv

\* Messages are replaced by ones that are not being sent.
LEMMA Replaced ==
    ASSUME PipelineInv, \A u \in messages' : u \in messages \/ (MessageOK(u) /\ u.phase # "running"),
           outputs' = outputs \/ OutputsOK',
           main' = main, size' = size, \A k \in DOMAIN joins' : joins'[k].closed \in BOOLEAN
    PROVE  PipelineInv'
  <1>1. P!Running' \subseteq P!Running
    BY DEF P!Running
  <1>2. IsFiniteSet(P!Running') /\ Cardinality(P!Running') <= Limit
    <2>1. IsFiniteSet(P!Running') /\ Cardinality(P!Running') <= Cardinality(P!Running)
      BY <1>1, FS_Subset DEF PipelineInv
    <2>2. Cardinality(P!Running') \in Nat /\ Cardinality(P!Running) \in Nat
      BY <2>1, FS_CardinalityType DEF PipelineInv
    <2> QED BY <2>1, <2>2, PipelinesAre DEF PipelineInv
  <1>3. \A t \in messages' : MessageOK(t)
    BY DEF PipelineInv
  <1>4. OutputsOK'
    BY DEF PipelineInv, OutputsOK
  <1> QED BY <1>2, <1>3, <1>4 DEF PipelineInv

GoesOn(t) == \E ts : IsFiniteSet(ts) /\ AllFollow(t, ts) /\ P!Becomes(t, ts)

LEMMA OneGoesOn ==
    ASSUME NEW t, NEW u, Waits(u), Follows(t, u), P!Becomes(t, {u})
    PROVE  GoesOn(t)
  <1>1. IsFiniteSet({u}) /\ AllFollow(t, {u})
    BY FS_Singleton DEF AllFollow
  <1> QED BY <1>1 DEF GoesOn

LEMMA BecomesIs ==
    ASSUME PipelineInv, NEW t, GoesOn(t)
    PROVE  PipelineInv'
  <1>1. /\ \A u \in messages' : u \in messages \/ (MessageOK(u) /\ u.phase # "running")
        /\ outputs' = outputs /\ main' = main /\ size' = size /\ joins' = joins
    <2>1. PICK ts : IsFiniteSet(ts) /\ AllFollow(t, ts) /\ P!Becomes(t, ts)
      BY DEF GoesOn
    <2> QED BY <2>1 DEF P!Becomes, AllFollow, Waits
  <1> QED BY <1>1, Replaced DEF PipelineInv

LEMMA StepsMove ==
    ASSUME PipelineInv, NEW t \in messages,
           P!Pass(t) \/ P!Fail(t) \/ P!Bare(t) \/ P!Transform(t) \/ P!Send(t)
    PROVE  GoesOn(t)
  <1>1. MessageOK(t) /\ P!Mode(t) \in P!ModeSpecs /\ ~P!Finished(t) /\ t.phase = "ready" /\ size \in Nat
    <2>1. MessageOK(t) /\ size \in Nat
      BY DEF PipelineInv
    <2>2. ~P!Finished(t) /\ t.phase = "ready"
      BY DEF P!Pass, P!Fail, P!Bare, P!Transform, P!Send, P!Ready
    <2> QED BY <2>1, <2>2, PlaceOf
  <1>2. CASE P!Pass(t)
    <2>1. Waits(P!Onward(t)) /\ Follows(t, P!Onward(t))
      BY <1>1, OnwardIs, OnwardFollows DEF Waits
    <2> QED BY <1>2, <2>1, OneGoesOn DEF P!Pass
  <1>3. CASE P!Fail(t)
    BY <1>1, <1>3, OnFailIs DEF P!Fail, GoesOn
  <1>4. CASE P!Bare(t)
    <2>1. Waits(P!OnSuccess(t, P!Mode(t), TRUE)) /\ Follows(t, P!OnSuccess(t, P!Mode(t), TRUE))
      BY <1>1, OnSuccessIs
    <2> QED BY <1>4, <2>1, OneGoesOn DEF P!Bare
  <1>5. CASE P!Transform(t)
    <2> DEFINE u == P!Transformed(t, service[P!Here(t).request, 0])
    <2>1. Waits(u) /\ Follows(t, u)
      BY <1>1, TransformedIs
    <2>2. P!Becomes(t, {u})
      BY <1>5 DEF P!Transform
    <2> HIDE DEF u
    <2> QED BY <2>1, <2>2, OneGoesOn
  <1>6. CASE P!Send(t)
    <2> DEFINE items == P!Items(t, size)
               Sent1(u) == IF u.body = "null" THEN P!OnSuccess(u, P!Mode(t), FALSE) ELSE [u EXCEPT !.phase = "sent"]
               all == [u \in items |-> Sent1(u)]
               many == {Sent1(u) : u \in items}
    <2>0. P!Here(t).kind = WaitsAt["sent"]
      BY <1>6 DEF P!Send, P!Ready, WaitsAt
    <2>1. Waits([t EXCEPT !.phase = "sent"]) /\ Follows(t, [t EXCEPT !.phase = "sent"])
      BY <1>1, <2>0, Phased DEF Waits
    <2>2. ASSUME NEW u \in items PROVE Waits(Sent1(u)) /\ Follows(t, Sent1(u))
      <3>1. MessageOK(u) /\ u.at = t.at /\ u.base = t.base
        BY <1>1, ItemsAre
      <3>2. ~P!Finished(u) /\ P!Here(u).kind = WaitsAt["sent"]
        BY <1>1, <2>0, <3>1, PlaceOf DEF P!Here
      <3>3. Waits(P!OnSuccess(u, P!Mode(t), FALSE)) /\ Follows(u, P!OnSuccess(u, P!Mode(t), FALSE))
        BY <1>1, <3>1, <3>2, OnSuccessIs
      <3>4. Waits([u EXCEPT !.phase = "sent"]) /\ Follows(u, [u EXCEPT !.phase = "sent"])
        BY <3>1, <3>2, Phased DEF Waits
      <3>5. Waits(Sent1(u)) /\ Follows(u, Sent1(u))
        BY <3>3, <3>4
      <3> HIDE DEF Sent1
      <3> QED BY <3>1, <3>5, SamePlace
    <2>3. P!Becomes(t, {[t EXCEPT !.phase = "sent"]}) \/ P!Becomes(t, many)
      BY <1>6 DEF P!Send
    <2>4. IsFiniteSet(many)
      <3>1. IsFiniteSet(items)
        BY <1>1, FewItems
      <3>2. DOMAIN all = items /\ {all[u] : u \in items} = many
        OBVIOUS
      <3> HIDE DEF all, many, items
      <3> QED BY <3>1, <3>2, FiniteImage
    <2>5. AllFollow(t, many)
      <3> HIDE DEF Sent1, items
      <3> QED BY <2>2 DEF AllFollow
    <2> HIDE DEF many
    <2>6. CASE P!Becomes(t, {[t EXCEPT !.phase = "sent"]})
      <3> DEFINE u == [t EXCEPT !.phase = "sent"]
      <3>1. Waits(u) /\ Follows(t, u) /\ P!Becomes(t, {u})
        BY <2>1, <2>6
      <3> HIDE DEF u
      <3> QED BY <3>1, OneGoesOn
    <2> QED BY <2>3, <2>4, <2>5, <2>6 DEF GoesOn
  <1> QED BY <1>2, <1>3, <1>4, <1>5, <1>6

\* Who waits in a phase is at an element of its kind.
LEMMA InPhase ==
    ASSUME NEW t, MessageOK(t), t.phase # "ready"
    PROVE  ~P!Finished(t) /\ P!Here(t).kind = WaitsAt[t.phase]
  <1>1. Inside(t.at) /\ KindAt(t.at) = WaitsAt[t.phase]
    BY DEF MessageOK, Fields
  <1> QED BY <1>1, PlaceOf DEF P!Here, KindAt

\* Requests under way: never more than the limiter lets through.
LEMMA Starts ==
    ASSUME PipelineInv, NEW t \in messages, P!Start(t)
    PROVE  /\ PipelineInv'
           /\ \E u : Follows(t, u) /\ u.phase # "kept" /\ P!Becomes(t, {u})
  <1> DEFINE u == [t EXCEPT !.phase = "running"]
  <1>1. MessageOK(t) /\ t.phase = "sent"
    BY DEF PipelineInv, P!Start
  <1>2. MessageOK(u) /\ u.phase = "running" /\ Follows(t, u)
    <2>1. WaitsAt["sent"] = WaitsAt["running"]
      BY DEF WaitsAt
    <2>2. ~P!Finished(t) /\ P!Here(t).kind = WaitsAt["running"]
      BY <1>1, <2>1, InPhase
    <2> QED BY <1>1, <2>2, Phased
  <1>3. P!Becomes(t, {u}) /\ Cardinality(P!Running) < Limit
    BY SameCount DEF P!Start, P!LimiterLets
  <1> HIDE DEF u
  <1>4. messages' = (messages \ {t}) \cup {u} /\ UNCHANGED <<main, size, joins, outputs>>
    BY <1>3 DEF P!Becomes
  <1>5. P!Running' \subseteq P!Running \cup {u}
    BY <1>4 DEF P!Running
  <1>6. /\ IsFiniteSet(P!Running \cup {u}) /\ Cardinality(P!Running \cup {u}) <= Cardinality(P!Running) + 1
        /\ Cardinality(P!Running) \in Nat
    <2>1. IsFiniteSet(P!Running)
      BY DEF PipelineInv
    <2> DEFINE S == P!Running
    <2>2. IsFiniteSet(S) /\ Cardinality(S) \in Nat
      BY <2>1, FS_CardinalityType
    <2> HIDE DEF S
    <2>3. IsFiniteSet(S \cup {u}) /\ Cardinality(S \cup {u}) <= Cardinality(S) + 1
      <3>1. /\ IsFiniteSet(S \cup {u})
            /\ Cardinality(S \cup {u}) = IF u \in S THEN Cardinality(S) ELSE Cardinality(S) + 1
        BY <2>2, FS_AddElement
      <3> QED BY <2>2, <3>1
    <2> QED BY <2>2, <2>3 DEF S
  <1>7. IsFiniteSet(P!Running') /\ Cardinality(P!Running') <= Cardinality(P!Running \cup {u})
    BY <1>5, <1>6, FS_Subset
  <1>8. Cardinality(P!Running') \in Nat /\ Cardinality(P!Running \cup {u}) \in Nat
    BY <1>6, <1>7, FS_CardinalityType
  <1>9. Cardinality(P!Running') <= Limit
    BY <1>3, <1>6, <1>7, <1>8, PipelinesAre
  <1>10. PipelineInv'
    <2>1. OutputsOK'
      BY <1>4 DEF PipelineInv, OutputsOK
    <2>2. \A v \in messages' : MessageOK(v)
      BY <1>2, <1>4 DEF PipelineInv
    <2> QED BY <1>4, <1>7, <1>9, <2>1, <2>2 DEF PipelineInv
  <1> QED BY <1>2, <1>3, <1>10

LEMMA RequestsAreAnswered ==
    ASSUME PipelineInv, NEW t \in messages, P!Answered(t)
    PROVE  GoesOn(t)
  <1> DEFINE outcome == service[P!Here(t).request, P!Index(t)]
             a == P!Answer(t, outcome)
             single == ~P!Here(t).many
             u == P!OnSuccess(a, P!Mode(t), single)
             lost == [t EXCEPT !.phase = "lost"]
  <1>1. MessageOK(t) /\ t.phase = "running"
    BY DEF PipelineInv, P!Answered, P!Running
  <1>2. ~P!Finished(t) /\ P!Mode(t) \in P!ModeSpecs /\ P!Here(t).kind = "step"
    BY <1>1, PlaceOf, InPhase DEF WaitsAt
  <1>3. P!Becomes(t, {u}) \/ P!Becomes(t, {lost})
    BY DEF P!Answered
  <1>4. MessageOK(a) /\ a.at = t.at /\ a.base = t.base
    BY <1>1, <1>2, AnswerIs
  <1>5. ~P!Finished(a)
    BY <1>1, <1>2, <1>4, PlaceOf
  <1>6. single \in BOOLEAN
    OBVIOUS
  <1>9. Waits(lost) /\ Follows(t, lost)
    <2>1. P!Here(t).kind = WaitsAt["lost"]
      BY <1>2 DEF WaitsAt
    <2> QED BY <1>1, <1>2, <2>1, Phased DEF Waits
  <1> HIDE DEF a, single, lost
  <1>7. Waits(u) /\ Follows(a, u)
    BY <1>2, <1>4, <1>5, <1>6, OnSuccessIs
  <1> HIDE DEF u
  <1>8. Follows(t, u)
    BY <1>4, <1>7, SamePlace
  <1> QED BY <1>3, <1>7, <1>8, <1>9, OneGoesOn

LEMMA SubsMove ==
    ASSUME PipelineInv, NEW t \in messages,
           P!Split(t) \/ P!Enter(t) \/ P!TeeOver(t)
    PROVE  GoesOn(t)
  <1>1. MessageOK(t) /\ P!Mode(t) \in P!ModeSpecs /\ P!Parallel(P!Frame(t)) \in BOOLEAN /\ size \in Nat
    BY PlaceOf DEF PipelineInv
  <1>2. CASE P!Split(t)
    <2> DEFINE items == P!Items(t, size)
               all == [u \in items |-> P!Onward(u)]
               on == {P!Onward(u) : u \in items}
               held == [t EXCEPT !.phase = "held"]
    <2>1. ~P!Finished(t) /\ t.phase = "ready" /\ P!Here(t).kind = WaitsAt["held"]
      BY <1>2 DEF P!Split, P!Ready, WaitsAt
    <2>2. Waits(held) /\ Follows(t, held)
      BY <1>1, <2>1, Phased DEF Waits
    <2>3. ASSUME NEW u \in items PROVE Waits(P!Onward(u)) /\ Follows(t, P!Onward(u))
      <3>1. MessageOK(u) /\ u.at = t.at /\ u.base = t.base
        BY <1>1, ItemsAre
      <3>2. ~P!Finished(u)
        BY <1>1, <2>1, <3>1, PlaceOf
      <3>3. Waits(P!Onward(u)) /\ Follows(u, P!Onward(u))
        BY <3>1, <3>2, OnwardIs, OnwardFollows DEF Waits
      <3> QED BY <3>1, <3>3, SamePlace
    <2>4. P!Becomes(t, {held}) \/ P!Becomes(t, on)
      BY <1>2 DEF P!Split
    <2>5. IsFiniteSet(on)
      <3>1. IsFiniteSet(items)
        BY <1>1, FewItems
      <3>2. DOMAIN all = items /\ {all[u] : u \in items} = on
        OBVIOUS
      <3> HIDE DEF all, on, items
      <3> QED BY <3>1, <3>2, FiniteImage
    <2>6. AllFollow(t, on)
      <3> HIDE DEF items
      <3> QED BY <2>3 DEF AllFollow
    <2> HIDE DEF on, held
    <2>7. CASE P!Becomes(t, {held})
      BY <2>2, <2>7, OneGoesOn
    <2> QED BY <2>4, <2>5, <2>6, <2>7 DEF GoesOn
  <1>3. CASE P!Enter(t)
    <2> DEFINE below == P!SubBelow(P!Frame(t))
               tee == P!TeeOf(P!Here(t).of, below)
               on == P!OnSuccess(t, P!Mode(t), FALSE)
               stays == [t EXCEPT !.phase = "teed"]
    <2>1. ~P!Finished(t) /\ t.phase = "ready" /\ P!Here(t).kind = "sub"
      BY <1>3 DEF P!Enter, P!Ready
    <2>2. below \in BOOLEAN
      BY <1>1 DEF P!SubBelow, P!Below
    <2>3. Waits(on) /\ Waits(stays) /\ Follows(t, on) /\ Follows(t, stays)
      <3>1. WaitsAt["teed"] = "sub"
        BY DEF WaitsAt
      <3> QED BY <1>1, <2>1, <3>1, OnSuccessIs, Phased DEF Waits
    <2>4. tee \in {"no", "tee", "wait"}
      <3>1. P!Frame(t).pipe \in DOMAIN Body /\ P!Frame(t).pos \in 1..Elements(P!Frame(t).pipe)
        BY <1>1, <2>1, PlaceOf DEF Inside
      <3>2. P!Here(t).of \in DOMAIN Body
        BY <2>1, <3>1, PipelinesAre DEF P!Here
      <3>3. P!LastMode(P!Here(t).of, below) \in P!ModeSpecs
        BY <2>2, <3>2, ModesAre
      <3> QED BY <3>3 DEF P!ModeSpecs, P!TeeOf
    <2>5. \E more \in SUBSET {on, stays} : P!Becomes(t, P!Entered(t, below) \cup more)
      <3> DEFINE more == CASE tee = "no" -> {} [] tee = "tee" -> {on} [] tee = "wait" -> {stays}
      <3>1. P!Becomes(t, P!Entered(t, below) \cup more)
        BY <1>3 DEF P!Enter
      <3>2. more \in SUBSET {on, stays}
        <4> HIDE DEF on, stays, tee
        <4> QED BY <2>4
      <3> QED BY <3>1, <3>2
    <2> HIDE DEF on, stays, below
    <2>6. AllFollow(t, P!Entered(t, below)) /\ IsFiniteSet(P!Entered(t, below))
      BY <1>1, <2>1, <2>2, EnteredIs
    <2>7. PICK more \in SUBSET {on, stays} : P!Becomes(t, P!Entered(t, below) \cup more)
      BY <2>5
    <2>8. AllFollow(t, P!Entered(t, below) \cup more)
      BY <2>3, <2>6 DEF AllFollow
    <2>9. IsFiniteSet(P!Entered(t, below) \cup more)
      <3>1. IsFiniteSet({on, stays})
        BY PairIsFinite
      <3>2. IsFiniteSet(more)
        BY <3>1, FS_Subset
      <3> QED BY <2>6, <3>2, FS_Union
    <2> QED BY <2>7, <2>8, <2>9 DEF GoesOn
  <1>4. CASE P!TeeOver(t)
    <2>1. t.phase = "teed" /\ P!Becomes(t, {P!OnSuccess(t, P!Mode(t), FALSE)})
      BY <1>4 DEF P!TeeOver
    <2>2. ~P!Finished(t)
      BY <1>1, <2>1, InPhase
    <2>3. Waits(P!OnSuccess(t, P!Mode(t), FALSE)) /\ Follows(t, P!OnSuccess(t, P!Mode(t), FALSE))
      BY <1>1, <2>2, OnSuccessIs
    <2> QED BY <2>1, <2>3, OneGoesOn
  <1> QED BY <1>2, <1>3, <1>4

LEMMA OneMoreOut ==
    ASSUME OutputsOK, NEW u, MessageOK(u), outputs' = Append(outputs, u)
    PROVE  OutputsOK'
  <1>1. PICK Item : outputs \in Seq(Item)
    BY DEF OutputsOK
  <1>2. outputs \in Seq(Item \cup {u}) /\ u \in Item \cup {u}
    BY <1>1
  <1>3. outputs' \in Seq(Item \cup {u})
    BY <1>2
  <1>4. ASSUME NEW i \in DOMAIN outputs' PROVE MessageOK(outputs'[i])
    <2>1. i \in 1..Len(outputs) + 1 /\ outputs'[i] = IF i = Len(outputs) + 1 THEN u ELSE outputs[i]
      BY <1>2
    <2>2. i # Len(outputs) + 1 => i \in DOMAIN outputs
      BY <1>1, <2>1
    <2> QED BY <2>1, <2>2 DEF OutputsOK
  <1> QED BY <1>3, <1>4 DEF OutputsOK

\* The end of a run.
LEMMA MessagesLeave ==
    ASSUME PipelineInv, NEW t \in messages, P!Leave(t)
    PROVE  GoesOn(t) \/ (PipelineInv' /\ messages' = messages \ {t} /\ joins' = joins)
  <1> DEFINE f == P!Frame(t)
             u == IF P!Parallel(f) THEN t ELSE P!Unmasked(t)
             out1 == [u EXCEPT !.at = SubSeq(t.at, 1, Len(t.at) - 1)]
             on == P!OnSuccess(out1, P!Mode(out1), FALSE)
  <1>1. MessageOK(t) /\ t.phase = "ready"
    BY DEF PipelineInv, P!Leave
  <1>2. MessageOK(u) /\ u.at = t.at /\ u.phase = "ready" /\ u.base = t.base
    BY <1>1, UnmaskedIs
  <1>3. \/ P!Becomes(t, {})
        \/ Len(t.at) > 1 /\ P!Becomes(t, {on})
        \/ messages' = messages \ {t} /\ outputs' = Append(outputs, u) /\ UNCHANGED <<main, service, size, joins>>
    BY DEF P!Leave
  <1> HIDE DEF u
  <1>4. CASE P!Becomes(t, {})
    <2>1. IsFiniteSet({}) /\ AllFollow(t, {})
      BY FS_EmptySet DEF AllFollow
    <2> QED BY <1>4, <2>1 DEF GoesOn
  <1>5. CASE Len(t.at) > 1 /\ P!Becomes(t, {on})
    <2>1. out1 = [u EXCEPT !.at = SubSeq(u.at, 1, Len(u.at) - 1)]
      BY <1>2
    <2>2. MessageOK(out1) /\ ~P!Finished(out1) /\ out1.base = u.base /\ Follows(u, P!Onward(out1))
      BY <1>2, <1>5, <2>1, OutIs
    <2> HIDE DEF out1
    <2>3. Waits(on) /\ on.at = P!Onward(out1).at /\ on.base = P!Onward(out1).base
      BY <2>2, PlaceOf, OnSuccessIs
    <2> HIDE DEF on
    <2>4. Follows(t, on)
      BY <1>2, <2>2, <2>3 DEF Follows
    <2> QED BY <1>5, <2>3, <2>4, OneGoesOn
  <1>6. CASE messages' = messages \ {t} /\ outputs' = Append(outputs, u) /\ UNCHANGED <<main, service, size, joins>>
    <2>1. messages' \subseteq messages /\ OutputsOK'
      <3>1. outputs' = Append(outputs, u) /\ messages' \subseteq messages /\ MessageOK(u)
        BY <1>2, <1>6
      <3> QED BY <3>1, OneMoreOut DEF PipelineInv
    <2>2. \A k \in DOMAIN joins' : joins'[k].closed \in BOOLEAN
      BY <1>6 DEF PipelineInv
    <2> HIDE DEF out1, on
    <2> QED BY <1>6, <2>1, <2>2, Replaced
  <1> HIDE DEF out1, on
  <1> QED BY <1>3, <1>4, <1>5, <1>6

\* A joiner's record stays well-formed.
LEMMA JoinWritesIs ==
    ASSUME PipelineInv, NEW k, NEW members, NEW closed \in BOOLEAN, P!JoinWrites(k, members, closed)
    PROVE  \A x \in DOMAIN joins' : joins'[x].closed \in BOOLEAN
  <1>1. /\ DOMAIN joins' = DOMAIN joins \cup {k}
        /\ \A x \in DOMAIN joins' : joins'[x] = IF x = k THEN [members |-> members, closed |-> closed] ELSE joins[x]
    BY DEF P!JoinWrites
  <1> SUFFICES ASSUME NEW x \in DOMAIN joins' PROVE joins'[x].closed \in BOOLEAN
    OBVIOUS
  <1>2. CASE x = k
    BY <1>1, <1>2
  <1>3. CASE x # k
    BY <1>1, <1>3 DEF PipelineInv
  <1> QED BY <1>2, <1>3

\* What joiners do: the message that came goes on from one, is kept, or is gone; what was
\* written to it may be added to.
LEMMA JoinersMove ==
    ASSUME PipelineInv, NEW t \in messages,
           P!JoinFirst(t) \/ P!JoinMore(t) \/ P!JoinKeeps(t) \/ P!JoinDrops(t) \/ P!JoinEmpty(t)
    PROVE  PipelineInv'
  <1> DEFINE k == P!JoinOf(t)
             comes == OutOfJoiner(t, {k})
             kept == [t EXCEPT !.phase = "kept"]
  <1>1. MessageOK(t)
    BY DEF PipelineInv
  <1>2. ~P!Finished(t) /\ P!Here(t).kind = WaitsAt["kept"]
    <2>1. CASE P!JoinEmpty(t)
      BY <1>1, <2>1, InPhase DEF P!JoinEmpty, WaitsAt
    <2>2. CASE ~P!JoinEmpty(t)
      BY <2>2 DEF P!JoinFirst, P!JoinMore, P!JoinKeeps, P!JoinDrops, P!Ready, WaitsAt
    <2> QED BY <2>1, <2>2
  <1>3. MessageOK(kept) /\ kept.phase # "running" /\ \A u \in comes : MessageOK(u) /\ u.phase # "running"
    <2>1. \A u \in comes : Waits(u)
      BY <1>1, <1>2, OutOfJoinerIs
    <2>2. MessageOK(kept) /\ kept.phase = "kept"
      BY <1>1, <1>2, Phased
    <2> HIDE DEF comes, kept
    <2> QED BY <2>1, <2>2 DEF Waits
  <1>5. CASE P!JoinFirst(t)
    <2>1. /\ messages' \subseteq messages \cup comes /\ outputs' = outputs /\ main' = main /\ size' = size
          /\ P!JoinWrites(k, {P!Id(t)}, FALSE)
      BY <1>5 DEF P!JoinFirst, OutOfJoiner
    <2> HIDE DEF comes, k
    <2>2. \A x \in DOMAIN joins' : joins'[x].closed \in BOOLEAN
      BY <2>1, JoinWritesIs
    <2> QED BY <1>3, <2>1, <2>2, Replaced
  <1>6. CASE P!JoinMore(t)
    <2> DEFINE members == joins[k].members \cup (IF P!HasData(t) THEN {P!Id(t)} ELSE {})
    <2>1. /\ messages' \subseteq messages /\ outputs' = outputs /\ main' = main /\ size' = size
          /\ P!JoinWrites(k, members, FALSE)
      BY <1>6 DEF P!JoinMore
    <2> HIDE DEF k, members
    <2>2. \A x \in DOMAIN joins' : joins'[x].closed \in BOOLEAN
      BY <2>1, JoinWritesIs
    <2> QED BY <2>1, <2>2, Replaced
  <1>7. ASSUME P!JoinKeeps(t) \/ P!JoinDrops(t) PROVE PipelineInv'
    <2>1. /\ messages' \subseteq messages \cup {kept} /\ outputs' = outputs /\ main' = main /\ size' = size
          /\ joins' = joins
      BY <1>7 DEF P!JoinKeeps, P!JoinDrops, P!Becomes
    <2> HIDE DEF kept
    <2>2. \A x \in DOMAIN joins' : joins'[x].closed \in BOOLEAN
      BY <2>1 DEF PipelineInv
    <2> QED BY <1>3, <2>1, <2>2, Replaced
  <1>9. CASE P!JoinEmpty(t)
    <2>1. /\ messages' \subseteq messages \cup comes /\ outputs' = outputs /\ main' = main /\ size' = size
          /\ P!JoinWrites(k, {}, TRUE)
      BY <1>9 DEF P!JoinEmpty, OutOfJoiner
    <2> HIDE DEF comes, k
    <2>2. \A x \in DOMAIN joins' : joins'[x].closed \in BOOLEAN
      BY <2>1, JoinWritesIs
    <2> QED BY <1>3, <2>1, <2>2, Replaced
  <1> QED BY <1>5, <1>6, <1>7, <1>9

LEMMA JoinerCloses ==
    ASSUME PipelineInv, NEW k, P!JoinCloses(k)
    PROVE  PipelineInv'
  <1> DEFINE members == joins[k].members
  <1>1. /\ P!JoinWrites(k, members, TRUE) /\ messages' \subseteq messages
        /\ outputs' = outputs /\ main' = main /\ size' = size
    BY DEF P!JoinCloses
  <1> HIDE DEF members
  <1>2. \A x \in DOMAIN joins' : joins'[x].closed \in BOOLEAN
    BY <1>1, JoinWritesIs
  <1> QED BY <1>1, <1>2, Replaced

LEMMA PipelineStep == PipelineInv /\ [P!Next]_pipelineVars => PipelineInv'
  <1> SUFFICES ASSUME PipelineInv, [P!Next]_pipelineVars PROVE PipelineInv'
    OBVIOUS
  <1>1. ASSUME NEW t \in messages, P!Goes(t) PROVE PipelineInv'
    BY <1>1, StepsMove, Starts, RequestsAreAnswered, SubsMove, MessagesLeave, JoinersMove, BecomesIs DEF P!Goes
  <1>2. ASSUME NEW k \in DOMAIN joins, P!JoinCloses(k) PROVE PipelineInv'
    BY <1>2, JoinerCloses
  <1>3. CASE UNCHANGED pipelineVars
    <2>1. messages' = messages /\ outputs' = outputs /\ main' = main /\ size' = size /\ joins' = joins
      BY <1>3 DEF pipelineVars
    <2>2. P!Running' = P!Running
      BY <2>1 DEF P!Running
    <2>3. OutputsOK'
      BY <2>1 DEF PipelineInv, OutputsOK
    <2> QED BY <2>1, <2>2, <2>3 DEF PipelineInv
  <1> QED BY <1>1, <1>2, <1>3 DEF P!Next

LEMMA PipelineType == PipelineInv => P!TypeOK
  <1> SUFFICES ASSUME PipelineInv PROVE P!TypeOK
    OBVIOUS
  <1>0. \A t \in messages \cup P!Range(outputs) : MessageOK(t)
    BY DEF PipelineInv, OutputsOK, P!Range
  <1>1. \A t \in messages \cup P!Range(outputs) :
          /\ t.status \in {"ok", "error"} /\ t.body \in {"data", "text", "none", "null"}
          /\ t.masked => t.status = "ok"
          /\ t.phase \in {"ready", "sent", "running", "held", "lost", "teed", "kept"}
    BY <1>0 DEF MessageOK, Fields
  <1>2. ASSUME NEW t \in messages, NEW d \in DOMAIN t.at PROVE t.at[d].pos \in 1..Len(Body[t.at[d].pipe]) + 1
    <2>1. AtOK(t.at)
      BY DEF PipelineInv, MessageOK, Fields
    <2>2. FrameOK(t.at[d])
      BY <2>1, AtFacts DEF AtOK
    <2> QED BY <2>2 DEF FrameOK, Elements
  <1>3. \A t \in messages : \A d \in DOMAIN t.at : t.at[d].pos \in 1..Len(Body[t.at[d].pipe]) + 1
    BY <1>2
  <1>4. main \in DOMAIN Body /\ Cardinality(P!Running) <= Limit /\ \A k \in DOMAIN joins : joins[k].closed \in BOOLEAN
    BY DEF PipelineInv
  <1> QED BY <1>1, <1>3, <1>4, SameCount DEF P!TypeOK

-----------------------------------------------------------------------------
(* Where joiners are.  A message comes out of joiners before its place, and a joiner is given   *)
(* what came out of joiners before it; one message at most is kept at each, and only at one     *)
(* that has written nothing.                                                                    *)

KeyPlace(k) == [d \in 1..Len(k.run) |-> IF d = Len(k.run) THEN k.pos ELSE k.run[d].pos]

\* All of base are joiners that have written, before a place.
Behind(base, place, written) == \A x \in base : x \in written /\ PlaceBefore(KeyPlace(x), place)

Few == IsFiniteSet(messages) /\ IsFiniteSet(DOMAIN joins)
Based == \A t \in messages : Behind(t.base, Positions(t.at), DOMAIN joins)
WrittenBehind ==
    \A k \in DOMAIN joins :
        /\ KeyPlace(k) \in Seq(Nat)
        /\ \A m \in joins[k].members : Behind(m.base, KeyPlace(k), DOMAIN joins)
OneKept ==
    \A t \in messages : t.phase = "kept" =>
        /\ P!NoJoin(P!JoinOf(t))
        /\ \A u \in messages : u.phase = "kept" /\ P!JoinOf(u) = P!JoinOf(t) => u = t

PlacesInv == Few /\ Based /\ WrittenBehind /\ OneKept

LEMMA InitPlaces == P!Init => PlacesInv
  <1> SUFFICES ASSUME P!Init PROVE PlacesInv
    OBVIOUS
  <1>1. main \in DOMAIN Body /\ messages = P!First(main) /\ joins = <<>>
    BY PipelinesAre DEF P!Init
  <1>2. IsFiniteSet(messages) /\ \A t \in messages : Waits(t) /\ t.base = {}
    BY <1>1, FirstIs
  <1>3. DOMAIN joins = {}
    BY <1>1
  <1>4. IsFiniteSet(DOMAIN joins)
    BY <1>3, FS_EmptySet
  <1> QED BY <1>2, <1>3, <1>4 DEF PlacesInv, Few, Based, WrittenBehind, OneKept, Behind, Waits

\* The run that a message is in has its depth.
LEMMA RunIs ==
    ASSUME NEW t, MessageOK(t)
    PROVE  LET n == Len(t.at)
               run == P!RunAt(t, n)
           IN  n \in Nat \ {0} /\ t.at[n].pos \in Nat /\ Len(run) = n /\ \A d \in 1..n : d # n => run[d] = t.at[d]
  <1> DEFINE n == Len(t.at)
             f == [t.at[n] EXCEPT !.pos = 0]
             run == [t.at EXCEPT ![n] = f]
  <1>1. AtOK(t.at) /\ n \in Nat \ {0} /\ DOMAIN t.at = 1..n /\ t.at[n].pos \in Nat
    BY PlaceOf, AtFacts, PositionsAre
  <1>2. PICK Item : t.at \in Seq(Item)
    BY <1>1 DEF AtOK
  <1>3. SubSeq(t.at, 1, n) = t.at
    BY <1>1, <1>2
  <1>4. P!RunAt(t, n) = run
    BY <1>3 DEF P!RunAt
  <1> HIDE DEF f
  <1>5. Len(run) = n /\ \A d \in 1..n : d # n => run[d] = t.at[d]
    <2>1. run \in Seq(Item \cup {f})
      BY <1>1, <1>2
    <2> QED BY <1>1, <1>2, <2>1
  <1> HIDE DEF run
  <1> QED BY <1>1, <1>4, <1>5

\* The place of the joiner a message has come to is its own.
LEMMA AtJoiner ==
    ASSUME NEW t, MessageOK(t)
    PROVE  KeyPlace(P!JoinOf(t)) = Positions(t.at) /\ KeyPlace(P!JoinOf(t)) \in Seq(Nat)
  <1> DEFINE n == Len(t.at)
             k == P!JoinOf(t)
  <1>1. AtOK(t.at) /\ P!Frame(t) = t.at[n]
    BY PlaceOf
  <1>2. k.run = P!RunAt(t, n) /\ k.pos = t.at[n].pos
    BY <1>1 DEF P!JoinOf
  <1>3. Len(k.run) = n /\ \A d \in 1..n : d # n => k.run[d] = t.at[d]
    BY <1>2, RunIs
  <1> HIDE DEF n, k
  <1>4. KeyPlace(k) = [d \in 1..n |-> t.at[d].pos]
    <2>1. KeyPlace(k) = [d \in 1..n |-> IF d = n THEN t.at[n].pos ELSE k.run[d].pos]
      BY <1>2, <1>3 DEF KeyPlace
    <2> QED BY <1>3, <2>1
  <1>5. KeyPlace(k) = Positions(t.at)
    BY <1>4 DEF Positions, n
  <1> QED BY <1>1, <1>5, PositionsAre DEF k

\* What was behind one place is behind a further one, whoever writes meanwhile.
LEMMA FurtherBehind ==
    ASSUME NEW base, NEW a \in Seq(Nat), NEW b \in Seq(Nat), a = b \/ PlaceBefore(a, b),
           NEW w1, NEW w2, w1 \subseteq w2, Behind(base, a, w1), \A x \in w1 : KeyPlace(x) \in Seq(Nat)
    PROVE  Behind(base, b, w2)
  <1> SUFFICES ASSUME NEW x \in base PROVE x \in w2 /\ PlaceBefore(KeyPlace(x), b)
    BY DEF Behind
  <1>1. x \in w1 /\ PlaceBefore(KeyPlace(x), a) /\ KeyPlace(x) \in Seq(Nat)
    BY DEF Behind
  <1> QED BY <1>1, OrderOfPlaces

\* A message that is followed has its joiners behind it, and so have those that follow.
LEMMA BehindFollows ==
    ASSUME PipelineInv, Based, WrittenBehind, NEW t \in messages, NEW u, MessageOK(u), Follows(t, u)
    PROVE  Behind(u.base, Positions(u.at), DOMAIN joins)
  <1>1. MessageOK(t) /\ Positions(t.at) \in Seq(Nat) /\ Positions(u.at) \in Seq(Nat)
    BY PositionsAre DEF PipelineInv, MessageOK, Fields
  <1>2. u.base = t.base /\ (Positions(t.at) = Positions(u.at) \/ PlaceBefore(Positions(t.at), Positions(u.at)))
    BY DEF Follows
  <1>3. Behind(t.base, Positions(t.at), DOMAIN joins)
    BY DEF Based
  <1>4. \A x \in DOMAIN joins : KeyPlace(x) \in Seq(Nat)
    BY DEF WrittenBehind
  <1> QED BY <1>1, <1>2, <1>3, <1>4, FurtherBehind

\* Who goes on, or is gone, leaves everything where it was.
LEMMA PlacesFollow ==
    ASSUME PipelineInv, PipelineInv', PlacesInv, NEW t \in messages, NEW ts, IsFiniteSet(ts),
           \A u \in ts : u.phase # "kept" /\ Follows(t, u),
           messages' \subseteq messages \cup ts, ts \subseteq messages', joins' = joins
    PROVE  PlacesInv'
  <1>1. Few'
    <2>1. IsFiniteSet(messages \cup ts)
      BY FS_Union DEF PlacesInv, Few
    <2>2. IsFiniteSet(messages')
      BY <2>1, FS_Subset
    <2> QED BY <2>2 DEF PlacesInv, Few
  <1>2. ASSUME NEW u \in messages' PROVE Behind(u.base, Positions(u.at), DOMAIN joins')
    <2>1. CASE u \in messages
      BY <2>1 DEF PlacesInv, Based
    <2>2. CASE u \in ts
      <3>1. MessageOK(u) /\ Follows(t, u)
        BY <2>2 DEF PipelineInv
      <3> QED BY <3>1, BehindFollows DEF PlacesInv
    <2> QED BY <2>1, <2>2
  <1>3. WrittenBehind'
    BY DEF PlacesInv, WrittenBehind
  <1>4. OneKept'
    <2>1. \A u \in messages' : u.phase = "kept" => u \in messages
      OBVIOUS
    <2>2. \A u : P!JoinOf(u)' = P!JoinOf(u) /\ (P!NoJoin(P!JoinOf(u))' <=> P!NoJoin(P!JoinOf(u)))
      BY DEF P!JoinOf, P!NoJoin, P!RunAt, P!Frame
    <2> QED BY <2>1, <2>2 DEF PlacesInv, OneKept
  <1> QED BY <1>1, <1>2, <1>3, <1>4 DEF PlacesInv, Based

\* A joiner that a message came to writes that message, or nothing; what comes out of it goes on.
LEMMA PlacesWritten ==
    ASSUME PipelineInv, PipelineInv', PlacesInv, NEW t \in messages, NEW members, NEW closed, NEW joined,
           P!JoinWrites(P!JoinOf(t), members, closed),
           members \subseteq {P!Id(t)} \cup
                (IF P!JoinOf(t) \in DOMAIN joins THEN joins[P!JoinOf(t)].members ELSE {}),
           messages' \subseteq messages \cup {joined}, ~P!Finished(t),
           joined \in OutOfJoiner(t, {P!JoinOf(t)}),
           \A u \in messages' : u.phase = "kept" => u \in messages /\ P!JoinOf(u) # P!JoinOf(t)
    PROVE  PlacesInv'
  <1> DEFINE k == P!JoinOf(t)
  <1>1. /\ DOMAIN joins' = DOMAIN joins \cup {k}
        /\ \A x \in DOMAIN joins' : joins'[x] = IF x = k THEN [members |-> members, closed |-> closed] ELSE joins[x]
    BY DEF P!JoinWrites
  <1>2. MessageOK(t) /\ \A u \in messages' : MessageOK(u)
    BY DEF PipelineInv
  <1>3. KeyPlace(k) = Positions(t.at) /\ KeyPlace(k) \in Seq(Nat)
    BY <1>2, AtJoiner
  <1>4. joined.base = {k} /\ PlaceBefore(Positions(t.at), Positions(joined.at))
    BY <1>2, OutOfJoinerIs
  <1>5. /\ messages' \subseteq messages \cup {joined}
        /\ members \subseteq {P!Id(t)} \cup (IF k \in DOMAIN joins THEN joins[k].members ELSE {})
        /\ \A u \in messages' : u.phase = "kept" => u \in messages /\ P!JoinOf(u) # k
    OBVIOUS
  <1> HIDE DEF k
  <1>6. Few'
    <2>1. IsFiniteSet(messages \cup {joined}) /\ IsFiniteSet(DOMAIN joins \cup {k})
      BY FS_AddElement DEF PlacesInv, Few
    <2> QED BY <1>1, <1>5, <2>1, FS_Subset DEF Few
  <1>7. \A x \in DOMAIN joins' : KeyPlace(x) \in Seq(Nat)
    BY <1>1, <1>3 DEF PlacesInv, WrittenBehind
  <1>8. ASSUME NEW base, NEW place, Behind(base, place, DOMAIN joins)
        PROVE  Behind(base, place, DOMAIN joins')
    BY <1>1, <1>8 DEF Behind
  <1>9. ASSUME NEW u \in messages' PROVE Behind(u.base, Positions(u.at), DOMAIN joins')
    <2>1. CASE u \in messages
      BY <1>8, <2>1 DEF PlacesInv, Based
    <2>2. CASE u = joined
      <3>1. \A x \in u.base : x = k
        BY <1>4, <2>2
      <3> QED BY <1>1, <1>3, <1>4, <2>2, <3>1 DEF Behind
    <2> QED BY <1>5, <2>1, <2>2
  <1>10. ASSUME NEW x \in DOMAIN joins', NEW m \in joins'[x].members
         PROVE  Behind(m.base, KeyPlace(x), DOMAIN joins')
    <2>1. CASE x \in DOMAIN joins /\ m \in joins[x].members
      BY <1>8, <2>1 DEF PlacesInv, WrittenBehind
    <2>2. CASE x = k /\ m = P!Id(t)
      <3>1. m.base = t.base
        BY <2>2 DEF P!Id
      <3>2. Behind(t.base, Positions(t.at), DOMAIN joins)
        BY DEF PlacesInv, Based
      <3> QED BY <1>3, <1>8, <2>2, <3>1, <3>2
    <2>3. x = k => m \in members
      BY <1>1
    <2>4. x # k => x \in DOMAIN joins /\ m \in joins[x].members
      BY <1>1
    <2> QED BY <1>5, <2>1, <2>2, <2>3, <2>4
  <1>11. OneKept'
    <2>1. \A u \in messages' : u.phase = "kept" => u \in messages /\ P!JoinOf(u) # k
      BY <1>5
    <2>2. \A u : P!JoinOf(u)' = P!JoinOf(u) /\ (P!NoJoin(P!JoinOf(u))' <=> P!NoJoin(P!JoinOf(u)) /\ P!JoinOf(u) # k)
      BY <1>1 DEF P!JoinOf, P!NoJoin, P!RunAt, P!Frame
    <2> QED BY <2>1, <2>2 DEF PlacesInv, OneKept
  <1> QED BY <1>6, <1>7, <1>9, <1>10, <1>11 DEF PlacesInv, Based, WrittenBehind

\* A message is kept when none is, or in the place of the one that is.
LEMMA PlacesKept ==
    ASSUME PipelineInv, PipelineInv', PlacesInv, NEW t \in messages, P!JoinKeeps(t) \/ P!JoinDrops(t)
    PROVE  PlacesInv'
  <1> DEFINE kept == [t EXCEPT !.phase = "kept"]
             k == P!JoinOf(t)
  <1>1. /\ messages' \subseteq messages \cup {kept} /\ joins' = joins /\ P!NoJoin(k)
        /\ \A u \in messages' : u.phase = "kept" /\ P!JoinOf(u) = k => u = kept
    <2>1. CASE P!JoinKeeps(t)
      <3>1. messages' = (messages \ {t}) \cup {kept} /\ joins' = joins /\ P!NoJoin(k)
            /\ \A u \in messages : ~(u.phase = "kept" /\ P!JoinOf(u) = k)
        BY <2>1 DEF P!JoinKeeps, P!Becomes, P!Kept
      <3> HIDE DEF kept, k
      <3> QED BY <3>1
    <2>2. CASE P!JoinDrops(t)
      <3>1. PICK v \in P!Kept(k) : messages' = (messages \ {t, v}) \cup {kept} /\ joins' = joins /\ P!NoJoin(k)
        BY <2>2 DEF P!JoinDrops
      <3>2. v \in messages /\ v.phase = "kept" /\ P!JoinOf(v) = k
        BY <3>1 DEF P!Kept
      <3>3. \A u \in messages : u.phase = "kept" /\ P!JoinOf(u) = k => u = v
        BY <3>2 DEF PlacesInv, OneKept
      <3> HIDE DEF kept, k
      <3> QED BY <3>1, <3>3
    <2> QED BY <2>1, <2>2
  <1>2. MessageOK(t) /\ kept.at = t.at /\ kept.base = t.base
    BY DEF PipelineInv, MessageOK
  <1>3. P!JoinOf(kept) = k
    BY <1>2 DEF P!JoinOf, P!RunAt, P!Frame
  <1> HIDE DEF kept, k
  <1>4. Few'
    <2>1. IsFiniteSet(messages \cup {kept})
      BY FS_AddElement DEF PlacesInv, Few
    <2>2. IsFiniteSet(messages')
      BY <1>1, <2>1, FS_Subset
    <2> QED BY <1>1, <2>2 DEF PlacesInv, Few
  <1>5. Based'
    <2> SUFFICES ASSUME NEW u \in messages' PROVE Behind(u.base, Positions(u.at), DOMAIN joins')
      BY DEF Based
    <2>1. CASE u \in messages
      BY <1>1, <2>1 DEF PlacesInv, Based
    <2>2. CASE u = kept
      BY <1>1, <1>2, <2>2 DEF PlacesInv, Based
    <2> QED BY <1>1, <2>1, <2>2
  <1>6. WrittenBehind'
    BY <1>1 DEF PlacesInv, WrittenBehind
  <1>7. OneKept'
    <2>1. \A u : P!JoinOf(u)' = P!JoinOf(u) /\ (P!NoJoin(P!JoinOf(u))' <=> P!NoJoin(P!JoinOf(u)))
      BY <1>1 DEF P!JoinOf, P!NoJoin, P!RunAt, P!Frame
    <2>2. ASSUME NEW u \in messages', u.phase = "kept"
          PROVE  /\ P!NoJoin(P!JoinOf(u))
                 /\ \A v \in messages' : v.phase = "kept" /\ P!JoinOf(v) = P!JoinOf(u) => v = u
      <3>1. CASE P!JoinOf(u) = k
        BY <1>1, <2>2, <3>1
      <3>2. CASE P!JoinOf(u) # k
        <4>1. \A v \in messages' : P!JoinOf(v) # k => v \in messages
          BY <1>1, <1>3
        <4> QED BY <2>2, <3>2, <4>1 DEF PlacesInv, OneKept
      <3> QED BY <3>1, <3>2
    <2> QED BY <2>1, <2>2 DEF OneKept
  <1> QED BY <1>4, <1>5, <1>6, <1>7 DEF PlacesInv

LEMMA PlacesJoined ==
    ASSUME PipelineInv, PipelineInv', PlacesInv, NEW t \in messages,
           P!JoinFirst(t) \/ P!JoinMore(t) \/ P!JoinEmpty(t)
    PROVE  PlacesInv'
  <1> DEFINE k == P!JoinOf(t)
             comes == OutOfJoiner(t, {k})
             old == IF k \in DOMAIN joins THEN joins[k].members ELSE {}
  <1>1. MessageOK(t)
    BY DEF PipelineInv
  <1>2. ~P!Finished(t)
    <2>1. CASE P!JoinEmpty(t)
      BY <1>1, <2>1, InPhase DEF P!JoinEmpty
    <2>2. CASE ~P!JoinEmpty(t)
      BY <2>2 DEF P!JoinFirst, P!JoinMore, P!Ready
    <2> QED BY <2>1, <2>2
  <1>3. \A u \in comes : Waits(u)
    BY <1>1, <1>2, OutOfJoinerIs
  <1>4. /\ \E joined \in comes : messages' \subseteq messages \cup {joined}
        /\ \A u \in messages' : u.phase = "kept" => u \in messages /\ P!JoinOf(u) # k
        /\ \E members, closed : members \subseteq {P!Id(t)} \cup old /\ P!JoinWrites(k, members, closed)
    <2>1. CASE P!JoinFirst(t)
      <3>1. PICK joined \in comes :
                messages' = (messages \ (P!Kept(k) \cup {t})) \cup {joined} /\ P!JoinWrites(k, {P!Id(t)}, FALSE)
        BY <2>1 DEF P!JoinFirst, OutOfJoiner
      <3> HIDE DEF comes, k, old
      <3>2. \A u \in messages' : u.phase = "kept" => u \in messages /\ P!JoinOf(u) # k
        BY <1>3, <3>1 DEF P!Kept, Waits
      <3> QED BY <3>1, <3>2
    <2>2. CASE P!JoinMore(t)
      <3> DEFINE members == joins[k].members \cup (IF P!HasData(t) THEN {P!Id(t)} ELSE {})
      <3>1. messages' = messages \ {t} /\ P!JoinWrites(k, members, FALSE) /\ k \in DOMAIN joins
        BY <2>2 DEF P!JoinMore, P!NoJoin
      <3>0. \E joined \in comes : TRUE
        BY DEF OutOfJoiner
      <3> HIDE DEF k, comes
      <3>2. members \subseteq {P!Id(t)} \cup old
        BY <3>1
      <3>3. \A u \in messages' : u.phase = "kept" => u \in messages /\ P!JoinOf(u) # k
        BY <3>1 DEF PlacesInv, OneKept, P!NoJoin
      <3> HIDE DEF members, old
      <3> QED BY <3>0, <3>1, <3>2, <3>3
    <2>3. CASE P!JoinEmpty(t)
      <3>1. PICK joined \in comes :
                messages' = (messages \ {t}) \cup {joined} /\ P!JoinWrites(k, {}, TRUE) /\ t.phase = "kept"
        BY <2>3 DEF P!JoinEmpty, OutOfJoiner
      <3>2. \A u \in messages : u.phase = "kept" /\ P!JoinOf(u) = k => u = t
        BY <3>1 DEF PlacesInv, OneKept
      <3> HIDE DEF comes, k, old
      <3>3. \A u \in messages' : u.phase = "kept" => u \in messages /\ P!JoinOf(u) # k
        BY <1>3, <3>1, <3>2 DEF Waits
      <3> QED BY <3>1, <3>3
    <2> QED BY <2>1, <2>2, <2>3
  <1>5. PICK members, closed : members \subseteq {P!Id(t)} \cup old /\ P!JoinWrites(k, members, closed)
    BY <1>4
  <1>6. PICK joined \in comes : messages' \subseteq messages \cup {joined}
    BY <1>4
  <1> QED BY <1>2, <1>4, <1>5, <1>6, PlacesWritten

LEMMA PlacesClose ==
    ASSUME PlacesInv, NEW k \in DOMAIN joins, P!JoinCloses(k)
    PROVE  PlacesInv'
  <1>1. /\ DOMAIN joins' = DOMAIN joins /\ messages' = messages
        /\ \A x \in DOMAIN joins : joins'[x].members = joins[x].members
    <2>1. P!JoinWrites(k, joins[k].members, TRUE) /\ messages' = messages
      BY DEF P!JoinCloses
    <2> QED BY <2>1 DEF P!JoinWrites
  <1>2. Few' /\ Based' /\ WrittenBehind'
    BY <1>1 DEF PlacesInv, Few, Based, WrittenBehind
  <1>3. OneKept'
    <2>1. \A u : P!JoinOf(u)' = P!JoinOf(u) /\ (P!NoJoin(P!JoinOf(u))' <=> P!NoJoin(P!JoinOf(u)))
      BY <1>1 DEF P!JoinOf, P!NoJoin, P!RunAt, P!Frame
    <2> QED BY <1>1, <2>1 DEF PlacesInv, OneKept
  <1> QED BY <1>2, <1>3 DEF PlacesInv

LEMMA PlacesStep == PipelineInv /\ PlacesInv /\ [P!Next]_pipelineVars => PlacesInv'
  <1> SUFFICES ASSUME PipelineInv, PlacesInv, [P!Next]_pipelineVars PROVE PlacesInv'
    OBVIOUS
  <1>1. PipelineInv'
    BY PipelineStep
  <1>2. ASSUME NEW t \in messages, GoesOn(t) PROVE PlacesInv'
    <2>1. PICK ts : IsFiniteSet(ts) /\ AllFollow(t, ts) /\ P!Becomes(t, ts)
      BY <1>2 DEF GoesOn
    <2>2. messages' = (messages \ {t}) \cup ts /\ joins' = joins /\ \A u \in ts : u.phase # "kept" /\ Follows(t, u)
      BY <2>1 DEF P!Becomes, AllFollow, Waits
    <2>3. messages' \subseteq messages \cup ts /\ ts \subseteq messages'
      BY <2>2
    <2> QED BY <1>1, <2>1, <2>2, <2>3, PlacesFollow
  <1>3. ASSUME NEW t \in messages, P!Start(t) PROVE PlacesInv'
    <2>1. PICK u : Follows(t, u) /\ u.phase # "kept" /\ P!Becomes(t, {u})
      BY <1>3, Starts
    <2>2. messages' = (messages \ {t}) \cup {u} /\ joins' = joins
      BY <2>1 DEF P!Becomes
    <2>3. messages' \subseteq messages \cup {u} /\ {u} \subseteq messages' /\ IsFiniteSet({u})
      BY <2>2, FS_Singleton
    <2> QED BY <1>1, <2>1, <2>2, <2>3, PlacesFollow
  <1>4. ASSUME NEW t \in messages, P!Leave(t) PROVE PlacesInv'
    <2>1. CASE GoesOn(t)
      BY <1>2, <2>1
    <2>2. CASE messages' = messages \ {t} /\ joins' = joins
      <3>1. messages' \subseteq messages \cup {} /\ {} \subseteq messages' /\ IsFiniteSet({})
        BY <2>2, FS_EmptySet
      <3> QED BY <1>1, <2>2, <3>1, PlacesFollow
    <2> QED BY <1>4, <2>1, <2>2, MessagesLeave
  <1>5. ASSUME NEW t \in messages, P!Goes(t) PROVE PlacesInv'
    <2>1. \/ P!Start(t) \/ P!Leave(t) \/ GoesOn(t)
          \/ P!JoinKeeps(t) \/ P!JoinDrops(t) \/ P!JoinFirst(t) \/ P!JoinMore(t) \/ P!JoinEmpty(t)
      BY <1>5, StepsMove, RequestsAreAnswered, SubsMove DEF P!Goes
    <2> QED BY <1>1, <1>2, <1>3, <1>4, <2>1, PlacesKept, PlacesJoined
  <1>6. CASE UNCHANGED pipelineVars
    <2>1. messages' = messages /\ joins' = joins
      BY <1>6 DEF pipelineVars
    <2>2. \A u : P!JoinOf(u)' = P!JoinOf(u) /\ (P!NoJoin(P!JoinOf(u))' <=> P!NoJoin(P!JoinOf(u)))
      BY <2>1 DEF P!JoinOf, P!NoJoin, P!RunAt, P!Frame
    <2> QED BY <2>1, <2>2 DEF PlacesInv, Few, Based, WrittenBehind, OneKept
  <1> QED BY <1>5, <1>6, PlacesClose DEF P!Next

-----------------------------------------------------------------------------
(* No stall.  Of the deepest messages, one with the fewest elements behind it can go, or is the *)
(* last to come to its joiner.  With no message left, a first joiner that is open closes.       *)

\* A finite set that is strictly ordered has a first element.
LEMMA FirstOf ==
    ASSUME NEW S, IsFiniteSet(S), S # {}, NEW before, \A x \in S : <<x, x>> \notin before,
           \A x \in S, y \in S, z \in S : <<x, y>> \in before /\ <<y, z>> \in before => <<x, z>> \in before
    PROVE  \E x \in S : \A y \in S : <<y, x>> \notin before
  <1> DEFINE Ahead(x) == {y \in S : <<y, x>> \in before}
             ranks == {Cardinality(Ahead(x)) : x \in S}
  <1>1. \A x \in S : IsFiniteSet(Ahead(x)) /\ Cardinality(Ahead(x)) \in Nat
    BY FS_Subset, FS_CardinalityType
  <1> HIDE DEF Ahead
  <1>2. ranks \in SUBSET Nat /\ ranks # {}
    BY <1>1
  <1>3. PICK n \in ranks : \A m \in ranks : n <= m
    <2> HIDE DEF ranks
    <2> QED BY <1>2, LeastOf
  <1>4. PICK x \in S : n = Cardinality(Ahead(x))
    BY <1>3
  <1>5. ASSUME NEW y \in S, <<y, x>> \in before PROVE FALSE
    <2>1. Ahead(y) \in SUBSET Ahead(x) /\ y \in Ahead(x) /\ y \notin Ahead(y)
      BY <1>5 DEF Ahead
    <2>2. Cardinality(Ahead(x)) <= Cardinality(Ahead(y))
      BY <1>3, <1>4
    <2>3. Cardinality(Ahead(y)) = Cardinality(Ahead(x))
      BY <2>1, <2>2, <1>1, FS_Subset
    <2> QED BY <2>1, <2>3, <1>1, FS_Subset
  <1> QED BY <1>5

\* What a run of the pipeline in which nobody goes is left with.
LEMMA WhoCannotGo ==
    ASSUME PipelineInv, Limit > 0, ~P!Hung, \A t \in messages : ~P!CanGo(t), NEW t \in messages
    PROVE  t.phase \in {"teed", "kept"}
  <1>1. \A u \in messages : MessageOK(u) /\ u.phase \in {"ready", "sent", "running", "held", "lost", "teed", "kept"}
    BY DEF PipelineInv, MessageOK, Fields
  <1>2. \A u \in messages : u.phase # "running"
    BY DEF P!CanGo
  <1>3. P!LimiterLets
    <2>1. P!Running = {}
      BY <1>2 DEF P!Running
    <2> QED BY <2>1, SameCount, FS_EmptySet DEF P!LimiterLets
  <1>4. t.phase # "ready"
    <2> SUFFICES ASSUME t.phase = "ready" PROVE FALSE
      OBVIOUS
    <2>1. Inside(t.at) => KindAt(t.at) # "mode"
      BY <1>1, PlaceOf DEF FrameOK, Inside, KindAt
    <2>2. P!Finished(t) \/ P!Here(t).kind # "mode"
      BY <1>1, <2>1, PlaceOf DEF P!Here, KindAt
    <2> QED BY <2>2 DEF P!CanGo
  <1>5. t.phase # "sent"
    BY <1>3 DEF P!CanGo
  <1>6. t.phase \notin {"held", "lost"}
    <2>1. t.phase = "held" => P!Here(t).kind = "split"
      BY <1>1, InPhase DEF WaitsAt
    <2> QED BY <2>1 DEF P!Hung
  <1> QED BY <1>1, <1>2, <1>4, <1>5, <1>6

LEMMA SomebodyGoes ==
    ASSUME PipelineInv, PlacesInv, Limit > 0, messages # {}, ~P!Hung
    PROVE  \E t \in messages : P!CanGo(t)
  <1> SUFFICES ASSUME \A t \in messages : ~P!CanGo(t) PROVE FALSE
    OBVIOUS
  <1> DEFINE Depth(t) == Len(t.at)
             Pos(t) == t.at[Len(t.at)].pos
             Comes(t, u) == Depth(t) > Depth(u) \/ (Depth(t) = Depth(u) /\ Pos(t) < Pos(u))
             before == {pair \in messages \X messages : Comes(pair[1], pair[2])}
  <1>1. \A t \in messages : MessageOK(t) /\ Depth(t) \in Nat \ {0} /\ Pos(t) \in Nat
    <2> SUFFICES ASSUME NEW t \in messages PROVE MessageOK(t) /\ Depth(t) \in Nat \ {0} /\ Pos(t) \in Nat
      OBVIOUS
    <2>1. MessageOK(t) /\ AtOK(t.at)
      BY DEF PipelineInv, MessageOK, Fields
    <2> QED BY <2>1, AtFacts, PositionsAre
  <1>2. PICK t \in messages : \A u \in messages : ~Comes(u, t)
    <2> HIDE DEF Depth, Pos
    <2>1. \A x \in messages : <<x, x>> \notin before
      BY <1>1
    <2>2. \A x \in messages, y \in messages, z \in messages :
            <<x, y>> \in before /\ <<y, z>> \in before => <<x, z>> \in before
      BY <1>1
    <2>3. \A x \in messages, y \in messages : <<x, y>> \in before <=> Comes(x, y)
      OBVIOUS
    <2> HIDE DEF before, Comes
    <2>4. \E x \in messages : \A y \in messages : <<y, x>> \notin before
      BY <2>1, <2>2, FirstOf DEF PlacesInv, Few
    <2> QED BY <2>3, <2>4
  <1>3. \A u \in messages : Depth(u) <= Depth(t)
    <2> HIDE DEF Depth, Pos
    <2> QED BY <1>1, <1>2
  <1>4. ASSUME NEW u \in messages, Depth(u) = Depth(t) PROVE u.phase = "kept"
    <2>1. P!LeftNobodyIn(u)
      <3>1. \A v \in messages : ~(Len(v.at) > Len(u.at))
        BY <1>1, <1>3, <1>4
      <3> QED BY <3>1 DEF P!LeftNobodyIn
    <2>2. u.phase # "teed"
      BY <2>1 DEF P!CanGo
    <2> QED BY <2>2, WhoCannotGo
  <1>5. ASSUME NEW u \in P!Upstream(P!JoinOf(t).run, P!JoinOf(t).pos) PROVE u = t
    <2> DEFINE n == Len(t.at)
               run == P!RunAt(t, n)
    <2>1. /\ u \in messages /\ Len(u.at) >= Len(run) /\ P!RunAt(u, Len(run)) = run
          /\ u.at[Len(run)].pos <= t.at[n].pos
      BY DEF P!Upstream, P!JoinOf, P!Frame
    <2>2. Len(run) = n
      BY <1>1, RunIs
    <2>3. Depth(u) = n
      BY <1>1, <1>3, <2>1, <2>2
    <2>4. Pos(u) = t.at[n].pos
      <3>1. Pos(u) <= Pos(t) /\ ~(Pos(u) < Pos(t)) /\ Pos(u) \in Nat /\ Pos(t) \in Nat
        BY <1>1, <1>2, <2>1, <2>2, <2>3
      <3> HIDE DEF Pos
      <3>2. Pos(u) = Pos(t)
        BY <3>1
      <3> QED BY <3>2 DEF Pos
    <2>5. P!JoinOf(u) = P!JoinOf(t)
      BY <2>1, <2>2, <2>3, <2>4 DEF P!JoinOf, P!Frame
    <2>6. u.phase = "kept" /\ t.phase = "kept"
      BY <1>4, <2>1, <2>3
    <2> QED BY <2>1, <2>5, <2>6 DEF PlacesInv, OneKept
  <1>6. t \in P!Upstream(P!JoinOf(t).run, P!JoinOf(t).pos)
    <2>1. Len(P!RunAt(t, Len(t.at))) = Len(t.at) /\ Len(t.at) \in Nat /\ t.at[Len(t.at)].pos \in Nat
      BY <1>1, RunIs
    <2>2. ~P!Aside(t, Len(t.at))
      BY <2>1 DEF P!Aside
    <2> QED BY <2>1, <2>2 DEF P!Upstream, P!JoinOf, P!Frame
  <1>7. t.phase = "kept" /\ P!NoJoin(P!JoinOf(t))
    BY <1>4 DEF PlacesInv, OneKept
  <1>8. P!LastToCome(t)
    BY <1>5, <1>6, <1>7 DEF P!LastToCome
  <1> QED BY <1>7, <1>8 DEF P!CanGo

LEMMA SomeStreamEnds ==
    ASSUME PipelineInv, PlacesInv, messages = {}, NEW j \in DOMAIN joins, ~joins[j].closed
    PROVE  \E k \in DOMAIN joins : P!StreamEnds(k)
  <1> DEFINE S == {k \in DOMAIN joins : ~joins[k].closed}
             before == {pair \in S \X S : PlaceBefore(KeyPlace(pair[1]), KeyPlace(pair[2]))}
  <1>1. IsFiniteSet(S) /\ S # {}
    BY FS_Subset DEF PlacesInv, Few
  <1>2. \A k \in S : k \in DOMAIN joins /\ KeyPlace(k) \in Seq(Nat)
    BY DEF PlacesInv, WrittenBehind
  <1>3. \A x \in S, y \in S : <<x, y>> \in before <=> PlaceBefore(KeyPlace(x), KeyPlace(y))
    OBVIOUS
  <1> HIDE DEF before
  <1>4. \A x \in S : <<x, x>> \notin before
    BY <1>2, <1>3, NotBeforeItself
  <1>5. \A x \in S, y \in S, z \in S : <<x, y>> \in before /\ <<y, z>> \in before => <<x, z>> \in before
    BY <1>2, <1>3, OrderOfPlaces
  <1>6. PICK k \in S : \A y \in S : <<y, k>> \notin before
    <2> HIDE DEF S
    <2> QED BY <1>1, <1>4, <1>5, FirstOf
  <1>7. ASSUME NEW m \in joins[k].members, NEW x \in m.base PROVE joins[x].closed
    <2>1. x \in DOMAIN joins /\ PlaceBefore(KeyPlace(x), KeyPlace(k))
      BY DEF PlacesInv, WrittenBehind, Behind
    <2> QED BY <1>3, <1>6, <2>1
  <1>8. P!Upstream(k.run, k.pos) = {}
    BY DEF P!Upstream
  <1> QED BY <1>6, <1>7, <1>8 DEF P!StreamEnds

LEMMA RunsDoNotStall == PipelineInv /\ PlacesInv /\ Limit > 0 => P!NoPipelineStalls
  <1>1. PipelineInv => \A k \in DOMAIN joins : joins[k].closed \in BOOLEAN
    BY DEF PipelineInv
  <1> QED BY <1>1, SomebodyGoes, SomeStreamEnds DEF P!NoPipelineStalls, P!Over

-----------------------------------------------------------------------------
(* Calls.  What is open and what is closed at each stage of a call, and where items come from.   *)

Inners == {"pre", "func", "post"}
AfterClose == {"closed", "filter", "answered", "thrown"}
Mimed == {"mime", "match", "close"} \cup AfterClose

CallPcs == {"route", "permit", "stuck"} \cup Inners \cup Mimed

Call == [kind : {"incoming", "outgoing", "private", "item"}, by : 0..MaxCalls,
         source : {"External", "Internal", "Outer"}, owner : 1..MaxCalls,
         listing : {"no", "recursive", "items", "zip"},
         pc : CallPcs,
         out : {"ok", "not", "throw"}, open : 0..MaxAdapters, closed : BOOLEAN,
         tees : BOOLEAN, loose : BOOLEAN]

HasItems(s, c) == \E d \in DOMAIN s : s[d].owner = c /\ d # c /\ s[d].kind = "item"
AdriftIn(s, c) == \E d \in DOMAIN s : s[d].kind = "item" /\ d <= c /\ s[s[d].by].pc # "mime"

\* Adapters are open from the time a call is routed till it is closed, and again only if an
\* item of it opens them; an item has none of its own.
Lifetime(q, has) ==
    /\ q.closed => q.pc \in AfterClose
    /\ q.pc \in AfterClose /\ q.open > 0 => has
    /\ q.pc = "route" => q.open = 0
    /\ q.kind = "item" => q.pc \in Inners \cup {"stuck", "mime", "answered", "thrown"} /\ q.open = 0 /\ ~q.closed

\* An item was asked for by a call that had come to its listing.  It has its lister's adapters:
\* the owner of these lists too, or did before, so that its first item is older.
OfItem(s, c) ==
    LET asker == s[c].by
        owner == s[c].owner
    IN  /\ asker \in DOMAIN s /\ s[asker].pc \in Mimed /\ owner = s[asker].owner
        /\ owner \in DOMAIN s /\ owner < c /\ s[owner].kind # "item"
        /\ \E d \in DOMAIN s : d <= c /\ s[d].kind = "item" /\ s[d].by = owner
        /\ s[owner].pc = "mime" \/ AdriftIn(s, c)

CallsOK(s) ==
    /\ s \in Seq(Call) /\ Len(s) <= MaxCalls
    /\ \A c \in DOMAIN s :
        /\ s[c].by < c /\ Lifetime(s[c], HasItems(s, c))
        /\ IF s[c].kind = "item" THEN OfItem(s, c) ELSE s[c].owner = c

CallsInv == CallsOK(calls)

\* One call moves on: no item and no owner of items goes back to its listing.
Moves(p, q) ==
    /\ q.by = p.by /\ q.owner = p.owner /\ (q.kind = "item" <=> p.kind = "item")
    /\ (p.pc \in Mimed => q.pc \in Mimed) /\ (p.pc \in Mimed \ {"mime"} => q.pc # "mime")

LEMMA OneMoves ==
    ASSUME NEW s, CallsOK(s), NEW c \in DOMAIN s, NEW q \in Call,
           Moves(s[c], q), Lifetime(q, HasItems(s, c))
    PROVE  CallsOK([s EXCEPT ![c] = q])
  <1> DEFINE u == [s EXCEPT ![c] = q]
  <1>1. s \in Seq(Call) /\ Len(s) <= MaxCalls /\ Len(s) \in Nat /\ DOMAIN s = 1..Len(s)
    BY DEF CallsOK
  <1>2. u \in Seq(Call) /\ Len(u) = Len(s) /\ DOMAIN u = DOMAIN s /\ u[c] = q
        /\ \A d \in DOMAIN s : d # c => u[d] = s[d]
    BY <1>1
  <1> HIDE DEF u
  <1>3. \A d \in DOMAIN s : Moves(s[d], u[d])
    <2>1. \A d \in DOMAIN s : d # c => Moves(s[d], u[d])
      BY <1>2 DEF Moves
    <2> QED BY <1>2, <2>1
  <1>4. ASSUME NEW d \in DOMAIN s PROVE HasItems(u, d) <=> HasItems(s, d)
    BY <1>2, <1>3 DEF HasItems, Moves
  <1>5. ASSUME NEW d \in DOMAIN s, s[d].kind = "item" PROVE OfItem(s, d)
    BY <1>5 DEF CallsOK
  <1>6. ASSUME NEW d \in DOMAIN s, AdriftIn(s, d) PROVE AdriftIn(u, d)
    <2>1. PICK e \in DOMAIN s : s[e].kind = "item" /\ e <= d /\ s[s[e].by].pc # "mime"
      BY <1>6 DEF AdriftIn
    <2>2. s[e].by \in DOMAIN s /\ s[s[e].by].pc \in Mimed
      BY <1>5, <2>1 DEF OfItem
    <2>3. u[e].kind = "item" /\ u[e].by = s[e].by /\ u[s[e].by].pc # "mime"
      BY <1>3, <2>1, <2>2 DEF Moves
    <2> QED BY <1>2, <2>1, <2>3 DEF AdriftIn
  <1>7. ASSUME NEW d \in DOMAIN s PROVE Lifetime(u[d], HasItems(u, d))
    <2>1. CASE d = c
      BY <1>2, <1>4, <2>1 DEF Lifetime
    <2>2. CASE d # c
      <3>1. Lifetime(s[d], HasItems(s, d))
        BY DEF CallsOK
      <3> QED BY <1>2, <1>4, <2>2, <3>1 DEF Lifetime
    <2> QED BY <2>1, <2>2
  <1>8. ASSUME NEW d \in DOMAIN s, u[d].kind = "item" PROVE OfItem(u, d)
    <2> DEFINE asker == s[d].by
               owner == s[d].owner
    <2>1. s[d].kind = "item" /\ u[d].by = asker /\ u[d].owner = owner
      BY <1>3, <1>8 DEF Moves
    <2>2. /\ asker \in DOMAIN s /\ s[asker].pc \in Mimed /\ owner = s[asker].owner
          /\ owner \in DOMAIN s /\ owner < d /\ s[owner].kind # "item"
          /\ \E e \in DOMAIN s : e <= d /\ s[e].kind = "item" /\ s[e].by = owner
          /\ s[owner].pc = "mime" \/ AdriftIn(s, d)
      BY <1>5, <2>1 DEF OfItem
    <2>3. PICK e \in DOMAIN s : e <= d /\ s[e].kind = "item" /\ s[e].by = owner
      BY <2>2
    <2>4. u[e].kind = "item" /\ u[e].by = owner
      BY <1>3, <2>3 DEF Moves
    <2>5. u[owner].pc = "mime" \/ AdriftIn(u, d)
      <3>1. CASE u[owner].pc # "mime"
        BY <1>2, <2>3, <2>4, <3>1 DEF AdriftIn
      <3> QED BY <3>1
    <2>6. u[asker].pc \in Mimed /\ u[asker].owner = owner /\ u[owner].kind # "item"
      BY <1>3, <2>2 DEF Moves
    <2> HIDE DEF asker, owner
    <2> QED BY <1>2, <2>1, <2>2, <2>3, <2>4, <2>5, <2>6 DEF OfItem
  <1>9. ASSUME NEW d \in DOMAIN s PROVE u[d].by < d /\ (u[d].kind # "item" => u[d].owner = d)
    <2>1. s[d].by < d /\ (s[d].kind # "item" => s[d].owner = d)
      BY DEF CallsOK
    <2> QED BY <1>3, <2>1 DEF Moves
  <1>10. CallsOK(u)
    BY <1>1, <1>2, <1>7, <1>8, <1>9 DEF CallsOK
  <1> QED BY <1>10 DEF u

\* A call is made, or an item is asked for by a call at its listing.
LEMMA OneIsMade ==
    ASSUME NEW s, CallsOK(s), Len(s) < MaxCalls, NEW q \in Call,
           q.by <= Len(s), ~q.closed, q.open = 0, q.pc \in {"route", "pre"},
           IF q.kind = "item" THEN q.pc = "pre" /\ q.by \in DOMAIN s /\ s[q.by].pc = "mime" /\ q.owner = s[q.by].owner
           ELSE q.owner = Len(s) + 1
    PROVE  CallsOK(Append(s, q))
  <1> DEFINE u == Append(s, q)
             n == Len(s) + 1
  <1>1. s \in Seq(Call) /\ Len(s) \in Nat /\ DOMAIN s = 1..Len(s) /\ MaxCalls \in Nat
    BY CallConstants DEF CallsOK
  <1>2. u \in Seq(Call) /\ Len(u) = n /\ DOMAIN u = 1..n /\ u[n] = q /\ \A d \in 1..Len(s) : u[d] = s[d]
    BY <1>1
  <1>3. \A d \in 1..n : d \in DOMAIN s \/ d = n
    BY <1>1
  <1>4. DOMAIN s \subseteq DOMAIN u /\ n \in DOMAIN u /\ n \notin DOMAIN s /\ \A d \in DOMAIN s : d < n /\ d <= n
    BY <1>1, <1>2
  <1> HIDE DEF u
  <1>5. \A d \in DOMAIN s : u[d] = s[d]
    BY <1>1, <1>2
  <1>6. ASSUME NEW d \in DOMAIN s, s[d].kind = "item" PROVE OfItem(s, d)
    BY <1>6 DEF CallsOK
  <1>7. ASSUME NEW d \in DOMAIN s, HasItems(s, d) PROVE HasItems(u, d)
    BY <1>4, <1>5, <1>7 DEF HasItems
  <1>8. ASSUME NEW d \in DOMAIN s, NEW f \in DOMAIN u, d <= f, AdriftIn(s, d) PROVE AdriftIn(u, f)
    <2>1. PICK e \in DOMAIN s : s[e].kind = "item" /\ e <= d /\ s[s[e].by].pc # "mime"
      BY <1>8 DEF AdriftIn
    <2>2. s[e].by \in DOMAIN s
      BY <1>6, <2>1 DEF OfItem
    <2>3. e <= f
      BY <1>1, <1>2, <1>8, <2>1
    <2> QED BY <1>4, <1>5, <2>1, <2>2, <2>3 DEF AdriftIn
  <1>9. ASSUME NEW d \in DOMAIN u PROVE Lifetime(u[d], HasItems(u, d))
    <2>1. CASE d \in DOMAIN s
      <3>1. Lifetime(s[d], HasItems(s, d))
        BY <2>1 DEF CallsOK
      <3> QED BY <1>5, <1>7, <2>1, <3>1 DEF Lifetime
    <2>2. CASE d = n
      BY <1>2, <2>2 DEF Lifetime, Inners, AfterClose
    <2> QED BY <1>2, <1>3, <2>1, <2>2
  <1>10. ASSUME NEW d \in DOMAIN s, u[d].kind = "item" PROVE OfItem(u, d)
    <2>1. OfItem(s, d)
      BY <1>5, <1>6, <1>10
    <2>2. d <= d
      BY <1>1
    <2>3. AdriftIn(s, d) => AdriftIn(u, d)
      BY <1>4, <1>8, <2>2
    <2> QED BY <1>4, <1>5, <2>1, <2>3 DEF OfItem
  <1>11. ASSUME q.kind = "item" PROVE OfItem(u, n)
    <2> DEFINE asker == q.by
               owner == q.owner
    <2>1. q.pc = "pre" /\ asker \in DOMAIN s /\ s[asker].pc = "mime" /\ owner = s[asker].owner
      BY <1>11
    <2>2. /\ owner \in DOMAIN s /\ s[owner].kind # "item"
          /\ \E d \in DOMAIN u : d <= n /\ u[d].kind = "item" /\ u[d].by = owner
          /\ u[owner].pc = "mime" \/ AdriftIn(u, n)
      <3>1. CASE s[asker].kind = "item"
        <4>1. /\ owner \in DOMAIN s /\ s[owner].kind # "item"
              /\ \E d \in DOMAIN s : d <= asker /\ s[d].kind = "item" /\ s[d].by = owner
              /\ s[owner].pc = "mime" \/ AdriftIn(s, asker)
          <5>1. OfItem(s, asker)
            BY <1>6, <2>1, <3>1
          <5> HIDE DEF asker
          <5> QED BY <2>1, <5>1 DEF OfItem
        <4>2. PICK d \in DOMAIN s : d <= asker /\ s[d].kind = "item" /\ s[d].by = owner
          BY <4>1
        <4>3. d \in DOMAIN u /\ d <= n /\ u[d].kind = "item" /\ u[d].by = owner
          BY <1>4, <1>5, <4>2
        <4>4. AdriftIn(s, asker) => AdriftIn(u, n)
          BY <1>4, <1>8, <2>1
        <4> QED BY <1>5, <4>1, <4>3, <4>4
      <3>2. CASE s[asker].kind # "item"
        <4>1. owner = asker
          BY <2>1, <3>2 DEF CallsOK
        <4>2. n <= n
          BY <1>1
        <4>3. u[owner].pc = "mime"
          BY <1>5, <2>1, <4>1
        <4> HIDE DEF owner
        <4>4. n \in DOMAIN u /\ n <= n /\ u[n].kind = "item" /\ u[n].by = owner
          BY <1>2, <1>4, <1>11, <4>1, <4>2
        <4> QED BY <2>1, <3>2, <4>1, <4>3, <4>4
      <3> QED BY <3>1, <3>2
    <2>3. u[asker].pc \in Mimed /\ u[asker].owner = owner /\ u[owner].kind # "item" /\ owner < n
      BY <1>4, <1>5, <2>1, <2>2 DEF Mimed
    <2>4. u[n].by = asker /\ u[n].owner = owner
      BY <1>2
    <2> HIDE DEF asker, owner, n
    <2> QED BY <1>4, <2>1, <2>2, <2>3, <2>4 DEF OfItem
  <1>12. ASSUME NEW d \in DOMAIN u
         PROVE u[d].by < d /\ (IF u[d].kind = "item" THEN OfItem(u, d) ELSE u[d].owner = d)
    <2>1. CASE d \in DOMAIN s
      <3>1. s[d].by < d /\ (s[d].kind # "item" => s[d].owner = d)
        BY <2>1 DEF CallsOK
      <3> QED BY <1>5, <1>10, <2>1, <3>1
    <2>2. CASE d = n
      <3>1. q.by < n
        BY <1>1 DEF Call
      <3> QED BY <1>2, <1>11, <2>2, <3>1
    <2> QED BY <1>2, <1>3, <2>1, <2>2
  <1>13. CallsOK(u)
    BY <1>1, <1>2, <1>9, <1>12 DEF CallsOK
  <1> QED BY <1>13 DEF u

\* A call that goes on in its work, or to its end.
LEMMA OneGoesFurther ==
    ASSUME CallsInv, NEW c \in R!Ids, NEW q \in Call, calls' = [calls EXCEPT ![c] = q],
           q.by = calls[c].by, q.owner = calls[c].owner, q.kind = calls[c].kind,
           q.open = calls[c].open, q.closed = calls[c].closed,
           \/ calls[c].pc = "permit" /\ calls[c].kind # "item" /\ q.pc \in {"pre", "close"}
           \/ calls[c].pc \in Inners /\ q.pc \in Inners \cup {"mime", "stuck"}
           \/ calls[c].pc \in {"mime", "match"} /\ calls[c].kind # "item" /\ q.pc \in {"match", "close"}
    PROVE  CallsInv'
  <1>1. c \in DOMAIN calls /\ calls[c] \in Call /\ Lifetime(calls[c], HasItems(calls, c))
    BY DEF CallsInv, CallsOK, R!Ids
  <1>2. Moves(calls[c], q)
    <2>1. calls[c].pc \in Mimed => q.pc \in Mimed
      BY DEF Mimed, AfterClose, Inners
    <2>2. calls[c].pc \in Mimed \ {"mime"} => q.pc # "mime"
      BY DEF Mimed, AfterClose, Inners
    <2> QED BY <2>1, <2>2 DEF Moves
  <1>3. Lifetime(q, HasItems(calls, c))
    BY <1>1 DEF Lifetime, AfterClose, Inners
  <1> QED BY <1>1, <1>2, <1>3, OneMoves DEF CallsInv

LEMMA GoingOn ==
    ASSUME CallsInv, NEW c \in R!Ids, NEW pc \in {"stuck", "mime", "close"} \cup Inners,
           NEW res \in {"ok", "not", "throw"}, R!Goes(c, pc, res),
           \/ calls[c].pc = "permit" /\ pc \in {"pre", "close"}
           \/ calls[c].pc \in Inners /\ pc \in Inners \cup {"mime", "stuck"}
           \/ calls[c].pc = "match" /\ pc = "close"
    PROVE  CallsInv'
  <1> DEFINE q == [calls[c] EXCEPT !.pc = pc, !.out = res]
  <1>1. c \in DOMAIN calls /\ calls[c] \in Call /\ Lifetime(calls[c], HasItems(calls, c))
    BY DEF CallsInv, CallsOK, R!Ids
  <1>2. calls' = [calls EXCEPT ![c] = q]
    BY DEF R!Goes
  <1>3. pc \in CallPcs
    BY DEF CallPcs, Mimed
  <1>4. q \in Call
    BY <1>1, <1>3 DEF Call
  <1>5. /\ q.by = calls[c].by /\ q.owner = calls[c].owner /\ q.kind = calls[c].kind /\ q.pc = pc
        /\ q.open = calls[c].open /\ q.closed = calls[c].closed
    BY <1>1 DEF Call
  <1>6. calls[c].pc \in {"permit", "match"} => calls[c].kind # "item"
    BY <1>1 DEF Lifetime, Inners
  <1> HIDE DEF q
  <1> QED BY <1>2, <1>4, <1>5, <1>6, OneGoesFurther

LEMMA CallEnds ==
    ASSUME CallsInv, NEW c \in R!Ids, NEW pc \in {"answered", "thrown"},
           NEW res \in {"ok", "not", "throw"}, R!Ends(c, pc, res),
           calls[c].pc \in {"route"} \cup AfterClose \/ calls[c].kind = "item"
    PROVE  CallsInv'
  <1> DEFINE kind == IF calls[c].kind # "item" /\ pc = "answered" THEN "private" ELSE calls[c].kind
             seen == IF calls[c].loose THEN "ok" ELSE res
             q == [calls[c] EXCEPT !.pc = pc, !.out = seen, !.source = "Internal", !.listing = "no", !.kind = kind]
  <1>1. c \in DOMAIN calls /\ calls[c] \in Call /\ Lifetime(calls[c], HasItems(calls, c))
    BY DEF CallsInv, CallsOK, R!Ids
  <1>2. calls' = [calls EXCEPT ![c] = q]
    BY DEF R!Ends
  <1>3. q \in Call /\ Moves(calls[c], q)
    <2>1. pc \in CallPcs /\ pc \in Mimed /\ pc # "mime"
      BY DEF CallPcs, Mimed, AfterClose
    <2>2. kind \in {"incoming", "outgoing", "private", "item"} /\ (kind = "item" <=> calls[c].kind = "item")
      BY <1>1 DEF Call
    <2>5. seen \in {"ok", "not", "throw"}
      OBVIOUS
    <2> HIDE DEF kind, seen
    <2>3. q \in Call
      BY <1>1, <2>1, <2>2, <2>5 DEF Call
    <2>4. q.by = calls[c].by /\ q.owner = calls[c].owner /\ q.kind = kind /\ q.pc = pc
      BY <1>1 DEF Call
    <2> QED BY <2>1, <2>2, <2>3, <2>4 DEF Moves
  <1>4. Lifetime(q, HasItems(calls, c))
    BY <1>1 DEF Call, Lifetime, AfterClose, Inners
  <1> HIDE DEF q
  <1> QED BY <1>1, <1>2, <1>3, <1>4, OneMoves DEF CallsInv

\* An adapter is got for a call when it is routed.
LEMMA CallIsServed ==
    ASSUME CallsInv, NEW c \in R!Ids, R!Served(c), calls[c].pc = "route"
    PROVE  CallsInv'
  <1> DEFINE kind == IF calls[c].kind = "incoming" THEN "outgoing" ELSE calls[c].kind
             source == IF calls[c].source = "External" THEN "External" ELSE "Internal"
             pc == IF calls[c].source = "Internal" THEN "pre" ELSE "permit"
  <1>1. PICK n \in 0..1 :
            calls' = [calls EXCEPT ![c] = [@ EXCEPT !.open = n, !.kind = kind, !.source = source, !.pc = pc]]
    BY DEF R!Served
  <1> DEFINE q == [calls[c] EXCEPT !.open = n, !.kind = kind, !.source = source, !.pc = pc]
  <1>2. c \in DOMAIN calls /\ calls[c] \in Call /\ Lifetime(calls[c], HasItems(calls, c))
    BY DEF CallsInv, CallsOK, R!Ids
  <1>3. calls' = [calls EXCEPT ![c] = q]
    BY <1>1
  <1>4. n \in 0..MaxAdapters
    BY CallConstants
  <1>5. calls[c].kind # "item" /\ ~calls[c].closed
    BY <1>2 DEF Lifetime, Inners, AfterClose
  <1>6. kind \in {"outgoing", "private"} /\ source \in {"External", "Internal"} /\ pc \in {"pre", "permit"}
    BY <1>2, <1>5 DEF Call
  <1> HIDE DEF kind, source, pc
  <1>7. q \in Call
    BY <1>2, <1>4, <1>6 DEF CallPcs, Call, Inners
  <1>8. /\ q.by = calls[c].by /\ q.owner = calls[c].owner /\ q.kind = kind /\ q.pc = pc
        /\ q.closed = calls[c].closed
    BY <1>2 DEF Call
  <1> HIDE DEF q
  <1>9. Moves(calls[c], q)
    BY <1>5, <1>6, <1>8 DEF Moves, Mimed, AfterClose
  <1>10. Lifetime(q, HasItems(calls, c))
    BY <1>5, <1>6, <1>8 DEF Lifetime, AfterClose
  <1> QED BY <1>2, <1>3, <1>7, <1>9, <1>10, OneMoves DEF CallsInv

\* Routing, and what becomes of exceptions.
LEMMA CallsAreRouted ==
    ASSUME CallsInv, NEW c, R!Incoming(c) \/ R!Outgoing(c) \/ R!Private(c) \/ R!Caught(c)
    PROVE  CallsInv'
  <1>1. c \in R!Ids /\ calls[c].pc \in {"route", "thrown"}
    BY DEF R!Incoming, R!Outgoing, R!Private, R!Caught, R!At
  <1>2. CASE R!Served(c) /\ calls[c].pc = "route"
    BY <1>1, <1>2, CallIsServed
  <1>3. CASE \E pc \in {"answered", "thrown"}, res \in {"ok", "not", "throw"} : R!Ends(c, pc, res)
    BY <1>1, <1>3, CallEnds DEF AfterClose
  <1>4. \/ R!Served(c) /\ calls[c].pc = "route"
        \/ \E pc \in {"answered", "thrown"}, res \in {"ok", "not", "throw"} : R!Ends(c, pc, res)
    BY DEF R!Incoming, R!Outgoing, R!Private, R!Caught, R!At
  <1> QED BY <1>2, <1>3, <1>4

\* The checks, the work, what its answer is compared with, and the last of it.
LEMMA CallsWork ==
    ASSUME CallsInv, NEW c,
           R!Permit(c) \/ R!Run(c) \/ R!Hang(c) \/ R!Mime(c) \/ R!Match(c) \/ R!Return(c) \/ R!Filtered(c)
    PROVE  CallsInv'
  <1>1. ASSUME NEW d \in R!Ids PROVE calls[d].out \in {"ok", "not", "throw"}
    <2>1. calls[d] \in Call
      BY DEF CallsInv, CallsOK, R!Ids
    <2> QED BY <2>1 DEF Call
  <1>2. CASE R!Hang(c)
    <2>1. c \in R!Ids /\ calls[c].pc \in Inners /\ R!Goes(c, "stuck", "ok")
      BY <1>2 DEF R!Hang, R!At, R!Inner, Inners
    <2> QED BY <2>1, GoingOn
  <1>3. CASE R!Permit(c)
    <2>1. /\ c \in R!Ids /\ calls[c].pc = "permit"
          /\ R!Goes(c, "pre", "ok") \/ R!Goes(c, "close", "not") \/ R!Goes(c, "close", "throw")
      BY <1>3 DEF R!Permit, R!At
    <2> QED BY <2>1, GoingOn DEF Inners
  <1>4. CASE R!Run(c)
    <2>1. PICK pc \in Inners, res \in {"ok", "not", "throw"} :
                R!At(c, pc) /\ R!Goes(c, R!After(pc, res), IF res = "throw" THEN "not" ELSE res)
      BY <1>4 DEF R!Run, R!Inner, R!Results, Inners
    <2>2. c \in R!Ids /\ calls[c].pc \in Inners
      BY <2>1 DEF R!At
    <2>3. R!After(pc, res) \in Inners \cup {"mime"}
      BY <2>1 DEF R!After, Inners
    <2> QED BY <2>1, <2>2, <2>3, GoingOn
  <1>5. CASE R!Mime(c)
    <2>1. c \in R!Ids /\ calls[c].pc = "mime" /\ \E res \in {"ok", "not", "throw"} : R!Worked(c, res)
      BY <1>1, <1>5 DEF R!Mime, R!At
    <2>2. PICK res \in {"ok", "not", "throw"} : R!Worked(c, res)
      BY <2>1
    <2>3. CASE calls[c].kind = "item"
      <3>1. \E pc \in {"answered", "thrown"} : R!Ends(c, pc, res)
        BY <2>2, <2>3 DEF R!Worked
      <3> QED BY <2>1, <2>3, <3>1, CallEnds
    <2>4. CASE calls[c].kind # "item"
      <3> DEFINE pc == IF res # "throw" /\ calls[c].source = "External" THEN "match" ELSE "close"
                 q == [calls[c] EXCEPT !.pc = pc, !.out = res, !.listing = "no"]
      <3>1. calls' = [calls EXCEPT ![c] = q]
        BY <2>2, <2>4 DEF R!Worked
      <3>2. calls[c] \in Call
        BY <2>1 DEF CallsInv, CallsOK, R!Ids
      <3>3. pc \in {"match", "close"} /\ pc \in CallPcs
        BY DEF CallPcs, Mimed
      <3> HIDE DEF pc
      <3>4. q \in Call
        BY <3>2, <3>3 DEF Call
      <3>5. /\ q.by = calls[c].by /\ q.owner = calls[c].owner /\ q.kind = calls[c].kind /\ q.pc = pc
            /\ q.open = calls[c].open /\ q.closed = calls[c].closed
        BY <3>2 DEF Call
      <3> HIDE DEF q
      <3> QED BY <2>1, <2>4, <3>1, <3>3, <3>4, <3>5, OneGoesFurther
    <2> QED BY <2>3, <2>4
  <1>6. CASE R!Match(c)
    <2>1. c \in R!Ids /\ calls[c].pc = "match" /\ (R!Goes(c, "close", calls[c].out) \/ R!Goes(c, "close", "not"))
      BY <1>6 DEF R!Match, R!At
    <2> QED BY <1>1, <2>1, GoingOn
  <1>7. CASE R!Return(c)
    <2>1. c \in R!Ids /\ calls[c].pc = "closed" /\ \E pc \in {"answered", "thrown"} : R!Ends(c, pc, calls[c].out)
      BY <1>7 DEF R!Return, R!At
    <2> QED BY <1>1, <2>1, CallEnds DEF AfterClose
  <1>8. CASE R!Filtered(c)
    <2>1. PICK d \in R!Ids : R!Ends(c, "answered", calls[d].out)
      BY <1>8 DEF R!Filtered, R!Of
    <2>2. calls[d].out \in {"ok", "not", "throw"}
      BY <1>1, <2>1
    <2>3. c \in R!Ids /\ calls[c].pc = "filter"
      BY <1>8 DEF R!Filtered, R!At
    <2> QED BY <2>1, <2>2, <2>3, CallEnds DEF AfterClose
  <1> QED BY <1>2, <1>3, <1>4, <1>5, <1>6, <1>7, <1>8

\* Adapters are got by the service, pipelines tee, listings begin, and adapters are closed.
LEMMA AdaptersCome ==
    ASSUME CallsInv, NEW c, R!GetAdapter(c) \/ R!Tee(c) \/ R!List(c) \/ R!Close(c)
    PROVE  CallsInv'
  <1>1. \A d \in DOMAIN calls : calls[d] \in Call /\ Lifetime(calls[d], HasItems(calls, d))
    BY DEF CallsInv, CallsOK
  <1>2. CASE R!GetAdapter(c)
    <2> DEFINE owner == calls[c].owner
               q == [calls[owner] EXCEPT !.open = @ + 1]
    <2>1. /\ c \in DOMAIN calls /\ calls[c].pc = "func" /\ calls[owner].open < MaxAdapters
          /\ calls' = [calls EXCEPT ![owner] = q]
      BY <1>2 DEF R!GetAdapter, R!At, R!Ids
    <2>2. IF calls[c].kind = "item" THEN OfItem(calls, c) ELSE owner = c
      BY <2>1 DEF CallsInv, CallsOK
    <2>3. owner \in DOMAIN calls /\ calls[owner].kind # "item"
      BY <2>1, <2>2 DEF OfItem
    <2>4. /\ calls[owner].pc # "route"
          /\ calls[owner].pc \in AfterClose => HasItems(calls, owner)
      <3>1. CASE calls[c].kind = "item"
        <4>1. OfItem(calls, c) /\ owner < c
          BY <2>2, <3>1 DEF OfItem
        <4>2. PICK d \in DOMAIN calls : calls[d].kind = "item" /\ calls[d].by = owner
          BY <4>1 DEF OfItem
        <4>3. OfItem(calls, d)
          BY <4>2 DEF CallsInv, CallsOK
        <4>4. calls[owner].pc \in Mimed
          BY <4>2, <4>3 DEF OfItem
        <4>5. c # owner
          BY <2>3, <3>1
        <4>6. HasItems(calls, owner)
          BY <2>1, <3>1, <4>5 DEF HasItems
        <4> QED BY <4>4, <4>6 DEF CallPcs, Mimed, AfterClose
      <3>2. CASE calls[c].kind # "item"
        BY <2>1, <2>2, <3>2 DEF AfterClose
      <3> QED BY <3>1, <3>2
    <2> HIDE DEF owner
    <2>5. calls[owner] \in Call /\ Lifetime(calls[owner], HasItems(calls, owner))
      BY <1>1, <2>3
    <2>6. q \in Call /\ Moves(calls[owner], q)
      BY <2>1, <2>5, CallConstants DEF CallPcs, Call, Moves, Mimed, AfterClose, Inners
    <2>7. Lifetime(q, HasItems(calls, owner))
      BY <2>3, <2>4, <2>5 DEF Call, Lifetime
    <2> HIDE DEF q
    <2> QED BY <2>1, <2>3, <2>6, <2>7, OneMoves DEF CallsInv
  <1>3. CASE R!List(c)
    <2>1. PICK l \in {"recursive", "items", "zip"} : calls' = [calls EXCEPT ![c].listing = l]
      BY <1>3 DEF R!List
    <2> DEFINE q == [calls[c] EXCEPT !.listing = l]
    <2>2. c \in DOMAIN calls /\ calls' = [calls EXCEPT ![c] = q]
      BY <1>3, <2>1 DEF R!List, R!At, R!Ids
    <2>3. q \in Call /\ Moves(calls[c], q) /\ Lifetime(q, HasItems(calls, c))
      BY <1>1, <2>2 DEF Call, Moves, Lifetime
    <2> HIDE DEF q
    <2> QED BY <2>2, <2>3, OneMoves DEF CallsInv
  <1>4. CASE R!Close(c)
    <2> DEFINE q == [calls[c] EXCEPT !.closed = TRUE, !.open = 0, !.pc = "closed"]
    <2>1. c \in DOMAIN calls /\ calls[c].pc = "close" /\ calls' = [calls EXCEPT ![c] = q]
      BY <1>4 DEF R!Close, R!At, R!Ids
    <2>2. 0 \in 0..MaxAdapters
      BY CallConstants
    <2>3. "closed" \in CallPcs /\ "closed" \in Mimed
      BY DEF CallPcs, Mimed, AfterClose
    <2>4. calls[c] \in Call /\ Lifetime(calls[c], HasItems(calls, c))
      BY <1>1, <2>1
    <2>5. q \in Call
      BY <2>2, <2>3, <2>4 DEF Call
    <2>6. Moves(calls[c], q)
      BY <2>3, <2>4 DEF Call, Moves
    <2>7. Lifetime(q, HasItems(calls, c))
      BY <2>1, <2>4 DEF Call, Lifetime, AfterClose, Inners
    <2> HIDE DEF q
    <2> QED BY <2>1, <2>5, <2>6, <2>7, OneMoves DEF CallsInv
  <1>5. CASE R!Tee(c)
    <2> DEFINE q == [calls[c] EXCEPT !.tees = TRUE]
    <2>1. c \in DOMAIN calls /\ calls' = [calls EXCEPT ![c] = q]
      BY <1>5 DEF R!Tee, R!At, R!Ids
    <2>2. q \in Call /\ Moves(calls[c], q) /\ Lifetime(q, HasItems(calls, c))
      BY <1>1, <2>1 DEF Call, Moves, Lifetime
    <2> HIDE DEF q
    <2> QED BY <2>1, <2>2, OneMoves DEF CallsInv
  <1> QED BY <1>2, <1>3, <1>4, <1>5

\* Calls of clients, of services, for items and for filters.
LEMMA CallsAreMade ==
    ASSUME CallsInv, R!Arrive \/ \E c : R!Request(c) \/ R!LooseRequest(c) \/ R!Ask(c) \/ R!Filter(c)
    PROVE  CallsInv'
  <1> DEFINE n == Len(calls)
  <1>1. calls \in Seq(Call) /\ n \in Nat /\ DOMAIN calls = 1..n /\ R!Ids = DOMAIN calls
    BY DEF CallsInv, CallsOK, R!Ids
  <1>2. ASSUME NEW kind \in {"incoming", "outgoing", "private"}, NEW caller \in 0..n,
               NEW source \in {"External", "Internal", "Outer"}, n < MaxCalls,
               NEW s, CallsOK(s), Len(s) = n, NEW loose \in BOOLEAN,
               calls' = Append(s, R!NewCall(kind, caller, source, loose))
        PROVE  CallsInv'
    <2> DEFINE q == R!NewCall(kind, caller, source, loose)
    <2>1. q \in Call
      <3>1. "route" \in CallPcs /\ caller \in 0..MaxCalls /\ n + 1 \in 1..MaxCalls /\ 0 \in 0..MaxAdapters
        BY <1>1, <1>2, CallConstants DEF CallPcs
      <3>2. q = [kind |-> kind, by |-> caller, source |-> source, owner |-> n + 1, listing |-> "no",
                 pc |-> "route", out |-> "ok", open |-> 0, closed |-> FALSE, tees |-> FALSE, loose |-> loose]
        BY DEF R!NewCall
      <3> HIDE DEF q, n
      <3> QED BY <3>1, <3>2 DEF Call
    <2>2. q.by <= Len(s) /\ ~q.closed /\ q.open = 0 /\ q.pc = "route" /\ q.kind # "item" /\ q.owner = Len(s) + 1
      BY <1>1, <1>2 DEF R!NewCall
    <2>3. calls' = Append(s, q)
      BY <1>2
    <2> HIDE DEF q
    <2>4. CallsOK(Append(s, q))
      BY <1>2, <2>1, <2>2, OneIsMade
    <2> QED BY <2>3, <2>4 DEF CallsInv
  <1>3. CASE R!Arrive
    <2>1. n < MaxCalls /\ calls' = Append(calls, R!NewCall("incoming", 0, "External", FALSE)) /\ 0 \in 0..n
      BY <1>1, <1>3 DEF R!Arrive
    <2> QED BY <1>2, <2>1 DEF CallsInv
  <1>4. ASSUME NEW c, R!Request(c) \/ R!LooseRequest(c) PROVE CallsInv'
    <2>1. c \in R!Ids /\ n < MaxCalls
      BY <1>4 DEF R!Request, R!LooseRequest, R!Makes, R!At
    <2>2. c \in 0..n /\ n < MaxCalls
      BY <1>1, <2>1
    <2>3. \E kind \in {"incoming", "outgoing", "private"}, source \in {"External", "Internal", "Outer"}, loose \in BOOLEAN :
              calls' = Append(calls, R!NewCall(kind, c, source, loose))
      BY <1>4 DEF R!Request, R!LooseRequest, R!Makes, R!Sources
    <2> QED BY <1>2, <2>2, <2>3 DEF CallsInv
  <1>5. ASSUME NEW c, R!Ask(c) PROVE CallsInv'
    <2> DEFINE q == R!Item(c)
    <2>1. c \in 1..n /\ n < MaxCalls /\ calls[c].pc = "mime" /\ calls' = Append(calls, q)
      BY <1>1, <1>5 DEF R!Ask, R!Asks
    <2>2. calls[c] \in Call
      BY <1>1, <2>1
    <2>3. q = [R!NewCall("item", c, "Internal", FALSE) EXCEPT !.owner = calls[c].owner, !.pc = "pre"]
      BY DEF R!Item
    <2>4. /\ q \in Call /\ q.by = c /\ ~q.closed /\ q.open = 0 /\ q.pc = "pre" /\ q.kind = "item"
          /\ q.owner = calls[c].owner
      <3>1. /\ calls[c].owner \in 1..MaxCalls /\ c \in 0..MaxCalls /\ 0 \in 0..MaxAdapters
            /\ "pre" \in CallPcs
        BY <1>1, <2>1, <2>2, CallConstants DEF Call, CallPcs, Inners
      <3>2. q = [kind |-> "item", by |-> c, source |-> "Internal", owner |-> calls[c].owner, listing |-> "no",
                 pc |-> "pre", out |-> "ok", open |-> 0, closed |-> FALSE, tees |-> FALSE, loose |-> FALSE]
        BY <2>3 DEF R!NewCall
      <3> HIDE DEF q
      <3> QED BY <3>1, <3>2 DEF Call
    <2> HIDE DEF q
    <2> QED BY <1>1, <2>1, <2>4, OneIsMade DEF CallsInv
  <1>6. ASSUME NEW c, R!Filter(c) PROVE CallsInv'
    <2> DEFINE q == [calls[c] EXCEPT !.pc = "filter"]
               s == [calls EXCEPT ![c] = q]
    <2>1. /\ c \in 1..n /\ n < MaxCalls /\ calls[c].pc = "closed"
          /\ calls' = Append(s, R!NewCall("outgoing", c, "Outer", FALSE))
      BY <1>1, <1>6 DEF R!Filter, R!At
    <2>2. calls[c] \in Call /\ Lifetime(calls[c], HasItems(calls, c))
      BY <1>1, <2>1 DEF CallsInv, CallsOK
    <2>3. q \in Call /\ Moves(calls[c], q) /\ Lifetime(q, HasItems(calls, c))
      BY <2>1, <2>2 DEF CallPcs, Call, Moves, Lifetime, Mimed, AfterClose, Inners
    <2>4. Len(s) = n /\ c \in 0..n
      BY <1>1, <2>1
    <2> HIDE DEF q
    <2>5. CallsOK(s)
      BY <1>1, <2>1, <2>3, OneMoves DEF CallsInv
    <2> HIDE DEF s
    <2> QED BY <1>2, <2>1, <2>4, <2>5
  <1> QED BY <1>3, <1>4, <1>5, <1>6

LEMMA InitCalls == R!Init => CallsInv
  <1> SUFFICES ASSUME R!Init PROVE CallsInv
    OBVIOUS
  <1>1. calls = <<>>
    BY DEF R!Init
  <1> QED BY <1>1, CallConstants DEF CallsInv, CallsOK

LEMMA CallsStep == CallsInv /\ [R!Next]_calls => CallsInv'
  <1> SUFFICES ASSUME CallsInv, [R!Next]_calls PROVE CallsInv'
    OBVIOUS
  <1>1. ASSUME NEW c, R!Step(c) PROVE CallsInv'
    BY <1>1, CallsAreRouted, CallsWork, AdaptersCome, CallsAreMade DEF R!Step
  <1>2. CASE R!Arrive
    BY <1>2, CallsAreMade
  <1>3. CASE UNCHANGED calls
    BY <1>3 DEF CallsInv
  <1> QED BY <1>1, <1>2, <1>3 DEF R!Next

\* What the invariant says of the lifetimes of adapters.
LEMMA LifetimesFollow == CallsInv => AdapterLifetimes
  <1> SUFFICES ASSUME CallsInv, NEW c \in R!Ids
               PROVE  /\ calls[c].by < c /\ calls[c].open \in 0..MaxAdapters
                      /\ calls[c].owner = IF calls[c].kind = "item" THEN calls[calls[c].by].owner ELSE c
                      /\ calls[c].pc \in R!Inner \cup {"mime"} /\ calls[calls[c].owner].closed => R!Adrift(c)
                      /\ R!Ended(c) /\ calls[c].open > 0 =>
                            \E d \in R!Ids : calls[d].owner = c /\ d # c /\ calls[d].kind = "item"
    BY DEF AdapterLifetimes, R!AdapterLifetimes
  <1>1. /\ c \in DOMAIN calls /\ calls[c] \in Call /\ calls[c].by < c /\ Lifetime(calls[c], HasItems(calls, c))
        /\ IF calls[c].kind = "item" THEN OfItem(calls, c) ELSE calls[c].owner = c
    BY DEF CallsInv, CallsOK, R!Ids
  <1>2. calls[c].owner = IF calls[c].kind = "item" THEN calls[calls[c].by].owner ELSE c
    BY <1>1 DEF OfItem
  <1>3. ASSUME calls[c].pc \in R!Inner \cup {"mime"}, calls[calls[c].owner].closed PROVE R!Adrift(c)
    <2>1. calls[c].kind = "item"
      BY <1>1, <1>3 DEF Lifetime, R!Inner, AfterClose
    <2>2. calls[c].owner \in DOMAIN calls /\ (calls[calls[c].owner].pc = "mime" \/ AdriftIn(calls, c))
      BY <1>1, <2>1 DEF OfItem
    <2>3. calls[calls[c].owner].pc \in AfterClose
      BY <1>3, <2>2 DEF CallsInv, CallsOK, Lifetime
    <2>4. AdriftIn(calls, c)
      BY <2>2, <2>3 DEF AfterClose
    <2> QED BY <2>4 DEF AdriftIn, R!Adrift, R!Ids
  <1>4. ASSUME R!Ended(c), calls[c].open > 0
        PROVE  \E d \in R!Ids : calls[d].owner = c /\ d # c /\ calls[d].kind = "item"
    <2>1. HasItems(calls, c)
      BY <1>1, <1>4 DEF Lifetime, R!Ended, AfterClose
    <2> QED BY <2>1 DEF HasItems, R!Ids
  <1>5. calls[c].open \in 0..MaxAdapters
    BY <1>1 DEF Call
  <1> QED BY <1>1, <1>2, <1>3, <1>4, <1>5

-----------------------------------------------------------------------------
(* All parts.  A step is one of one part, and leaves the others. *)

PartsInv == TypeInv /\ SessionsInv /\ TokensInv /\ LoadInv /\ LoadGoes /\ T!TypeOK /\ PipelineInv /\ PlacesInv /\ CallsInv

LEMMA InitParts == PartsInit => PartsInv
  BY InitType, InitSessions, InitTokens, InitLoad, InitGoes, InitTimer, InitPipeline, InitPlaces, InitCalls DEF PartsInit, PartsInv

LEMMA PartsAreSteps ==
    ASSUME [PartsNext]_allVars
    PROVE  /\ [E!Next]_sessionVars /\ [A!Next]_tokenVars /\ [L!Next]_loadVars /\ [T!Next]_timerVars
           /\ [P!Next]_pipelineVars /\ [Next]_vars /\ [R!Next]_calls
  BY DEF PartsNext, allVars

LEMMA PartsStep == PartsInv /\ [PartsNext]_allVars => PartsInv'
  BY PartsAreSteps, TypeStep, SessionsStep, TokensStep, LoadInvStep, GoesStep, TimerStep, PipelineStep, PlacesStep, CallsStep
     DEF PartsInv

\* The type invariants of all parts: among them that the limiter never lets more requests out
\* than it may, that a message which a try has put an error of away is "ok", and that a message
\* of a pipeline is never beyond its end.
THEOREM PartsTypes == PartsSpec => []AllTypesOK
  <1>1. PartsInv => AllTypesOK
    BY PipelineType, SessionsType DEF PartsInv, AllTypesOK, TypeInv, TokensInv, LoadInv, LoadFacts
  <1> QED BY <1>1, InitParts, PartsStep, PTL DEF PartsSpec, PartsSteps

\* A client of server-sent events reads whole events, one after another, except of pushes that
\* overlapped on its stream, for any number of connections, of pushes and of streams.
THEOREM EventsAreWhole == PartsSpec => []WholeEvents
  <1>1. PartsInv => WholeEvents
    BY DEF PartsInv, SessionsInv, PushInv, WholeEvents
  <1> QED BY <1>1, InitParts, PartsStep, PTL DEF PartsSpec, PartsSteps

\* A token gives access for exactly its time since it was last posted, for any number of
\* tokens and any expiry: the queue of expiries, and what is swept from it, agree with the record.
THEOREM TokensGiveAccess == PartsSpec => []AccessForItsTime
  <1>1. PartsInv => AccessForItsTime
    BY DEF PartsInv, TokensInv, AccessForItsTime
  <1> QED BY <1>1, InitParts, PartsStep, PTL DEF PartsSpec, PartsSteps

\* While a tenant loads, a request is answered by a service that is initialised, but for the
\* exceptions that ServedAfterInit names, whatever services there are and whoever asks.
THEOREM ServicesAreInitialised == PartsSpec => ServedAfterInit
  <1>1. PartsInv /\ [PartsNext]_allVars => [ServedInTime]_loadVars
    BY PartsAreSteps, DispatchIsInTime DEF PartsInv, ServedInTime
  <1>2. ServedAfterInit <=> [][ServedInTime]_loadVars
    BY DEF ServedAfterInit, L!ServedAfterInit, ServedInTime, L!vars, loadVars
  <1> QED BY <1>1, <1>2, InitParts, PartsStep, PTL DEF PartsSpec, PartsSteps

\* A load never stalls, whoever asks for the tenant and when, and whatever manifests wait for the
\* load that waits for them: while a request is unanswered somebody can go on.
THEOREM LoadsGoOn == PartsSpec => []NoLoadStalls
  <1>1. PartsInv => NoLoadStalls
    BY LoadsDoNotStall DEF PartsInv, NoLoadStalls
  <1> QED BY <1>1, InitParts, PartsStep, PTL DEF PartsSpec, PartsSteps

\* A run of a pipeline stalls, whatever pipelines there are, how services answer and how messages
\* overtake each other, only if it has split a message without a body or with one that is no JSON
\* (jsonSplitSplitter), or if a call of a fan-out threw (pipelineStep): else, until its messages
\* are out and its streams closed, somebody can go on.  The limiter must let one request out: with
\* a concurrency of 0 none is ever sent.
THEOREM PipelinesDoNotStall == ASSUME Limit > 0 PROVE PartsSpec => []NoPipelineStalls
  <1>1. PartsInv => NoPipelineStalls
    BY RunsDoNotStall DEF PartsInv, NoPipelineStalls
  <1> QED BY <1>1, InitParts, PartsStep, PTL DEF PartsSpec, PartsSteps

\* The adapters of a call are open while it works and closed when it has ended, however deep
\* calls make calls, list, filter, fail or throw, for any number of them; only items that nobody
\* waits for any more go on without, or open them again.
THEOREM AdaptersAreClosed == CallsSpec => []AdapterLifetimes
  <1> QED BY LifetimesFollow, InitParts, PartsStep, PTL DEF PartsInv, CallsSpec, PartsSteps
=============================================================================
