------------------------ MODULE WebhookTriggersProofs ------------------------
(***************************************************************************)
(* Proofs about Webhooks and WebhookTriggers: their type, and that         *)
(* registrants are kept, told of events and, if they are subscriptions,    *)
(* registered again, for any callers, subscriptions, tenants, restarts and *)
(* failures.                                                               *)
(*                                                                         *)
(* A registration writes on the strength of what earlier requests to the   *)
(* store saw (KeptInv); a dispatch owes what the store or the registry     *)
(* has, and gives every slot that is left to whoever waits first (Sends);  *)
(* and whoever works on a subscription that is not in the registry of the  *)
(* process either will register it or waits for one who is about to        *)
(* (Awaited).                                                              *)
(***************************************************************************)
EXTENDS WebhookTriggers, FiniteSetTheorems, WellFoundedInduction, TLAPS

-----------------------------------------------------------------------------
(* The registry *)

\* A call c that works on the registrant of u.
WorksOn(c, u) == calls[c].url = u /\ calls[c].pc \notin {"idle", "answered"}

RegistryInv ==
    /\ store \in [Urls -> Secrets \cup {None}] /\ seen \subseteq Urls /\ cache \in Seq(Registrant)
    /\ life \in 0..MaxRestarts /\ faults \in 0..MaxFaults
    /\ acked \subseteq [url : Urls, secret : Secrets, life : 0..MaxRestarts] /\ contested \subseteq Urls
    /\ calls \in [Callers -> Registration]
    /\ \A c \in Callers : calls[c].pc # "idle" => calls[c].url \in Urls /\ calls[c].secret \in Secrets

\* Unless another call worked on its URL at the same time, a registration that is past its
\* probe writes where nothing is, and records what is there.
KeptInv ==
    /\ \A u \in Urls \ contested :
         /\ \A b, c \in Callers : WorksOn(b, u) /\ WorksOn(c, u) => b = c
         /\ \A c \in Callers : calls[c].url = u /\ calls[c].pc \in {"check", "write"} => store[u] = None
         /\ \A c \in Callers : calls[c].url = u /\ calls[c].pc = "write" => calls[c].created
         /\ \A c \in Callers : calls[c].url = u /\ calls[c].pc = "record" =>
              store[u] = calls[c].secret /\ \A a \in acked : a.url # u
    /\ RegistrantKept

\* The registry of the process has whom it acknowledged.
InCache(url, secret) == \E i \in DOMAIN cache : cache[i].url = url /\ cache[i].secret = secret

AckedInv ==
    \A a \in acked : a.life <= life /\ (a.life = life => InCache(a.url, a.secret))

\* Targets t that have tries left.
Tries(t) == t.at \in {"queued", "sending"} => t.attempts <= RetryCount

Has(targets, u) == \E i \in DOMAIN targets : targets[i].url = u

\* Who is being sent to.
Sending(targets) == {i \in DOMAIN targets : targets[i].at = "sending"}

\* No more are sent to at once than the limiter allows, and no fewer while another waits.
Slots(targets) ==
    /\ Cardinality(Sending(targets)) <= Concurrency
    /\ (\E i \in DOMAIN targets : targets[i].at = "queued") => Cardinality(Sending(targets)) = Concurrency

\* A dispatch e, when the store is st, still comes to everyone it owes.
Sends(e, st) ==
    /\ e \in Dispatch
    /\ \A i \in DOMAIN e.targets : Tries(e.targets[i])
    /\ e.pc \in {"list", "read"} => \A u \in e.owed : st[u] # None
    /\ e.pc = "read" => \A u \in e.owed : u \in e.keys \/ Has(e.targets, u)
    /\ e.pc = "sending" => Slots(e.targets) /\ \A u \in e.owed : Has(e.targets, u)

DispatchesInv ==
    /\ dispatches = [d \in Dispatches |-> dispatches[d]]
    /\ \A d \in Dispatches : Sends(dispatches[d], store)

\* What Webhooks itself keeps.
RInv == RegistryInv /\ KeptInv /\ AckedInv /\ DispatchesInv

-----------------------------------------------------------------------------
(* Subscriptions *)

Loader(t) == workers[<<t, "load">>]
OnKey == {"delete", "register", "registering"}

\* The registrations that manage requests, clients and loads of tenants make.
WritersInv ==
    /\ writers \in [Writers -> Writer]
    /\ \A w \in Writers :
         /\ writers[w].pc = "idle" => calls[w].pc = "idle"
         /\ writers[w].pc # "idle" => writers[w].key \in Keys /\ calls[w].url = Absolute[writers[w].key]
         /\ writers[w].pc = "register" => calls[w].secret = Secret[w]
    /\ \A c \in Clients : calls[c].pc # "idle" => calls[c].url \in Foreign

WorkersInv ==
    /\ workers \in [Workers -> Worker]
    /\ \A w \in Workers :
         /\ workers[w].pc \in OnKey => workers[w].key \in Keys /\ workers[w].secret \in Secrets
         /\ workers[w].pc \in {"register", "registering"} => w[2] = "load"
    /\ \A t \in Tenants : calls[t].pc # "idle" =>
         /\ Loader(t).pc = "registering"
         /\ calls[t].url = Relative[Loader(t).key] /\ calls[t].secret = Loader(t).secret

OtherInv ==
    /\ specs \in [Keys -> Secrets \cup {None}] /\ tenant \in Tenants /\ cast \in Casts /\ refused \subseteq Keys

Cached(k) == InCache(Absolute[k], specs[k]) \/ InCache(Relative[k], specs[k])

\* A subscription that was stored by another life of the process and is not known to this one.
Unknown(k) == specs[k] # None /\ k \notin refused /\ ~Cached(k)

Recording(k) == \E c \in Callers : calls[c].url = Relative[k] /\ calls[c].pc = "record"

\* A load that has k still to do.
Pending(e, k) ==
    \/ e.pc = "list"
    \/ e.pc \in OnKey \cup {"next"} /\ k \in e.todo
    \/ e.pc \in OnKey /\ e.key = k

\* Whoever finds the registrant of an unknown subscription in the store, after it was
\* deregistered, finds what a call has written that is about to record it.
Awaited(k) ==
    /\ \A w \in Workers : workers[w].pc \in OnKey /\ workers[w].key = k => workers[w].secret = specs[k]
    /\ Relative[k] \notin seen
    /\ \A t \in Tenants : Loader(t).pc \in {"register", "registering"} /\ Loader(t).key = k /\ store[Relative[k]] # None
         => Recording(k)
    /\ \A c \in Callers : calls[c].url = Relative[k] /\ calls[c].pc = "write" /\ ~calls[c].created => Recording(k)
    /\ \A c \in Callers : calls[c].url = Relative[k] /\ calls[c].pc = "answered" => Recording(k)
    /\ Recording(k) \/ \E t \in Tenants : Pending(Loader(t), k)

\* A manage request that is answered leaves its URL in the store, whoever registered it.
AbsoluteStored(k) ==
    \/ \E c \in Callers : calls[c].url = Absolute[k] /\ calls[c].pc \in {"answered", "record"}
    \/ Absolute[k] \in seen
    \/ k \in refused
    => store[Absolute[k]] # None

SubscriptionsInv ==
    faults = 0 => \A k \in Keys : AbsoluteStored(k) /\ (Unknown(k) => Awaited(k))

IInv == RInv /\ WritersInv /\ WorkersInv /\ OtherInv /\ SubscriptionsInv
-----------------------------------------------------------------------------
(* The first registrant of each URL *)

\* A set of places of a sequence is numbered by how many of them come no later.
LEMMA Numbered ==
    ASSUME NEW len \in Nat, NEW P \in SUBSET (1..len)
    PROVE  /\ IsFiniteSet(P) /\ Cardinality(P) \in Nat
           /\ \A i \in P : Cardinality({j \in P : j <= i}) \in 1..Cardinality(P)
           /\ \A h, i \in P : Cardinality({j \in P : j <= h}) = Cardinality({j \in P : j <= i}) => h = i
           /\ \A n \in 1..Cardinality(P) : \E i \in P : Cardinality({j \in P : j <= i}) = n
  <1> DEFINE upTo(i) == {j \in P : j <= i}
             f == [i \in P |-> Cardinality(upTo(i))]
  <1>1. IsFiniteSet(P) /\ Cardinality(P) \in Nat
    <2>1. IsFiniteSet(1..len)
      BY FS_Interval
    <2>2. IsFiniteSet(P)
      BY <2>1, FS_Subset
    <2>3. QED
      BY <2>2, FS_CardinalityType
  <1>2. ASSUME NEW i \in P
        PROVE  /\ IsFiniteSet(upTo(i)) /\ Cardinality(upTo(i)) \in 1..Cardinality(P)
    <2>1. upTo(i) \in SUBSET P /\ i \in upTo(i)
      OBVIOUS
    <2>2. IsFiniteSet(upTo(i)) /\ Cardinality(upTo(i)) <= Cardinality(P)
      BY <1>1, <2>1, FS_Subset
    <2>3. Cardinality(upTo(i)) \in Nat /\ Cardinality(upTo(i)) # 0
      BY <2>1, <2>2, FS_CardinalityType, FS_EmptySet
    <2>4. QED
      BY <1>1, <2>2, <2>3
  <1>3. ASSUME NEW h \in P, NEW i \in P, Cardinality(upTo(h)) = Cardinality(upTo(i)), h < i
        PROVE  FALSE
    <2>1. h \in Int /\ i \in Int /\ \A j \in P : j \in Int
      OBVIOUS
    <2>2. i <= i /\ ~(i <= h) /\ \A j \in P : j <= h => j <= i
      BY <1>3, <2>1
    <2>3. upTo(h) \in SUBSET upTo(i) /\ i \in upTo(i) /\ i \notin upTo(h)
      BY <2>2
    <2>4. upTo(h) = upTo(i)
      BY <1>2, <1>3, <2>3, FS_Subset
    <2>5. QED
      BY <2>3, <2>4
  <1>4. \A h, i \in P : Cardinality(upTo(h)) = Cardinality(upTo(i)) => h = i
    <2> SUFFICES ASSUME NEW h \in P, NEW i \in P, Cardinality(upTo(h)) = Cardinality(upTo(i)), h # i
                 PROVE  FALSE
      OBVIOUS
    <2> HIDE DEF upTo
    <2>1. h < i \/ i < h
      OBVIOUS
    <2>2. QED
      BY <1>3, <2>1
  <1>5. f \in Injection(P, 1..Cardinality(P))
    <2> HIDE DEF upTo
    <2>1. f \in [P -> 1..Cardinality(P)]
      BY <1>2
    <2>2. QED
      BY <1>4, <2>1 DEF Injection, IsInjective
  <1>6. IsFiniteSet(1..Cardinality(P)) /\ Cardinality(1..Cardinality(P)) = Cardinality(P)
    BY <1>1, FS_Interval
  <1>7. f \in Surjection(P, 1..Cardinality(P))
    <2> HIDE DEF f
    <2>1. QED
      BY <1>1, <1>5, <1>6, FS_Injection
  <1>8. \A n \in 1..Cardinality(P) : \E i \in P : Cardinality(upTo(i)) = n
    BY <1>7 DEF Surjection
  <1>9. QED
    BY <1>1, <1>2, <1>4, <1>8

\* InOrder gives members of the sequence, and all that are at the places it is given.
LEMMA InOrderHas ==
    ASSUME NEW T, NEW r \in Seq(T), NEW P \in SUBSET DOMAIN r
    PROVE  /\ InOrder(r, P) \in Seq(T)
           /\ \A i \in P : \E n \in DOMAIN InOrder(r, P) : InOrder(r, P)[n] = r[i]
  <1> DEFINE count(i) == Cardinality({j \in P : j <= i})
             pick(n) == CHOOSE i \in P : count(i) = n
  <1>1. P \in SUBSET (1..Len(r)) /\ Len(r) \in Nat
    OBVIOUS
  <1>2. /\ Cardinality(P) \in Nat
        /\ \A i \in P : count(i) \in 1..Cardinality(P)
        /\ \A h, i \in P : count(h) = count(i) => h = i
        /\ \A n \in 1..Cardinality(P) : \E i \in P : count(i) = n
    BY <1>1, Numbered
  <1>3. InOrder(r, P) = [n \in 1..Cardinality(P) |-> r[pick(n)]]
    BY DEF InOrder
  <1> HIDE DEF count
  <1>4. \A n \in 1..Cardinality(P) : pick(n) \in P /\ count(pick(n)) = n
    BY <1>2
  <1>5. \A i \in P : pick(count(i)) = i
    BY <1>2, <1>4
  <1> HIDE DEF pick
  <1>6. \A n \in 1..Cardinality(P) : r[pick(n)] \in T
    BY <1>1, <1>4
  <1>7. InOrder(r, P) \in Seq(T)
    BY <1>2, <1>3, <1>6
  <1>8. ASSUME NEW i \in P
        PROVE  \E n \in DOMAIN InOrder(r, P) : InOrder(r, P)[n] = r[i]
    BY <1>2, <1>3, <1>5
  <1>9. QED
    BY <1>7, <1>8

\* A set of natural numbers has a least one.
LEMMA LeastOf ==
    ASSUME NEW S \in SUBSET Nat, S # {}
    PROVE  \E i \in S : \A j \in S : i <= j
  <1>1. PICK i \in S : \A j \in S : <<j, i>> \notin OpToRel(<, Nat)
    BY NatLessThanWellFounded, WFMin
  <1>2. \A j \in S : ~(j < i)
    BY <1>1 DEF OpToRel
  <1>3. QED
    BY <1>2

\* Every URL keeps a registrant, the first.
LEMMA UniqueHas ==
    ASSUME NEW T, NEW r \in Seq(T)
    PROVE  /\ Unique(r) \in Seq(T)
           /\ \A u : Has(r, u) => Has(Unique(r), u)
  <1> DEFINE P == {i \in DOMAIN r : \A j \in 1..(i - 1) : r[j].url # r[i].url}
  <1>1. Unique(r) = InOrder(r, P) /\ P \in SUBSET DOMAIN r
    BY DEF Unique
  <1>2. ASSUME NEW u, Has(r, u)
        PROVE  \E i \in P : r[i].url = u
    <2> DEFINE S == {i \in DOMAIN r : r[i].url = u}
    <2>1. S \in SUBSET Nat /\ S # {}
      BY <1>2 DEF Has
    <2> HIDE DEF S
    <2>2. PICK i \in S : \A j \in S : i <= j
      BY <2>1, LeastOf
    <2> USE DEF S
    <2>3. i \in DOMAIN r /\ r[i].url = u /\ DOMAIN r = 1..Len(r) /\ Len(r) \in Nat
      OBVIOUS
    <2>4. \A j \in 1..(i - 1) : j \in DOMAIN r /\ ~(i <= j)
      BY <2>3
    <2>5. \A j \in 1..(i - 1) : r[j].url # u
      BY <2>2, <2>4
    <2>6. QED
      BY <2>3, <2>5
  <1> HIDE DEF P
  <1>3. Unique(r) \in Seq(T) /\ \A i \in P : \E n \in DOMAIN Unique(r) : Unique(r)[n] = r[i]
    BY <1>1, InOrderHas
  <1>4. QED
    BY <1>2, <1>3, ZenonT(30) DEF Has
-----------------------------------------------------------------------------
(* Registrations *)

\* A call goes on.
LEMMA CallMoves ==
    ASSUME RegistryInv, NEW c \in Callers, NEW pc \in RegistrationPCs,
           calls' = [calls EXCEPT ![c].pc = pc], calls[c].pc # "idle"
    PROVE  /\ calls' \in [Callers -> Registration]
           /\ calls'[c].pc = pc /\ calls'[c].url = calls[c].url /\ calls'[c].secret = calls[c].secret
           /\ calls'[c].created = calls[c].created
           /\ \A b \in Callers \ {c} : calls'[b] = calls[b]
           /\ \A b \in Callers : calls'[b].pc # "idle" => calls'[b].url \in Urls /\ calls'[b].secret \in Secrets
  <1>1. calls' \in [Callers -> Registration] /\ calls'[c].pc = pc /\ calls'[c].url = calls[c].url
        /\ calls'[c].secret = calls[c].secret /\ calls'[c].created = calls[c].created
        /\ \A b \in Callers \ {c} : calls'[b] = calls[b]
    BY DEF RegistryInv, Registration
  <1>2. \A b \in Callers : calls'[b].pc # "idle" => calls'[b].url \in Urls /\ calls'[b].secret \in Secrets
    BY <1>1 DEF RegistryInv
  <1>3. QED
    BY <1>1, <1>2

LEMMA RegistryFrame ==
    /\ RegistryInv /\ UNCHANGED <<registry, life, faults>> => RegistryInv'
    /\ KeptInv /\ UNCHANGED registry => KeptInv'
    /\ AckedInv /\ UNCHANGED <<cache, acked, life>> => AckedInv'
    /\ DispatchesInv /\ UNCHANGED <<dispatches, store>> => DispatchesInv'
  <1>1. RegistryInv /\ UNCHANGED <<registry, life, faults>> => RegistryInv'
    BY DEF RegistryInv, registry
  <1>2. KeptInv /\ UNCHANGED registry => KeptInv'
    BY DEF KeptInv, WorksOn, RegistrantKept, registry
  <1>3. AckedInv /\ UNCHANGED <<cache, acked, life>> => AckedInv'
    BY DEF AckedInv, InCache
  <1>4. DispatchesInv /\ UNCHANGED <<dispatches, store>> => DispatchesInv'
    BY DEF DispatchesInv
  <1>5. QED
    BY <1>1, <1>2, <1>3, <1>4

LEMMA FaultsCounted ==
    ASSUME RegistryInv, Works \/ Fails
    PROVE  faults' \in 0..MaxFaults
  <1>1. faults \in 0..MaxFaults /\ MaxFaults \in Nat
    BY WebhookConstants DEF RegistryInv
  <1>2. QED
    BY <1>1 DEF Works, Fails

LEMMA RegisterStep ==
    ASSUME RInv, NEW c \in Callers, NEW url \in Urls, NEW secret \in Secrets, Register(c, url, secret)
    PROVE  RInv'
  <1> DEFINE e == [pc |-> IF url \in seen THEN "answered" ELSE "list",
                   url |-> url, secret |-> secret, created |-> FALSE]
  <1>1. calls' = [calls EXCEPT ![c] = e] /\ calls[c].pc = "idle"
        /\ UNCHANGED <<store, seen, cache, dispatches, life, faults, acked>>
    BY DEF Register
  <1>2. e \in Registration /\ e.url = url /\ e.secret = secret /\ e.pc \in {"answered", "list"}
        /\ (e.pc = "list" <=> url \notin seen)
    BY DEF Registration, RegistrationPCs
  <1> HIDE DEF e
  <1>3. /\ calls' \in [Callers -> Registration] /\ calls'[c] = e
        /\ \A b \in Callers \ {c} : calls'[b] = calls[b]
    BY <1>1, <1>2 DEF RInv, RegistryInv
  <1>4. contested \subseteq contested' /\ contested' \subseteq Urls
        /\ (url \notin seen /\ url \notin contested' => ~InFlight(url))
    BY DEF Register, Contest, RInv, RegistryInv
  <1>5. RegistryInv'
    BY <1>1, <1>2, <1>3, <1>4 DEF RInv, RegistryInv
  <1>6. KeptInv'
    <2> SUFFICES ASSUME NEW u \in Urls \ contested'
                 PROVE  /\ \A a, b \in Callers : WorksOn(a, u)' /\ WorksOn(b, u)' => a = b
                        /\ \A b \in Callers : calls'[b].url = u /\ calls'[b].pc \in {"check", "write"} => store[u] = None
                        /\ \A b \in Callers : calls'[b].url = u /\ calls'[b].pc = "write" => calls'[b].created
                        /\ \A b \in Callers : calls'[b].url = u /\ calls'[b].pc = "record" =>
                             store[u] = calls'[b].secret /\ \A a \in acked : a.url # u
      BY <1>1, <1>4 DEF RInv, KeptInv, RegistrantKept
    <2>1. u \in Urls \ contested
      BY <1>4
    <2>2. \A b \in Callers : calls'[b].pc \in {"check", "write", "record"} => calls'[b] = calls[b]
      BY <1>2, <1>3
    <2>3. \A b \in Callers : WorksOn(b, u)' => (b = c /\ u = url /\ url \notin seen) \/ (b # c /\ WorksOn(b, u))
      BY <1>2, <1>3 DEF WorksOn
    <2>4. \A a, b \in Callers : WorksOn(a, u)' /\ WorksOn(b, u)' => a = b
      BY <1>4, <2>1, <2>3 DEF RInv, KeptInv, WorksOn, InFlight
    <2>5. QED
      BY <2>1, <2>2, <2>4 DEF RInv, KeptInv
  <1>7. QED
    BY <1>1, <1>5, <1>6, RegistryFrame DEF RInv

\* A registrant is deleted from the store, and nobody owes it anything.
LEMMA DeleteStep ==
    ASSUME RInv, NEW u \in Urls, Delete(u)
    PROVE  RInv'
  <1>1. /\ store' = [store EXCEPT ![u] = None] /\ acked' = {a \in acked : a.url # u}
        /\ UNCHANGED <<seen, cache, calls, life, faults>>
        /\ dispatches' = [d \in Dispatches |-> [dispatches[d] EXCEPT !.owed = dispatches[d].owed \ {u}]]
    BY DEF Delete, Works
  <1>2. store' \in [Urls -> Secrets \cup {None}] /\ store'[u] = None /\ \A v \in Urls \ {u} : store'[v] = store[v]
    BY <1>1 DEF RInv, RegistryInv
  <1>3. contested \subseteq contested' /\ contested' \subseteq Urls /\ (u \notin contested' => ~InFlight(u))
    BY DEF Delete, Contest, RInv, RegistryInv
  <1>4. RegistryInv'
    BY <1>1, <1>2, <1>3 DEF RInv, RegistryInv
  <1>5. KeptInv'
    <2>1. ASSUME NEW v \in Urls \ contested', NEW b \in Callers, WorksOn(b, v)
          PROVE  v # u /\ store'[v] = store[v]
      BY <1>2, <1>3, <2>1 DEF WorksOn, InFlight
    <2>2. RegistrantKept'
      BY <1>1, <1>2, <1>3 DEF RInv, RegistryInv, KeptInv, RegistrantKept
    <2>3. QED
      BY <1>1, <1>3, <2>1, <2>2 DEF RInv, KeptInv, WorksOn
  <1>6. AckedInv'
    BY <1>1 DEF RInv, AckedInv, InCache
  <1>7. DispatchesInv'
    <2> SUFFICES ASSUME NEW d \in Dispatches PROVE Sends(dispatches'[d], store')
      BY <1>1 DEF DispatchesInv
    <2> DEFINE e == dispatches[d]
               left == e.owed \ {u}
               f == [e EXCEPT !.owed = left]
    <2>1. Sends(e, store) /\ dispatches'[d] = f
      BY <1>1 DEF RInv, DispatchesInv
    <2> HIDE DEF left, e
    <2>2. e.owed \subseteq Urls
      BY <2>1 DEF Sends, Dispatch
    <2>3. left \subseteq Urls /\ left \subseteq e.owed /\ u \notin left
      BY <2>2 DEF left
    <2>4. f \in Dispatch /\ f.pc = e.pc /\ f.keys = e.keys /\ f.targets = e.targets /\ f.owed = left
      BY <2>1, <2>3 DEF Sends, Dispatch
    <2> HIDE DEF f
    <2>5. \A v \in left : store'[v] = store[v]
      BY <1>2, <2>3
    <2>6. Sends(f, store')
      BY <2>1, <2>3, <2>4, <2>5 DEF Sends
    <2>7. QED
      BY <2>1, <2>6
  <1>8. QED
    BY <1>4, <1>5, <1>6, <1>7 DEF RInv

\* A registration goes on to a check or a write only if there is nothing in its way.
LEMMA CallKept ==
    ASSUME RegistryInv, KeptInv, NEW c \in Callers, UNCHANGED <<store, acked>>,
           contested \subseteq contested', contested' \subseteq Urls,
           calls[c].pc \notin {"idle", "answered"}, calls'[c].url = calls[c].url, calls'[c].pc # "record",
           \A b \in Callers \ {c} : calls'[b] = calls[b],
           calls'[c].pc \in {"check", "write"} /\ calls[c].url \notin contested' => store[calls[c].url] = None,
           calls'[c].pc = "write" /\ calls[c].url \notin contested' => calls'[c].created
    PROVE  KeptInv'
  <1>1. ASSUME NEW u \in Urls \ contested', NEW b \in Callers, WorksOn(b, u)'
        PROVE  WorksOn(b, u)
    BY <1>1 DEF WorksOn
  <1>2. RegistrantKept'
    BY DEF KeptInv, RegistrantKept
  <1>3. \A u \in Urls \ contested' : u \in Urls \ contested
    OBVIOUS
  <1>4. \A u \in Urls \ contested' : \A b \in Callers :
          /\ calls'[b].url = u /\ calls'[b].pc \in {"check", "write"} => store[u] = None
          /\ calls'[b].url = u /\ calls'[b].pc = "write" => calls'[b].created
          /\ calls'[b].url = u /\ calls'[b].pc = "record" =>
               store[u] = calls'[b].secret /\ \A a \in acked : a.url # u
    BY <1>3 DEF KeptInv
  <1>5. QED
    BY <1>1, <1>2, <1>3, <1>4 DEF KeptInv

LEMMA ListStep ==
    ASSUME RInv, NEW c \in Callers, List(c)
    PROVE  RInv'
  <1>1. PICK pc \in {"answered", "probe"} : Step(c, pc)
    BY DEF List
  <1>2. UNCHANGED <<store, seen, cache, dispatches, life, acked, contested>> /\ calls[c].pc = "list"
    BY DEF List
  <1>3. calls' = [calls EXCEPT ![c].pc = pc] /\ pc \in RegistrationPCs
    BY <1>1 DEF Step, RegistrationPCs
  <1>4. /\ calls' \in [Callers -> Registration]
        /\ calls'[c].pc = pc /\ calls'[c].url = calls[c].url /\ calls'[c].secret = calls[c].secret
        /\ \A b \in Callers \ {c} : calls'[b] = calls[b]
        /\ \A b \in Callers : calls'[b].pc # "idle" => calls'[b].url \in Urls /\ calls'[b].secret \in Secrets
    BY <1>2, <1>3, CallMoves DEF RInv
  <1>5. RegistryInv'
    BY <1>2, <1>4, FaultsCounted DEF RInv, RegistryInv, List
  <1>6. KeptInv'
    BY <1>2, <1>4, CallKept DEF RInv, RegistryInv
  <1>7. QED
    BY <1>2, <1>5, <1>6, RegistryFrame DEF RInv

LEMMA ProbeStep ==
    ASSUME RInv, NEW c \in Callers, Probe(c)
    PROVE  RInv'
  <1>1. PICK pc \in {"answered", "check"} :
          /\ Step(c, pc) /\ contested \subseteq contested' /\ contested' \subseteq contested \cup {calls[c].url}
          /\ pc = "check" /\ calls[c].url \notin contested' => calls[c].url \notin Stored
    BY DEF Probe
  <1>2. UNCHANGED <<store, seen, cache, dispatches, life, acked>> /\ calls[c].pc = "probe"
    BY DEF Probe
  <1>3. calls' = [calls EXCEPT ![c].pc = pc] /\ pc \in RegistrationPCs
    BY <1>1 DEF Step, RegistrationPCs
  <1>4. /\ calls' \in [Callers -> Registration]
        /\ calls'[c].pc = pc /\ calls'[c].url = calls[c].url /\ calls'[c].secret = calls[c].secret
        /\ \A b \in Callers \ {c} : calls'[b] = calls[b]
        /\ \A b \in Callers : calls'[b].pc # "idle" => calls'[b].url \in Urls /\ calls'[b].secret \in Secrets
    BY <1>2, <1>3, CallMoves DEF RInv
  <1>5. calls[c].url \in Urls /\ contested' \subseteq Urls
    BY <1>1, <1>2 DEF RInv, RegistryInv
  <1>6. RegistryInv'
    BY <1>2, <1>4, <1>5, FaultsCounted DEF RInv, RegistryInv, Probe
  <1>7. pc = "check" /\ calls[c].url \notin contested' => store[calls[c].url] = None
    BY <1>1, <1>5 DEF Stored
  <1>8. KeptInv'
    BY <1>1, <1>2, <1>4, <1>5, <1>7, CallKept DEF RInv
  <1>9. QED
    BY <1>2, <1>6, <1>8, RegistryFrame DEF RInv

LEMMA PutCheckStep ==
    ASSUME RInv, NEW c \in Callers, PutCheck(c)
    PROVE  RInv'
  <1> DEFINE b0 == calls[c].url \notin Stored
  <1>1. /\ UNCHANGED <<store, seen, cache, dispatches, life, acked, contested>> /\ calls[c].pc = "check"
        /\ \/ calls' = [calls EXCEPT ![c].pc = "write", ![c].created = b0]
           \/ calls' = [calls EXCEPT ![c].pc = "answered"]
    BY DEF PutCheck, Step
  <1>2. calls[c].url \in Urls /\ calls[c].secret \in Secrets /\ calls \in [Callers -> Registration] /\ b0 \in BOOLEAN
    BY <1>1 DEF RInv, RegistryInv
  <1>3. calls[c].url \notin contested => store[calls[c].url] = None /\ b0
    BY <1>1, <1>2 DEF RInv, KeptInv, Stored
  <1> HIDE DEF b0
  <1>4. /\ calls' \in [Callers -> Registration]
        /\ calls'[c].url = calls[c].url /\ calls'[c].secret = calls[c].secret
        /\ calls'[c].pc \in {"write", "answered"} /\ (calls'[c].pc = "write" => calls'[c].created = b0)
        /\ \A b \in Callers \ {c} : calls'[b] = calls[b]
    <2>1. CASE calls' = [calls EXCEPT ![c].pc = "write", ![c].created = b0]
      BY <1>2, <2>1 DEF Registration, RegistrationPCs
    <2>2. CASE calls' = [calls EXCEPT ![c].pc = "answered"]
      BY <1>2, <2>2 DEF Registration, RegistrationPCs
    <2>3. QED
      BY <1>1, <2>1, <2>2
  <1>5. RegistryInv'
    BY <1>1, <1>2, <1>4, FaultsCounted DEF RInv, RegistryInv, PutCheck
  <1>6. KeptInv'
    BY <1>1, <1>3, <1>4, CallKept DEF RInv, RegistryInv
  <1>7. QED
    BY <1>1, <1>5, <1>6, RegistryFrame DEF RInv

\* The store has the registrant: nothing that a dispatch was to read goes away.
LEMMA StoredMore ==
    ASSUME DispatchesInv, UNCHANGED dispatches,
           \A u \in Urls : store[u] # None => store'[u] # None
    PROVE  DispatchesInv'
  <1>1. \A d \in Dispatches : dispatches[d].owed \subseteq Urls
    BY DEF DispatchesInv, Sends, Dispatch
  <1>2. QED
    BY <1>1 DEF DispatchesInv, Sends

LEMMA PutWriteStep ==
    ASSUME RInv, NEW c \in Callers, PutWrite(c)
    PROVE  RInv'
  <1> DEFINE u == calls[c].url
  <1>1. UNCHANGED <<seen, cache, dispatches, life, acked, contested>> /\ calls[c].pc = "write"
    BY DEF PutWrite
  <1>2. u \in Urls /\ calls[c].secret \in Secrets /\ calls[c].secret # None
    BY <1>1, WebhookConstants DEF RInv, RegistryInv
  <1>3. CASE Fails /\ Step(c, "answered") /\ UNCHANGED store
    <2>1. /\ calls' \in [Callers -> Registration]
          /\ calls'[c].pc = "answered" /\ calls'[c].url = u
          /\ \A b \in Callers \ {c} : calls'[b] = calls[b]
          /\ \A b \in Callers : calls'[b].pc # "idle" => calls'[b].url \in Urls /\ calls'[b].secret \in Secrets
      BY <1>1, <1>3, CallMoves DEF RInv, Step, RegistrationPCs
    <2>2. RegistryInv'
      BY <1>1, <1>3, <2>1, FaultsCounted DEF RInv, RegistryInv
    <2>3. KeptInv'
      BY <1>1, <1>3, <2>1, CallKept DEF RInv, RegistryInv
    <2>4. QED
      BY <1>1, <1>3, <2>2, <2>3, RegistryFrame DEF RInv
  <1>4. CASE /\ Works /\ store' = [store EXCEPT ![u] = calls[c].secret]
             /\ Step(c, IF calls[c].created THEN "record" ELSE "answered")
    <2> DEFINE pc == IF calls[c].created THEN "record" ELSE "answered"
    <2>1. pc \in {"record", "answered"} /\ pc \in RegistrationPCs
      BY DEF RegistrationPCs
    <2>2. calls' = [calls EXCEPT ![c].pc = pc]
      BY <1>4 DEF Step
    <2>3. calls[c].created => pc = "record"
      OBVIOUS
    <2> HIDE DEF pc
    <2>4. /\ calls' \in [Callers -> Registration]
          /\ calls'[c].pc = pc /\ calls'[c].url = u /\ calls'[c].secret = calls[c].secret
          /\ \A b \in Callers \ {c} : calls'[b] = calls[b]
          /\ \A b \in Callers : calls'[b].pc # "idle" => calls'[b].url \in Urls /\ calls'[b].secret \in Secrets
      BY <1>1, <2>1, <2>2, CallMoves DEF RInv
    <2>5. store' \in [Urls -> Secrets \cup {None}] /\ store'[u] = calls[c].secret
          /\ \A v \in Urls \ {u} : store'[v] = store[v]
      BY <1>2, <1>4 DEF RInv, RegistryInv
    <2>6. RegistryInv'
      BY <1>1, <1>4, <2>4, <2>5, FaultsCounted DEF RInv, RegistryInv
    <2>7. u \notin contested => store[u] = None /\ \A a \in acked : a.url # u
      <3> SUFFICES ASSUME u \notin contested PROVE store[u] = None /\ \A a \in acked : a.url # u
        OBVIOUS
      <3>1. store[u] = None
        BY <1>1, <1>2 DEF RInv, KeptInv
      <3>2. ASSUME NEW a \in acked, a.url = u PROVE FALSE
        <4>1. store[a.url] = a.secret /\ a.secret \in Secrets
          BY <3>2 DEF RInv, RegistryInv, KeptInv, RegistrantKept
        <4>2. QED
          BY <3>1, <3>2, <4>1, WebhookConstants
      <3>3. QED
        BY <3>1, <3>2
    <2>8. KeptInv'
      <3>1. RegistrantKept'
        <4> SUFFICES ASSUME NEW a \in acked, a.url \notin contested
                     PROVE  store'[a.url] = a.secret /\ \A b \in acked : b.url = a.url => b = a
          BY <1>1 DEF RegistrantKept
        <4>1. a.url \in Urls /\ a.url # u
          BY <2>7 DEF RInv, RegistryInv
        <4>2. QED
          BY <2>5, <4>1 DEF RInv, KeptInv, RegistrantKept
      <3>2. ASSUME NEW v \in Urls \ contested, NEW b \in Callers, WorksOn(b, v)'
            PROVE  WorksOn(b, v)
        BY <1>1, <2>1, <2>4, <3>2 DEF WorksOn
      <3>3. ASSUME NEW v \in Urls \ contested, NEW b \in Callers, calls'[b].url = v, calls'[b].pc \in {"check", "write"}
            PROVE  store'[v] = None /\ (calls'[b].pc = "write" => calls'[b].created)
        <4>1. b # c /\ calls'[b] = calls[b]
          BY <2>1, <2>4, <3>3
        <4>2. v # u
          BY <1>1, <1>2, <3>3, <4>1 DEF RInv, KeptInv, WorksOn
        <4>3. QED
          BY <2>5, <3>3, <4>1, <4>2 DEF RInv, KeptInv
      <3>4. ASSUME NEW v \in Urls \ contested, NEW b \in Callers, calls'[b].url = v, calls'[b].pc = "record"
            PROVE  store'[v] = calls'[b].secret /\ \A a \in acked : a.url # v
        <4>1. CASE b = c
          BY <2>4, <2>5, <2>7, <3>4, <4>1
        <4>2. CASE b # c
          <5>1. v # u
            BY <1>1, <1>2, <2>4, <3>4, <4>2 DEF RInv, KeptInv, WorksOn
          <5>2. QED
            BY <2>4, <2>5, <3>4, <4>2, <5>1 DEF RInv, KeptInv
        <4>3. QED
          BY <4>1, <4>2
      <3>5. QED
        BY <1>1, <3>1, <3>2, <3>3, <3>4 DEF RInv, KeptInv
    <2>9. DispatchesInv'
      BY <1>1, <1>2, <2>5, StoredMore DEF RInv
    <2>10. QED
      BY <1>1, <2>6, <2>8, <2>9, RegistryFrame DEF RInv
  <1>5. QED
    BY <1>3, <1>4 DEF PutWrite

LEMMA RecordStep ==
    ASSUME RInv, NEW c \in Callers, Record(c)
    PROVE  RInv'
  <1> DEFINE u == calls[c].url
             r == [url |-> u, secret |-> calls[c].secret]
             a0 == [url |-> u, secret |-> calls[c].secret, life |-> life]
  <1>1. /\ UNCHANGED <<store, dispatches, life, faults, contested>> /\ calls[c].pc = "record"
        /\ seen' = seen \cup {u} /\ cache' = Append(cache, r) /\ acked' = acked \cup {a0}
    BY DEF Record
  <1>2. u \in Urls /\ calls[c].secret \in Secrets /\ r \in Registrant
    BY <1>1 DEF RInv, RegistryInv, Registrant
  <1>3. a0 \in [url : Urls, secret : Secrets, life : 0..MaxRestarts]
    BY <1>2 DEF RInv, RegistryInv
  <1>4. /\ calls' \in [Callers -> Registration]
        /\ calls'[c].pc = "answered" /\ calls'[c].url = u
        /\ \A b \in Callers \ {c} : calls'[b] = calls[b]
        /\ \A b \in Callers : calls'[b].pc # "idle" => calls'[b].url \in Urls /\ calls'[b].secret \in Secrets
    BY <1>1, CallMoves DEF RInv, Record, Step, RegistrationPCs
  <1>5. cache' \in Seq(Registrant) /\ (\A url, secret : InCache(url, secret) => InCache(url, secret)')
        /\ \E i \in DOMAIN cache' : cache'[i].url = u /\ cache'[i].secret = calls[c].secret
    <2>1. cache \in Seq(Registrant)
      BY DEF RInv, RegistryInv
    <2>2. cache' \in Seq(Registrant) /\ Len(cache') = Len(cache) + 1 /\ Len(cache) \in Nat
          /\ cache'[Len(cache) + 1] = r /\ \A i \in 1..Len(cache) : cache'[i] = cache[i]
      BY <1>1, <1>2, <2>1
    <2>3. DOMAIN cache = 1..Len(cache) /\ DOMAIN cache' = 1..(Len(cache) + 1)
      BY <2>1, <2>2
    <2>4. \A url, secret : InCache(url, secret) => InCache(url, secret)'
      BY <2>2, <2>3 DEF InCache
    <2>5. r.url = u /\ r.secret = calls[c].secret /\ Len(cache) + 1 \in DOMAIN cache'
      BY <2>2, <2>3
    <2>6. \E i \in DOMAIN cache' : cache'[i].url = u /\ cache'[i].secret = calls[c].secret
      BY <2>2, <2>5
    <2>7. QED
      BY <2>2, <2>4, <2>6
  <1>6. a0.url = u /\ a0.secret = calls[c].secret /\ a0.life = life /\ life \in Int
    BY DEF RInv, RegistryInv
  <1> HIDE DEF r, a0
  <1>7. RegistryInv'
    BY <1>1, <1>2, <1>3, <1>4, <1>5 DEF RInv, RegistryInv
  <1>8. AckedInv'
    <2>1. \A a \in acked : a.life <= life /\ (a.life = life => InCache(a.url, a.secret)')
      BY <1>5 DEF RInv, AckedInv
    <2>2. \E i \in DOMAIN cache' : cache'[i].url = a0.url /\ cache'[i].secret = a0.secret
      BY <1>5, <1>6
    <2>3. ASSUME NEW a \in acked'
          PROVE  a.life <= life' /\ (a.life = life' => \E i \in DOMAIN cache' : cache'[i].url = a.url /\ cache'[i].secret = a.secret)
      <3>1. CASE a \in acked
        BY <1>1, <2>1, <3>1 DEF InCache
      <3>2. CASE a = a0
        BY <1>1, <1>6, <2>2, <3>2
      <3>3. QED
        BY <1>1, <2>3, <3>1, <3>2
    <2>4. QED
      BY <2>3 DEF AckedInv, InCache
  <1>9. KeptInv'
    <2>1. u \notin contested => store[u] = calls[c].secret /\ \A a \in acked : a.url # u
      BY <1>1, <1>2 DEF RInv, KeptInv
    <2>2. RegistrantKept'
      BY <1>1, <1>6, <2>1 DEF RInv, KeptInv, RegistrantKept
    <2>3. ASSUME NEW v \in Urls \ contested, NEW b \in Callers, WorksOn(b, v)'
          PROVE  WorksOn(b, v) /\ calls'[b] = calls[b] /\ b # c
      BY <1>4, <2>3 DEF WorksOn
    <2>4. ASSUME NEW v \in Urls \ contested, NEW b \in Callers, WorksOn(b, v)'
          PROVE  v # u
      BY <1>1, <1>2, <2>3, <2>4 DEF RInv, KeptInv, WorksOn
    <2>5. QED
      BY <1>1, <1>6, <2>2, <2>3, <2>4 DEF RInv, KeptInv, WorksOn
  <1>10. QED
    BY <1>1, <1>7, <1>8, <1>9, RegistryFrame DEF RInv
-----------------------------------------------------------------------------
(* Dispatches *)

\* A dispatch goes on; the registry stays as it is.
LEMMA DispatchMoves ==
    ASSUME RInv, NEW d \in Dispatches, UNCHANGED <<registry, life>>, faults' \in 0..MaxFaults, NEW e,
           dispatches' = [dispatches EXCEPT ![d] = e], Sends(e, store)
    PROVE  RInv'
  <1>1. RegistryInv' /\ KeptInv' /\ AckedInv' /\ store' = store
    <2>1. RegistryInv'
      BY DEF RInv, RegistryInv, registry
    <2>2. QED
      BY <2>1, RegistryFrame DEF RInv, registry
  <1>2. DispatchesInv'
    BY <1>1 DEF RInv, DispatchesInv
  <1>3. QED
    BY <1>1, <1>2 DEF RInv

\* Everybody gets a slot or waits for one, and has not been tried.
LEMMA FannedHas ==
    ASSUME NEW T, NEW r \in Seq(T), \A t \in T : t.url \in Urls /\ t.secret \in Secrets
    PROVE  /\ Fanned(r) \in Seq(Target)
           /\ \A i \in DOMAIN Fanned(r) : Tries(Fanned(r)[i])
           /\ \A u : Has(r, u) => Has(Fanned(r), u)
  <1> DEFINE at(i) == IF i <= Concurrency THEN "sending" ELSE "queued"
             t(i) == [url |-> r[i].url, secret |-> r[i].secret, at |-> at(i), attempts |-> 0]
  <1>1. Fanned(r) = [i \in DOMAIN r |-> t(i)]
    BY DEF Fanned
  <1>2. ASSUME NEW i \in DOMAIN r
        PROVE  t(i) \in Target /\ Tries(t(i)) /\ t(i).url = r[i].url
    <2>1. at(i) \in {"queued", "sending", "ok", "failed"}
      OBVIOUS
    <2>2. 0 \in 0..(RetryCount + 1) /\ 0 <= RetryCount
      BY WebhookConstants
    <2>3. r[i].url \in Urls /\ r[i].secret \in Secrets
      OBVIOUS
    <2> HIDE DEF at
    <2>4. QED
      BY <2>1, <2>2, <2>3 DEF Target, Tries
  <1> HIDE DEF t
  <1>3. DOMAIN r = 1..Len(r) /\ Len(r) \in Nat
    OBVIOUS
  <1>4. QED
    BY <1>1, <1>2, <1>3 DEF Has

\* The slots go to the first of them, and nobody waits unless all are taken.
LEMMA FannedSlots ==
    ASSUME NEW T, NEW r \in Seq(T)
    PROVE  Slots(Fanned(r))
  <1> DEFINE ts == Fanned(r)
  <1>1. DOMAIN r = 1..Len(r) /\ Len(r) \in Nat /\ Concurrency \in Nat \ {0}
    BY WebhookConstants
  <1>2. DOMAIN ts = DOMAIN r /\ \A i \in DOMAIN r : ts[i].at = IF i <= Concurrency THEN "sending" ELSE "queued"
    BY DEF Fanned
  <1> HIDE DEF ts
  <1>3. Sending(ts) = {i \in DOMAIN r : i <= Concurrency}
    BY <1>2 DEF Sending
  <1>4. CASE Len(r) <= Concurrency
    <2>1. Sending(ts) = 1..Len(r)
      BY <1>1, <1>3, <1>4
    <2>2. Cardinality(Sending(ts)) = Len(r)
      BY <1>1, <2>1, FS_Interval
    <2>3. \A i \in DOMAIN ts : ts[i].at # "queued"
      BY <1>1, <1>2, <1>4
    <2>4. QED
      BY <1>1, <1>4, <2>2, <2>3 DEF Slots, ts
  <1>5. CASE ~(Len(r) <= Concurrency)
    <2>1. Sending(ts) = 1..Concurrency
      BY <1>1, <1>3, <1>5
    <2>2. Cardinality(Sending(ts)) = Concurrency
      BY <1>1, <2>1, FS_Interval
    <2>3. QED
      BY <1>1, <2>2 DEF Slots, ts
  <1>6. QED
    BY <1>4, <1>5

LEMMA IdleSends ==
    \A st : Sends(NoDispatch, st)
  <1>1. <<>> \in Seq(Target) /\ DOMAIN <<>> = {}
    OBVIOUS
  <1>2. NoDispatch \in Dispatch /\ NoDispatch.pc = "idle" /\ NoDispatch.targets = <<>>
    BY <1>1 DEF NoDispatch, Dispatch
  <1>3. QED
    BY <1>1, <1>2 DEF Sends

LEMMA BeginStep ==
    ASSUME RInv, NEW d \in Dispatches, Begin(d)
    PROVE  RInv'
  <1> DEFINE asked == [NoDispatch EXCEPT !.pc = "list", !.owed = Owed]
             told == [NoDispatch EXCEPT !.pc = "sending", !.owed = Owed, !.targets = Fanned(Unique(cache))]
  <1>1. /\ UNCHANGED <<registry, life, faults>>
        /\ dispatches' = [dispatches EXCEPT ![d] = IF cache = <<>> THEN asked ELSE told]
    BY DEF Begin
  <1>2. \A u \in Owed : u \in Urls /\ store[u] # None
    <2> SUFFICES ASSUME NEW a \in acked, a.url \notin contested PROVE a.url \in Urls /\ store[a.url] # None
      BY DEF Owed
    <2>1. a.url \in Urls /\ a.secret \in Secrets /\ store[a.url] = a.secret
      BY DEF RInv, RegistryInv, KeptInv, RegistrantKept
    <2>2. QED
      BY <2>1, WebhookConstants
  <1>3. CASE cache = <<>>
    <2> DEFINE owed == Owed
    <2>0. asked = [NoDispatch EXCEPT !.pc = "list", !.owed = owed]
      OBVIOUS
    <2>1. owed \subseteq Urls /\ \A u \in owed : store[u] # None
      BY <1>2
    <2> HIDE DEF owed, asked
    <2>2. asked.pc = "list" /\ asked.owed = owed /\ asked.targets = <<>> /\ asked \in Dispatch
      BY <2>0, <2>1, IdleSends DEF NoDispatch, Sends, Dispatch
    <2>3. Sends(asked, store)
      BY <2>1, <2>2 DEF Sends
    <2>4. QED
      BY <1>1, <1>3, <2>3, DispatchMoves DEF RInv, RegistryInv
  <1>4. CASE cache # <<>>
    <2> DEFINE owed == Owed
               targets == Fanned(Unique(cache))
    <2>0. told = [NoDispatch EXCEPT !.pc = "sending", !.owed = owed, !.targets = targets]
      OBVIOUS
    <2>1. \A u \in owed : Has(cache, u)
      <3> SUFFICES ASSUME NEW a \in acked, ~Shadowed(a) PROVE Has(cache, a.url)
        BY DEF Owed
      <3>1. a.life \in Int /\ life \in Int /\ ~(a.life < life) /\ a.life <= life
        BY <1>4 DEF Shadowed, RInv, RegistryInv, AckedInv
      <3>2. a.life = life
        BY <3>1
      <3>3. QED
        BY <3>2 DEF RInv, AckedInv, InCache, Has
    <2>2. cache \in Seq(Registrant) /\ \A r \in Registrant : r.url \in Urls /\ r.secret \in Secrets
      BY DEF RInv, RegistryInv, Registrant
    <2>3. /\ targets \in Seq(Target) /\ \A i \in DOMAIN targets : Tries(targets[i])
          /\ Slots(targets) /\ \A u \in owed : Has(targets, u)
      BY <2>1, <2>2, UniqueHas, FannedHas, FannedSlots
    <2>4. owed \subseteq Urls
      BY <1>2
    <2> HIDE DEF owed, targets, told
    <2>5. told.pc = "sending" /\ told.owed = owed /\ told.targets = targets /\ told \in Dispatch
      BY <2>0, <2>3, <2>4 DEF NoDispatch, Dispatch
    <2>6. Sends(told, store)
      BY <2>3, <2>5 DEF Sends
    <2>7. QED
      BY <1>1, <1>4, <2>6, DispatchMoves DEF RInv, RegistryInv
  <1>5. QED
    BY <1>3, <1>4

LEMMA ListRegistrantsStep ==
    ASSUME RInv, NEW d \in Dispatches, ListRegistrants(d)
    PROVE  RInv'
  <1> DEFINE e == dispatches[d]
  <1>1. Sends(e, store) /\ e.pc = "list" /\ UNCHANGED <<registry, life>> /\ faults' \in 0..MaxFaults
    BY FaultsCounted DEF ListRegistrants, RInv, DispatchesInv
  <1>2. CASE dispatches' = [dispatches EXCEPT ![d].pc = "read", ![d].keys = Stored]
    <2> DEFINE keys == Stored
               f == [e EXCEPT !.pc = "read", !.keys = keys]
    <2>1. dispatches' = [dispatches EXCEPT ![d] = f]
      BY <1>2 DEF RInv, DispatchesInv
    <2>2. keys \subseteq Urls /\ \A u \in e.owed : u \in keys
      BY <1>1 DEF Stored, Sends, Dispatch
    <2> HIDE DEF keys, e
    <2>3. f \in Dispatch /\ f.pc = "read" /\ f.keys = keys /\ f.owed = e.owed /\ f.targets = e.targets
      BY <1>1, <2>2 DEF Sends, Dispatch
    <2> HIDE DEF f
    <2>4. Sends(f, store)
      BY <1>1, <2>2, <2>3 DEF Sends
    <2>5. QED
      BY <1>1, <2>1, <2>4, DispatchMoves
  <1>3. CASE dispatches' = [dispatches EXCEPT ![d].pc = "answered", ![d].owed = {}]
    <2> DEFINE f == [e EXCEPT !.pc = "answered", !.owed = {}]
    <2>1. dispatches' = [dispatches EXCEPT ![d] = f]
      BY <1>3 DEF RInv, DispatchesInv
    <2> HIDE DEF e
    <2>2. f \in Dispatch /\ f.pc = "answered" /\ f.owed = {} /\ f.targets = e.targets
      BY <1>1 DEF Sends, Dispatch
    <2> HIDE DEF f
    <2>3. Sends(f, store)
      BY <1>1, <2>2 DEF Sends
    <2>4. QED
      BY <1>1, <2>1, <2>3, DispatchMoves
  <1>4. QED
    BY <1>2, <1>3 DEF ListRegistrants

LEMMA ReadRegistrantStep ==
    ASSUME RInv, NEW d \in Dispatches, NEW key \in Urls, ReadRegistrant(d, key)
    PROVE  RInv'
  <1> DEFINE e == dispatches[d]
             registrant == [url |-> key, secret |-> store[key], at |-> "queued", attempts |-> 0]
  <1>1. Sends(e, store) /\ e.pc = "read" /\ UNCHANGED <<registry, life>> /\ faults' \in 0..MaxFaults
    BY FaultsCounted DEF ReadRegistrant, RInv, DispatchesInv
  <1>2. CASE dispatches' = [dispatches EXCEPT ![d].keys = @ \ {key},
                              ![d].targets = IF key \in Stored THEN Append(@, registrant) ELSE @]
    <2> DEFINE keys == e.keys \ {key}
               targets == IF key \in Stored THEN Append(e.targets, registrant) ELSE e.targets
               f == [e EXCEPT !.keys = keys, !.targets = targets]
    <2>1. dispatches' = [dispatches EXCEPT ![d] = f]
      BY <1>2 DEF RInv, DispatchesInv
    <2>2. e.targets \in Seq(Target) /\ e.keys \subseteq Urls
      BY <1>1 DEF Sends, Dispatch
    <2>3. /\ targets \in Seq(Target) /\ \A i \in DOMAIN targets : Tries(targets[i])
          /\ \A u : Has(e.targets, u) => Has(targets, u)
          /\ key \in Stored => Has(targets, key)
      <3>1. CASE key \in Stored
        <4>1. store[key] \in Secrets
          BY <3>1 DEF Stored, RInv, RegistryInv
        <4>2. 0 \in 0..(RetryCount + 1) /\ 0 <= RetryCount
          BY WebhookConstants
        <4>3. registrant \in Target /\ Tries(registrant) /\ registrant.url = key
          BY <4>1, <4>2 DEF Target, Tries
        <4> HIDE DEF registrant
        <4>4. targets = Append(e.targets, registrant)
          BY <3>1
        <4> HIDE DEF targets, e
        <4>5. /\ targets \in Seq(Target) /\ DOMAIN targets = 1..(Len(e.targets) + 1) /\ Len(e.targets) \in Nat
              /\ DOMAIN e.targets = 1..Len(e.targets)
              /\ \A i \in 1..Len(e.targets) : targets[i] = e.targets[i]
              /\ targets[Len(e.targets) + 1] = registrant
          BY <2>2, <4>3, <4>4
        <4>6. \A i \in DOMAIN targets : i \in DOMAIN e.targets \/ i = Len(e.targets) + 1
          BY <4>5
        <4>7. \A i \in DOMAIN e.targets : Tries(e.targets[i])
          BY <1>1 DEF Sends
        <4>8. Len(e.targets) + 1 \in DOMAIN targets /\ \A i \in DOMAIN e.targets : i \in DOMAIN targets
          BY <4>5
        <4>9. QED
          BY <4>3, <4>5, <4>6, <4>7, <4>8 DEF Has
      <3>2. CASE key \notin Stored
        BY <1>1, <2>2, <3>2 DEF Sends
      <3>3. QED
        BY <3>1, <3>2
    <2> HIDE DEF targets
    <2>4. \A u \in e.owed : u \in keys \/ Has(targets, u)
      BY <1>1, <2>3 DEF Sends, Stored
    <2>5. keys \subseteq Urls
      BY <2>2
    <2> HIDE DEF keys, e
    <2>6. f \in Dispatch /\ f.pc = "read" /\ f.keys = keys /\ f.owed = e.owed /\ f.targets = targets
      BY <1>1, <2>3, <2>5 DEF Sends, Dispatch
    <2> HIDE DEF f
    <2>7. Sends(f, store)
      BY <1>1, <2>3, <2>4, <2>6 DEF Sends
    <2>8. QED
      BY <1>1, <2>1, <2>7, DispatchMoves
  <1>3. CASE dispatches' = [dispatches EXCEPT ![d].keys = @ \ {key}, ![d].owed = @ \ {key}]
    <2> DEFINE keys == e.keys \ {key}
               owed == e.owed \ {key}
               f == [e EXCEPT !.keys = keys, !.owed = owed]
    <2>1. dispatches' = [dispatches EXCEPT ![d] = f]
      BY <1>3 DEF RInv, DispatchesInv
    <2>2. keys \subseteq Urls /\ owed \subseteq Urls
      BY <1>1 DEF Sends, Dispatch
    <2>3. owed \subseteq e.owed /\ \A u \in owed : u \in keys \/ Has(e.targets, u)
      BY <1>1 DEF Sends
    <2> HIDE DEF keys, owed, e
    <2>4. f \in Dispatch /\ f.pc = "read" /\ f.keys = keys /\ f.owed = owed /\ f.targets = e.targets
      BY <1>1, <2>2 DEF Sends, Dispatch
    <2> HIDE DEF f
    <2>5. Sends(f, store)
      BY <1>1, <2>3, <2>4 DEF Sends
    <2>6. QED
      BY <1>1, <2>1, <2>5, DispatchMoves
  <1>4. QED
    BY <1>2, <1>3 DEF ReadRegistrant

LEMMA StartSendingStep ==
    ASSUME RInv, NEW d \in Dispatches, StartSending(d)
    PROVE  RInv'
  <1> DEFINE e == dispatches[d]
             targets == Fanned(Unique(e.targets))
             f == [e EXCEPT !.pc = "sending", !.targets = targets]
  <1>1. Sends(e, store) /\ e.pc = "read" /\ e.keys = {} /\ UNCHANGED <<registry, life, faults>>
    BY DEF StartSending, RInv, DispatchesInv
  <1>2. dispatches' = [dispatches EXCEPT ![d] = f]
    BY DEF StartSending, RInv, DispatchesInv
  <1>3. e.targets \in Seq(Target) /\ \A t \in Target : t.url \in Urls /\ t.secret \in Secrets
    BY <1>1 DEF Sends, Dispatch, Target
  <1>4. \A u \in e.owed : Has(e.targets, u)
    BY <1>1 DEF Sends
  <1> HIDE DEF e
  <1>5. /\ targets \in Seq(Target) /\ \A i \in DOMAIN targets : Tries(targets[i])
        /\ Slots(targets) /\ \A u \in e.owed : Has(targets, u)
    BY <1>3, <1>4, UniqueHas, FannedHas, FannedSlots
  <1> HIDE DEF targets
  <1>6. f \in Dispatch /\ f.pc = "sending" /\ f.owed = e.owed /\ f.targets = targets
    BY <1>1, <1>5 DEF Sends, Dispatch
  <1> HIDE DEF f
  <1>7. Sends(f, store)
    BY <1>5, <1>6 DEF Sends
  <1>8. QED
    BY <1>1, <1>2, <1>7, DispatchMoves DEF RInv, RegistryInv

\* A target is tried again, or is over and another gets its slot.
LEMMA TriedHas ==
    ASSUME NEW ts \in Seq(Target), \A j \in DOMAIN ts : Tries(ts[j]),
           NEW i \in DOMAIN ts, ts[i].at = "sending", NEW ok \in BOOLEAN
    PROVE  /\ Tried(ts, i, ok) \in Seq(Target)
           /\ \A j \in DOMAIN Tried(ts, i, ok) : Tries(Tried(ts, i, ok)[j])
           /\ \A u : Has(ts, u) => Has(Tried(ts, i, ok), u)
  <1> DEFINE new == Tried(ts, i, ok)
             t == ts[i]
             once == t.attempts + 1
  <1>1. DOMAIN ts = 1..Len(ts) /\ Len(ts) \in Nat /\ t \in Target /\ \A j \in DOMAIN ts : ts[j] \in Target
    OBVIOUS
  <1>2. t.attempts \in 0..RetryCount /\ once \in 0..(RetryCount + 1)
    BY <1>1, WebhookConstants, SMTT(20) DEF Tries, Target
  <1>3. SUFFICES ASSUME new = [j \in DOMAIN ts |-> new[j]],
                        \A j \in DOMAIN ts : new[j] \in Target /\ Tries(new[j]) /\ new[j].url = ts[j].url
                 PROVE  new \in Seq(Target) /\ (\A j \in DOMAIN new : Tries(new[j])) /\ \A u : Has(ts, u) => Has(new, u)
    <2>1. CASE ~ok /\ t.attempts < RetryCount
      <3> DEFINE again == [t EXCEPT !.attempts = once]
      <3>1. new = [ts EXCEPT ![i] = again]
        BY <2>1 DEF Tried
      <3>2. once <= RetryCount
        BY <1>2, <2>1, WebhookConstants
      <3> HIDE DEF once, t
      <3>3. again \in Target /\ again.url = t.url /\ again.attempts = once
        BY <1>1, <1>2 DEF Target
      <3>4. Tries(again)
        BY <3>2, <3>3 DEF Tries
      <3> HIDE DEF again, new
      <3>5. new = [j \in DOMAIN ts |-> new[j]] /\ new[i] = again /\ \A j \in DOMAIN ts : j # i => new[j] = ts[j]
        BY <3>1
      <3>6. t = ts[i]
        BY DEF t
      <3>7. \A j \in DOMAIN ts : new[j] \in Target /\ Tries(new[j]) /\ new[j].url = ts[j].url
        BY <1>1, <3>3, <3>4, <3>5, <3>6
      <3>8. QED
        BY <1>3, <3>5, <3>7 DEF new
    <2>2. CASE ~(~ok /\ t.attempts < RetryCount)
      <3> DEFINE waiting == {j \in DOMAIN ts : ts[j].at = "queued"}
                 next == {j \in waiting : \A k \in waiting : j <= k}
                 tries == IF ok THEN t.attempts ELSE t.attempts + 1
                 at == IF ok THEN "ok" ELSE "failed"
                 over == [t EXCEPT !.at = at, !.attempts = tries]
                 sent(j) == [ts[j] EXCEPT !.at = "sending"]
      <3>1. new = [j \in DOMAIN ts |-> IF j = i THEN over ELSE IF j \in next THEN sent(j) ELSE ts[j]]
        BY <2>2 DEF Tried, Ended
      <3>2. tries \in 0..(RetryCount + 1) /\ at \in {"ok", "failed"}
        BY <1>2, WebhookConstants
      <3> HIDE DEF tries, at, t
      <3>3. over \in Target /\ over.url = t.url /\ over.at = at
        BY <1>1, <3>2 DEF Target
      <3>4. Tries(over)
        BY <3>2, <3>3 DEF Tries
      <3>5. ASSUME NEW j \in next
            PROVE  sent(j) \in Target /\ Tries(sent(j)) /\ sent(j).url = ts[j].url
        <4>1. ts[j] \in Target /\ ts[j].at = "queued" /\ Tries(ts[j])
          BY <1>1
        <4>2. ts[j].attempts <= RetryCount
          BY <4>1 DEF Tries
        <4>3. sent(j) \in Target /\ sent(j).url = ts[j].url /\ sent(j).attempts = ts[j].attempts
          BY <4>1 DEF Target
        <4> HIDE DEF sent
        <4>4. QED
          BY <4>2, <4>3 DEF Tries
      <3>6. t = ts[i]
        BY DEF t
      <3> HIDE DEF over, sent, next
      <3>7. \A j \in DOMAIN ts : new[j] = IF j = i THEN over ELSE IF j \in next THEN sent(j) ELSE ts[j]
        BY <3>1
      <3>8. new = [j \in DOMAIN ts |-> new[j]]
        BY <3>1
      <3> HIDE DEF new
      <3>9. \A j \in DOMAIN ts : new[j] \in Target /\ Tries(new[j]) /\ new[j].url = ts[j].url
        BY <1>1, <3>3, <3>4, <3>5, <3>6, <3>7
      <3>10. QED
        BY <1>3, <3>8, <3>9 DEF new
    <2>3. QED
      BY <2>1, <2>2
  <1> HIDE DEF new
  <1>4. QED
    BY <1>1, <1>3 DEF Has

\* The slot of one that is over goes to the first that waits, if any does.
LEMMA TriedSlots ==
    ASSUME NEW ts \in Seq(Target), Slots(ts),
           NEW i \in DOMAIN ts, ts[i].at = "sending", NEW ok \in BOOLEAN
    PROVE  Slots(Tried(ts, i, ok))
  <1> DEFINE new == Tried(ts, i, ok)
             S == Sending(ts)
  <1>1. /\ DOMAIN ts = 1..Len(ts) /\ Len(ts) \in Nat /\ (\A j \in DOMAIN ts : ts[j] \in Target)
        /\ Concurrency \in Nat \ {0}
    BY WebhookConstants
  <1>2. i \in S /\ IsFiniteSet(S) /\ Cardinality(S) \in Nat
    <2>1. IsFiniteSet(1..Len(ts)) /\ S \subseteq 1..Len(ts)
      BY <1>1, FS_Interval DEF Sending
    <2>2. QED
      BY <2>1, FS_Subset, FS_CardinalityType DEF Sending
  <1>3. CASE ~ok /\ ts[i].attempts < RetryCount
    <2> DEFINE again == [ts[i] EXCEPT !.attempts = @ + 1]
    <2>1. new = [ts EXCEPT ![i] = again]
      BY <1>3 DEF Tried
    <2>2. again.at = "sending"
      BY <1>1 DEF Target
    <2> HIDE DEF again, new
    <2>3. DOMAIN new = DOMAIN ts /\ \A j \in DOMAIN ts : new[j].at = ts[j].at
      BY <2>1, <2>2
    <2>4. Sending(new) = S
      BY <2>3 DEF Sending
    <2>5. QED
      BY <2>3, <2>4 DEF Slots, new
  <1>4. CASE ~(~ok /\ ts[i].attempts < RetryCount)
    <2> DEFINE waiting == {j \in DOMAIN ts : ts[j].at = "queued"}
               next == {j \in waiting : \A k \in waiting : j <= k}
               at == IF ok THEN "ok" ELSE "failed"
               over == [ts[i] EXCEPT !.at = at, !.attempts = IF ok THEN @ ELSE @ + 1]
               sent(j) == [ts[j] EXCEPT !.at = "sending"]
    <2>1. new = [j \in DOMAIN ts |-> IF j = i THEN over ELSE IF j \in next THEN sent(j) ELSE ts[j]]
      BY <1>4 DEF Tried, Ended
    <2>2. at \in {"ok", "failed"}
      OBVIOUS
    <2> HIDE DEF at
    <2>3. over.at = at
      BY <1>1 DEF Target
    <2>4. \A j \in DOMAIN ts : sent(j).at = "sending"
      BY <1>1 DEF Target
    <2>5. i \notin waiting /\ next \subseteq waiting /\ waiting \subseteq DOMAIN ts
      OBVIOUS
    <2> HIDE DEF over, sent, next
    <2>6. DOMAIN new = DOMAIN ts /\ \A j \in DOMAIN ts : new[j] = IF j = i THEN over ELSE IF j \in next THEN sent(j) ELSE ts[j]
      BY <2>1
    <2> HIDE DEF new
    <2>7. Sending(new) = (S \ {i}) \cup next
      BY <2>2, <2>3, <2>4, <2>5, <2>6 DEF Sending
    <2>8. IsFiniteSet(S \ {i}) /\ Cardinality(S \ {i}) = Cardinality(S) - 1
      BY <1>2, FS_RemoveElement
    <2>9. CASE waiting = {}
      <3>1. Sending(new) = S \ {i}
        BY <2>5, <2>7, <2>9
      <3>2. \A j \in DOMAIN new : new[j].at # "queued"
        BY <2>2, <2>3, <2>4, <2>6, <2>9
      <3>3. Cardinality(Sending(new)) <= Concurrency
        BY <1>1, <1>2, <2>8, <3>1 DEF Slots
      <3>4. QED
        BY <3>2, <3>3 DEF Slots, new
    <2>10. CASE waiting # {}
      <3>1. PICK j : next = {j} /\ j \in waiting
        <4>1. waiting \subseteq Nat
          BY <1>1
        <4>2. PICK j \in waiting : \A k \in waiting : j <= k
          BY <2>10, <4>1, LeastOf
        <4>3. next = {j}
          BY <4>1, <4>2 DEF next
        <4>4. QED
          BY <4>2, <4>3
      <3>2. Sending(new) = (S \ {i}) \cup {j} /\ j \notin S \ {i}
        BY <2>7, <3>1 DEF Sending
      <3>3. Cardinality(Sending(new)) = Cardinality(S)
        <4>1. Cardinality((S \ {i}) \cup {j}) = Cardinality(S \ {i}) + 1
          BY <2>8, <3>2, FS_AddElement
        <4>2. QED
          BY <1>2, <2>8, <3>2, <4>1
      <3>4. Cardinality(S) = Concurrency
        BY <2>10 DEF Slots
      <3>5. QED
        BY <1>1, <3>3, <3>4 DEF Slots, new
    <2>11. QED
      BY <2>9, <2>10
  <1>5. QED
    BY <1>3, <1>4

LEMMA AnswerStep ==
    ASSUME RInv, NEW d \in Dispatches, NEW i \in DOMAIN dispatches[d].targets, NEW ok \in BOOLEAN,
           Answer(d, i, ok)
    PROVE  RInv'
  <1> DEFINE e == dispatches[d]
             targets == Tried(e.targets, i, ok)
             f == [e EXCEPT !.targets = targets]
  <1>1. Sends(e, store) /\ e.pc = "sending" /\ e.targets[i].at = "sending" /\ UNCHANGED <<registry, life, faults>>
    BY DEF Answer, RInv, DispatchesInv
  <1>2. dispatches' = [dispatches EXCEPT ![d] = f]
    BY DEF Answer, RInv, DispatchesInv
  <1>3. e.targets \in Seq(Target) /\ \A j \in DOMAIN e.targets : Tries(e.targets[j])
    BY <1>1 DEF Sends, Dispatch
  <1>4. Slots(e.targets) /\ \A u \in e.owed : Has(e.targets, u)
    BY <1>1 DEF Sends
  <1>5. /\ targets \in Seq(Target) /\ \A j \in DOMAIN targets : Tries(targets[j])
        /\ Slots(targets) /\ \A u \in e.owed : Has(targets, u)
    BY <1>1, <1>3, <1>4, TriedHas, TriedSlots
  <1> HIDE DEF targets, e
  <1>6. f \in Dispatch /\ f.pc = "sending" /\ f.owed = e.owed /\ f.targets = targets
    BY <1>1, <1>5 DEF Sends, Dispatch
  <1> HIDE DEF f
  <1>7. Sends(f, store)
    BY <1>5, <1>6 DEF Sends
  <1>8. QED
    BY <1>1, <1>2, <1>7, DispatchMoves DEF RInv, RegistryInv

LEMMA ReportStep ==
    ASSUME RInv, NEW d \in Dispatches, Report(d)
    PROVE  RInv'
  <1> DEFINE e == dispatches[d]
             f == [e EXCEPT !.pc = "answered"]
  <1>1. Sends(e, store) /\ UNCHANGED <<registry, life, faults>>
    BY DEF Report, RInv, DispatchesInv
  <1>2. dispatches' = [dispatches EXCEPT ![d] = f]
    BY DEF Report, RInv, DispatchesInv
  <1> HIDE DEF e
  <1>3. f \in Dispatch /\ f.pc = "answered" /\ f.targets = e.targets
    BY <1>1 DEF Sends, Dispatch
  <1> HIDE DEF f
  <1>4. Sends(f, store)
    BY <1>1, <1>3 DEF Sends
  <1>5. QED
    BY <1>1, <1>2, <1>4, DispatchMoves DEF RInv, RegistryInv

\* A call is done with, and is nobody's any more.
LEMMA CallForgotten ==
    ASSUME RInv, NEW c \in Callers, calls' = [calls EXCEPT ![c] = NoCall],
           UNCHANGED <<store, seen, cache, dispatches, life, faults, acked, contested>>
    PROVE  RInv'
  <1>1. NoCall \in Registration /\ NoCall.pc = "idle"
    BY DEF NoCall, Registration, RegistrationPCs
  <1>2. calls' \in [Callers -> Registration] /\ calls'[c].pc = "idle" /\ \A b \in Callers \ {c} : calls'[b] = calls[b]
    BY <1>1 DEF RInv, RegistryInv
  <1>3. RegistryInv'
    BY <1>2 DEF RInv, RegistryInv
  <1>4. KeptInv'
    <2>1. \A b \in Callers : calls'[b].pc # "idle" => calls'[b] = calls[b]
      BY <1>2
    <2>2. \A u : \A b \in Callers : WorksOn(b, u)' => WorksOn(b, u)
      BY <2>1 DEF WorksOn
    <2>3. RegistrantKept'
      BY DEF RInv, KeptInv, RegistrantKept
    <2>4. QED
      BY <2>1, <2>2, <2>3 DEF RInv, KeptInv
  <1>5. QED
    BY <1>3, <1>4, RegistryFrame DEF RInv

\* Nothing that was under way is any more, and nobody is acknowledged by this life yet.
LEMMA RestartedStep ==
    ASSUME RInv, Restarted
    PROVE  RInv'
  <1>1. /\ life < MaxRestarts /\ life' = life + 1 /\ life \in 0..MaxRestarts /\ MaxRestarts \in Nat
        /\ seen' = {} /\ cache' = <<>> /\ calls' = [c \in Callers |-> NoCall]
        /\ dispatches' = [d \in Dispatches |-> NoDispatch]
        /\ UNCHANGED <<store, faults, acked, contested>>
    BY WebhookConstants DEF Restarted, RInv, RegistryInv
  <1>2. NoCall \in Registration /\ NoCall.pc = "idle"
    BY DEF NoCall, Registration, RegistrationPCs
  <1>3. <<>> \in Seq(Registrant) /\ life' \in 0..MaxRestarts
    BY <1>1
  <1>4. \A c \in Callers : calls'[c] = NoCall
    BY <1>1
  <1>5. calls' \in [Callers -> Registration]
    BY <1>1, <1>2
  <1>6. RegistryInv'
    BY <1>1, <1>2, <1>3, <1>4, <1>5 DEF RInv, RegistryInv
  <1>7. KeptInv'
    BY <1>1, <1>2, <1>4 DEF RInv, KeptInv, WorksOn, RegistrantKept
  <1>8. AckedInv'
    <2>1. \A a \in acked : a.life \in Int /\ a.life <= life /\ life \in Int
      BY <1>1 DEF RInv, AckedInv, RegistryInv
    <2>2. \A a \in acked : a.life <= life + 1 /\ a.life # life + 1
      BY <2>1
    <2>3. QED
      BY <1>1, <2>2 DEF AckedInv
  <1>9. DispatchesInv'
    BY <1>1, IdleSends DEF DispatchesInv
  <1>10. QED
    BY <1>6, <1>7, <1>8, <1>9 DEF RInv

LEMMA FaultStep ==
    ASSUME RInv, Fails, UNCHANGED <<registry, dispatches, life>>
    PROVE  RInv'
  <1>1. RegistryInv'
    BY FaultsCounted DEF RInv, RegistryInv, registry
  <1>2. QED
    BY <1>1, RegistryFrame DEF RInv, registry

-----------------------------------------------------------------------------
(* Who calls, and what a subscription waits for *)

TriggersInv == WritersInv /\ WorkersInv /\ OtherInv

\* Only a load registers a relative URL, and it is that of the subscription it has in hand.
LEMMA WhoseCall ==
    ASSUME TriggersInv, NEW c \in Callers, NEW k \in Keys, calls[c].pc # "idle", calls[c].url = Relative[k]
    PROVE  /\ c \in Tenants /\ <<c, "load">> \in Workers
           /\ Loader(c).pc = "registering" /\ Loader(c).key = k /\ calls[c].secret = Loader(c).secret
  <1>1. c \notin Clients
    BY TriggerConstants DEF TriggersInv, WritersInv
  <1>2. c \notin Writers
    BY TriggerConstants DEF TriggersInv, WritersInv
  <1>3. c \in Tenants /\ <<c, "load">> \in Workers
    BY <1>1, <1>2, TriggerConstants DEF Workers, Kinds
  <1>4. Loader(c).pc = "registering" /\ calls[c].url = Relative[Loader(c).key] /\ calls[c].secret = Loader(c).secret
    BY <1>3 DEF TriggersInv, WorkersInv
  <1>5. Loader(c).key \in Keys
    BY <1>3, <1>4 DEF TriggersInv, WorkersInv, OnKey, Loader
  <1>6. QED
    BY <1>3, <1>4, <1>5, TriggerConstants

\* A subscription becomes unknown only if it, or what is known of it, changes.
LEMMA UnknownBefore ==
    ASSUME NEW k \in Keys, specs'[k] = specs[k], k \in refused => k \in refused',
           \A i \in DOMAIN cache : i \in DOMAIN cache' /\ cache'[i] = cache[i], Unknown(k)'
    PROVE  Unknown(k)
  BY DEF Unknown, Cached, InCache

LEMMA AbsoluteFrame ==
    ASSUME NEW k \in Keys, AbsoluteStored(k),
           k \in refused' => k \in refused, Absolute[k] \in seen' => Absolute[k] \in seen,
           store[Absolute[k]] # None => store'[Absolute[k]] # None,
           \A c \in Callers : calls'[c].url = Absolute[k] /\ calls'[c].pc \in {"answered", "record"} =>
               \/ store'[Absolute[k]] # None
               \/ calls[c].url = Absolute[k] /\ calls[c].pc \in {"answered", "record"}
    PROVE  AbsoluteStored(k)'
  BY DEF AbsoluteStored

\* A call that does not matter to k.
Apart(call, k) == call.pc \notin {"write", "record", "answered"} \/ call.url # Relative[k]

\* What is awaited is awaited still, when nothing is written to or recorded of the relative
\* URL and the worker w, now e, goes on as it should.
LEMMA AwaitedFrame ==
    ASSUME NEW k \in Keys, Awaited(k), specs'[k] = specs[k],
           Relative[k] \in seen' => Relative[k] \in seen,
           store'[Relative[k]] = store[Relative[k]] \/ store'[Relative[k]] = None,
           \A c \in Callers : calls'[c] = calls[c] \/ (Apart(calls[c], k) /\ Apart(calls'[c], k)),
           NEW w \in Workers, workers \in [Workers -> Worker], NEW e, workers' = [workers EXCEPT ![w] = e],
           e.pc \in OnKey /\ e.key = k => e.secret = specs[k],
           w[2] = "load" /\ e.pc \in {"register", "registering"} /\ e.key = k =>
               \/ store'[Relative[k]] = None
               \/ workers[w].pc \in {"register", "registering"} /\ workers[w].key = k,
           w[2] = "load" /\ Pending(workers[w], k) => Pending(e, k) \/ Recording(k)
    PROVE  Awaited(k)'
  <1>1. workers'[w] = e /\ \A v \in Workers \ {w} : workers'[v] = workers[v]
    OBVIOUS
  <1>2. \A t \in Tenants : <<t, "load">> \in Workers /\ (<<t, "load">> = w => w[2] = "load")
    BY DEF Workers, Kinds
  <1>3. Recording(k) => Recording(k)'
    BY DEF Recording, Apart
  <1>4. \A v \in Workers : workers'[v].pc \in OnKey /\ workers'[v].key = k => workers'[v].secret = specs'[k]
    BY <1>1 DEF Awaited
  <1>5. Relative[k] \notin seen'
    BY DEF Awaited
  <1>6. ASSUME NEW t \in Tenants, Loader(t)'.pc \in {"register", "registering"}, Loader(t)'.key = k,
               store'[Relative[k]] # None
        PROVE  Recording(k)'
    <2>1. Loader(t).pc \in {"register", "registering"} /\ Loader(t).key = k
      <3>1. CASE <<t, "load">> = w
        BY <1>1, <1>2, <1>6, <3>1 DEF Loader
      <3>2. CASE <<t, "load">> # w
        BY <1>1, <1>2, <1>6, <3>2 DEF Loader
      <3>3. QED
        BY <3>1, <3>2
    <2>2. QED
      BY <1>3, <1>6, <2>1 DEF Awaited
  <1>7. \A c \in Callers : calls'[c].url = Relative[k] /\ calls'[c].pc = "write" /\ ~calls'[c].created => Recording(k)'
    BY <1>3 DEF Awaited, Apart
  <1>8. \A c \in Callers : calls'[c].url = Relative[k] /\ calls'[c].pc = "answered" => Recording(k)'
    BY <1>3 DEF Awaited, Apart
  <1>9. Recording(k)' \/ \E t \in Tenants : Pending(Loader(t)', k)
    <2>1. CASE Recording(k)
      BY <1>3, <2>1
    <2>2. CASE ~Recording(k)
      <3>1. PICK t \in Tenants : Pending(Loader(t), k)
        BY <2>2 DEF Awaited
      <3>2. CASE <<t, "load">> = w
        <4>1. Pending(e, k) /\ Loader(t)' = e
          BY <1>1, <1>2, <2>2, <3>1, <3>2 DEF Loader
        <4>2. QED
          BY <4>1
      <3>3. CASE <<t, "load">> # w
        BY <1>1, <1>2, <3>1, <3>3 DEF Loader
      <3>4. QED
        BY <3>2, <3>3
    <2>3. QED
      BY <2>1, <2>2
  <1>10. QED
    BY <1>4, <1>5, <1>6, <1>7, <1>8, <1>9 DEF Awaited

\* The same when no worker moves.
LEMMA AwaitedIdle ==
    ASSUME NEW k \in Keys, Awaited(k), TriggersInv, specs'[k] = specs[k], UNCHANGED workers,
           Relative[k] \in seen' => Relative[k] \in seen,
           store'[Relative[k]] = store[Relative[k]] \/ store'[Relative[k]] = None,
           \A c \in Callers : calls'[c] = calls[c] \/ (Apart(calls[c], k) /\ Apart(calls'[c], k))
    PROVE  Awaited(k)'
  <1>1. PICK t \in Tenants : TRUE
    BY TriggerConstants
  <1> DEFINE w == <<t, "load">>
             e == workers[w]
  <1>0. w \in Workers
    BY DEF Workers, Kinds
  <1> HIDE DEF w
  <1>2. workers \in [Workers -> Worker] /\ workers' = [workers EXCEPT ![w] = e]
    BY DEF TriggersInv, WorkersInv
  <1>3. e.pc \in OnKey /\ e.key = k => e.secret = specs[k]
    BY <1>0 DEF Awaited
  <1>4. QED
    BY <1>0, <1>2, <1>3, AwaitedFrame

\* A subscription that nobody touches.
LEMMA SubscriptionsFrame ==
    ASSUME TriggersInv, SubscriptionsInv, faults' = 0 => faults = 0,
           UNCHANGED <<store, seen, cache, calls, triggerVars>>
    PROVE  TriggersInv' /\ SubscriptionsInv'
  <1>1. TriggersInv'
    BY DEF TriggersInv, WritersInv, WorkersInv, OtherInv, Loader, triggerVars
  <1>2. SubscriptionsInv'
    BY DEF SubscriptionsInv, AbsoluteStored, Unknown, Cached, InCache, Awaited, Recording, Pending, Loader, triggerVars
  <1>3. QED
    BY <1>1, <1>2

-----------------------------------------------------------------------------
(* Registrations, and the subscriptions *)

\* A registration that goes on is still of the same URL and secret.
LEMMA RegistrationMoves ==
    ASSUME RInv, NEW c \in Callers, RegistrationStep(c)
    PROVE  /\ calls[c].pc \notin {"idle", "answered"}
           /\ calls'[c].url = calls[c].url /\ calls'[c].secret = calls[c].secret
           /\ \A b \in Callers \ {c} : calls'[b] = calls[b]
  <1>1. CASE PutCheck(c)
    <2> DEFINE b0 == calls[c].url \notin Stored
    <2>1. calls[c].pc = "check" /\ calls \in [Callers -> Registration]
          /\ \/ calls' = [calls EXCEPT ![c].pc = "write", ![c].created = b0]
             \/ calls' = [calls EXCEPT ![c].pc = "answered"]
      BY <1>1 DEF PutCheck, Step, RInv, RegistryInv
    <2> HIDE DEF b0
    <2>2. QED
      BY <2>1 DEF Registration
  <1>2. CASE List(c) \/ Probe(c) \/ PutWrite(c) \/ Record(c)
    <2>1. PICK pc \in RegistrationPCs : Step(c, pc)
      BY <1>2 DEF List, Probe, PutWrite, Record, RegistrationPCs
    <2>2. calls[c].pc \in {"list", "probe", "write", "record"}
      BY <1>2 DEF List, Probe, PutWrite, Record
    <2>3. calls' = [calls EXCEPT ![c].pc = pc]
      BY <2>1 DEF Step
    <2>4. QED
      BY <2>2, <2>3, CallMoves DEF RInv
  <1>3. QED
    BY <1>1, <1>2 DEF RegistrationStep

LEMMA RegistrationStepR ==
    ASSUME RInv, NEW c \in Callers, RegistrationStep(c)
    PROVE  RInv'
  BY ListStep, ProbeStep, PutCheckStep, PutWriteStep, RecordStep DEF RegistrationStep

LEMMA RegistrationStepT ==
    ASSUME RInv, TriggersInv, NEW c \in Callers, RegistrationStep(c), UNCHANGED triggerVars
    PROVE  TriggersInv'
  <1>1. /\ calls[c].pc \notin {"idle", "answered"}
        /\ calls'[c].url = calls[c].url /\ calls'[c].secret = calls[c].secret
        /\ \A b \in Callers \ {c} : calls'[b] = calls[b]
    BY RegistrationMoves
  <1>2. \A b \in Callers : calls'[b].url = calls[b].url /\ calls'[b].secret = calls[b].secret
                           /\ (calls[b].pc = "idle" => calls'[b].pc = "idle")
                           /\ (calls'[b].pc # "idle" => calls[b].pc # "idle")
    BY <1>1
  <1>3. Clients \subseteq Callers /\ Writers \subseteq Callers /\ Tenants \subseteq Callers
    BY TriggerConstants
  <1>4. WritersInv'
    BY <1>2, <1>3 DEF TriggersInv, WritersInv, triggerVars
  <1>5. WorkersInv'
    BY <1>2, <1>3 DEF TriggersInv, WorkersInv, Loader, triggerVars
  <1>6. QED
    BY <1>4, <1>5 DEF TriggersInv, OtherInv, triggerVars

\* What a registration comes to while no request fails.
LEMMA RegistrationSays ==
    ASSUME RInv, NEW c \in Callers, RegistrationStep(c), faults' = 0
    PROVE  /\ faults = 0 /\ calls[c].url \in Urls
           /\ \/ /\ calls[c].pc \in {"list", "probe"} /\ UNCHANGED <<store, seen, cache>>
                 /\ calls'[c].pc \in {"probe", "check"} \/ (calls'[c].pc = "answered" /\ store[calls[c].url] # None)
              \/ /\ calls[c].pc = "check" /\ UNCHANGED <<store, seen, cache>>
                 /\ calls'[c].pc = "write" /\ (calls'[c].created \/ store[calls[c].url] # None)
              \/ /\ calls[c].pc = "write" /\ UNCHANGED <<seen, cache>>
                 /\ store' = [store EXCEPT ![calls[c].url] = calls[c].secret] /\ store'[calls[c].url] # None
                 /\ calls'[c].pc = "record" \/ (calls'[c].pc = "answered" /\ ~calls[c].created)
              \/ /\ calls[c].pc = "record" /\ UNCHANGED store
                 /\ calls'[c].pc = "answered" /\ seen' = seen \cup {calls[c].url}
                 /\ cache' = Append(cache, [url |-> calls[c].url, secret |-> calls[c].secret])
  <1>0. faults \in Nat /\ calls \in [Callers -> Registration] /\ cache \in Seq(Registrant)
    BY WebhookConstants DEF RInv, RegistryInv
  <1>1. ~Fails /\ (Works \/ UNCHANGED faults => faults = 0)
    BY <1>0 DEF Fails, Works
  <1>2. calls[c].url \in Urls /\ calls[c].secret \in Secrets
    BY RegistrationMoves DEF RInv, RegistryInv
  <1>3. CASE List(c)
    <2>1. PICK pc \in {"answered", "probe"} : Step(c, pc) /\ (pc = "answered" => calls[c].url \in Stored)
      BY <1>1, <1>3 DEF List
    <2>2. calls'[c].pc = pc
      BY <1>0, <2>1 DEF Step, Registration
    <2>3. QED
      BY <1>1, <1>2, <1>3, <2>1, <2>2 DEF List, Stored
  <1>4. CASE Probe(c)
    <2>1. PICK pc \in {"answered", "check"} : Step(c, pc) /\ (pc = "answered" => calls[c].url \in Stored)
      BY <1>1, <1>4 DEF Probe
    <2>2. calls'[c].pc = pc
      BY <1>0, <2>1 DEF Step, Registration
    <2>3. QED
      BY <1>1, <1>2, <1>4, <2>1, <2>2 DEF Probe, Stored
  <1>5. CASE PutCheck(c)
    <2> DEFINE b0 == calls[c].url \notin Stored
    <2>1. b0 \/ store[calls[c].url] # None
      BY DEF Stored
    <2>2. calls' = [calls EXCEPT ![c].pc = "write", ![c].created = b0] /\ Works
          /\ UNCHANGED <<store, seen, cache>> /\ calls[c].pc = "check"
      BY <1>1, <1>5 DEF PutCheck
    <2> HIDE DEF b0
    <2>3. calls'[c].pc = "write" /\ calls'[c].created = b0
      BY <1>0, <2>2 DEF Registration
    <2>4. QED
      BY <1>1, <1>2, <2>1, <2>2, <2>3
  <1>6. CASE PutWrite(c)
    <2>1. PICK pc \in {"record", "answered"} : Step(c, pc) /\ (pc = "answered" => ~calls[c].created)
      BY <1>1, <1>6 DEF PutWrite
    <2>2. calls'[c].pc = pc
      BY <1>0, <2>1 DEF Step, Registration
    <2>3. store' = [store EXCEPT ![calls[c].url] = calls[c].secret] /\ Works
          /\ UNCHANGED <<seen, cache>> /\ calls[c].pc = "write"
      BY <1>1, <1>6 DEF PutWrite
    <2>4. store'[calls[c].url] # None
      BY <1>2, <2>3, WebhookConstants DEF RInv, RegistryInv
    <2>5. QED
      BY <1>1, <1>2, <2>1, <2>2, <2>3, <2>4
  <1>7. CASE Record(c)
    <2>1. calls'[c].pc = "answered"
      BY <1>0, <1>7 DEF Record, Step, Registration
    <2>2. QED
      BY <1>1, <1>2, <1>7, <2>1 DEF Record
  <1>8. QED
    BY <1>3, <1>4, <1>5, <1>6, <1>7 DEF RegistrationStep

LEMMA RegistrationStepS ==
    ASSUME RInv, TriggersInv, SubscriptionsInv, NEW c \in Callers, RegistrationStep(c), UNCHANGED triggerVars
    PROVE  SubscriptionsInv'
  <1> SUFFICES ASSUME faults' = 0, NEW k \in Keys
               PROVE  AbsoluteStored(k)' /\ (Unknown(k)' => Awaited(k)')
    BY DEF SubscriptionsInv
  <1> DEFINE u == calls[c].url
             A == Absolute[k]
             R == Relative[k]
  <1>1. /\ calls[c].pc \notin {"idle", "answered"} /\ calls'[c].url = u /\ calls'[c].secret = calls[c].secret
        /\ \A b \in Callers \ {c} : calls'[b] = calls[b]
    BY RegistrationMoves
  <1>2. AbsoluteStored(k) /\ (Unknown(k) => Awaited(k)) /\ u \in Urls /\ A \in Urls /\ R \in Urls /\ A # R
    BY RegistrationSays, TriggerConstants DEF SubscriptionsInv
  <1>3. store \in [Urls -> Secrets \cup {None}] /\ cache \in Seq(Registrant)
        /\ UNCHANGED <<specs, writers, workers, tenant, cast, refused>>
    BY DEF RInv, RegistryInv, triggerVars
  <1>4. \A i \in DOMAIN cache : i \in DOMAIN cache' /\ cache'[i] = cache[i]
    <2>1. CASE cache' = cache
      BY <2>1
    <2>2. CASE cache' # cache
      <3>1. PICK r : cache' = Append(cache, r)
        BY <2>2, RegistrationSays
      <3>2. QED
        BY <1>3, <3>1
    <2>3. QED
      BY <2>1, <2>2
  <1>5. Unknown(k)' => Unknown(k)
    BY <1>3, <1>4, UnknownBefore
  <1>6. AbsoluteStored(k)'
    <2>1. store[A] # None => store'[A] # None
      BY <1>2, <1>3, RegistrationSays
    <2>2. u = A /\ calls'[c].pc \in {"answered", "record"} => store'[A] # None
      BY <1>2, <1>3, RegistrationSays DEF AbsoluteStored
    <2>3. A \in seen' => A \in seen \/ store'[A] # None
      BY <1>2, <2>1, RegistrationSays DEF AbsoluteStored
    <2>4. QED
      BY <1>1, <1>2, <1>3, <2>1, <2>2, <2>3 DEF AbsoluteStored
  <1>7. ASSUME Unknown(k)', u # R
        PROVE  Awaited(k)'
    <2>1. store'[R] = store[R] /\ (R \in seen' => R \in seen)
      BY <1>2, <1>3, <1>7, RegistrationSays
    <2>2. \A b \in Callers : calls'[b] = calls[b] \/ (Apart(calls[b], k) /\ Apart(calls'[b], k))
      BY <1>1, <1>7 DEF Apart
    <2>3. QED
      BY <1>2, <1>3, <1>5, <1>7, <2>1, <2>2, AwaitedIdle
  <1>8. ASSUME Unknown(k)', u = R
        PROVE  Awaited(k)'
    <2>0. Awaited(k)
      BY <1>2, <1>5, <1>8
    <2>1. c \in Tenants /\ <<c, "load">> \in Workers
          /\ Loader(c).pc = "registering" /\ Loader(c).key = k /\ calls[c].secret = Loader(c).secret
      BY <1>1, <1>8, WhoseCall
    <2>2. store[R] # None => \E b \in Callers : calls[b].url = R /\ calls[b].pc = "record"
      BY <2>0, <2>1 DEF Awaited, Recording
    <2>3. calls[c].secret = specs[k]
      BY <2>0, <2>1 DEF Awaited, Loader, OnKey
    <2>4. calls[c].pc # "record"
      <3> SUFFICES ASSUME calls[c].pc = "record" PROVE FALSE
        OBVIOUS
      <3> DEFINE r == [url |-> R, secret |-> specs[k]]
      <3>1. cache' = Append(cache, r) /\ r.url = R /\ r.secret = specs[k]
        BY <1>8, <2>3, RegistrationSays
      <3> HIDE DEF r
      <3>2. Len(cache) + 1 \in DOMAIN cache' /\ cache'[Len(cache) + 1] = r
        BY <1>3, <3>1
      <3>3. InCache(R, specs[k])'
        BY <1>3, <3>1, <3>2 DEF InCache
      <3>4. QED
        BY <1>3, <1>8, <3>3 DEF Unknown, Cached
    <2>5. UNCHANGED <<seen, cache>>
      BY <2>4, RegistrationSays
    <2>6. ASSUME NEW b \in Callers, calls[b].url = R, calls[b].pc = "record"
          PROVE  Recording(k)'
      <3>1. b # c
        BY <2>4, <2>6
      <3>2. QED
        BY <1>1, <2>6, <3>1 DEF Recording
    <2>7. Recording(k) => Recording(k)'
      BY <2>6 DEF Recording
    <2>8. store'[R] # None => Recording(k)'
      <3>1. CASE calls'[c].pc = "record"
        BY <1>1, <1>8, <3>1 DEF Recording
      <3>2. CASE calls[c].pc = "write" /\ ~calls[c].created
        BY <1>8, <2>0, <2>7, <3>2 DEF Awaited
      <3>3. CASE UNCHANGED store
        BY <2>2, <2>6, <3>3
      <3>4. QED
        BY <2>4, <3>1, <3>2, <3>3, RegistrationSays
    <2>9. calls'[c].pc = "answered" \/ (calls'[c].pc = "write" /\ ~calls'[c].created) => Recording(k)'
      <3>1. CASE calls[c].pc = "write"
        BY <1>8, <2>8, <3>1, RegistrationSays
      <3>2. CASE calls[c].pc # "write"
        BY <1>8, <2>2, <2>4, <2>6, <3>2, RegistrationSays
      <3>3. QED
        BY <3>1, <3>2
    <2>10. \A b \in Callers : calls'[b].url = R /\ calls'[b].pc = "write" /\ ~calls'[b].created => Recording(k)'
      BY <1>1, <2>0, <2>7, <2>9 DEF Awaited
    <2>11. \A b \in Callers : calls'[b].url = R /\ calls'[b].pc = "answered" => Recording(k)'
      BY <1>1, <2>0, <2>7, <2>9 DEF Awaited
    <2>12. Recording(k)' \/ \E t \in Tenants : Pending(Loader(t), k)'
      BY <1>3, <2>0, <2>7 DEF Awaited, Pending, Loader
    <2>13. QED
      BY <1>3, <2>0, <2>5, <2>8, <2>10, <2>11, <2>12 DEF Awaited, Loader
  <1>9. QED
    BY <1>6, <1>7, <1>8

-----------------------------------------------------------------------------
(* Others' requests, and those of subscriptions *)

\* A client registers a URL of its own.
LEMMA ClientStep ==
    ASSUME RInv, TriggersInv, SubscriptionsInv, NEW c \in Clients, NEW u \in Foreign,
           Register(c, u, Secret[c]), UNCHANGED triggerVars
    PROVE  RInv' /\ TriggersInv' /\ SubscriptionsInv'
  <1> DEFINE e == [pc |-> IF u \in seen THEN "answered" ELSE "list",
                   url |-> u, secret |-> Secret[c], created |-> FALSE]
  <1>1. c \in Callers /\ u \in Urls /\ Secret[c] \in Secrets /\ c \notin Writers /\ c \notin Tenants
        /\ Clients \subseteq Callers /\ Writers \subseteq Callers /\ Tenants \subseteq Callers
    BY TriggerConstants
  <1>2. calls' = [calls EXCEPT ![c] = e] /\ calls[c].pc = "idle" /\ calls \in [Callers -> Registration]
        /\ UNCHANGED <<store, seen, cache, faults>>
    BY DEF Register, RInv, RegistryInv
  <1>3. e.url = u
    OBVIOUS
  <1> HIDE DEF e
  <1>4. calls'[c].url = u /\ \A b \in Callers \ {c} : calls'[b] = calls[b]
    BY <1>1, <1>2, <1>3
  <1>5. RInv'
    BY <1>1, RegisterStep
  <1>6. TriggersInv'
    <2>1. WritersInv'
      BY <1>1, <1>4 DEF TriggersInv, WritersInv, triggerVars
    <2>2. WorkersInv'
      BY <1>1, <1>4 DEF TriggersInv, WorkersInv, Loader, triggerVars
    <2>3. QED
      BY <2>1, <2>2 DEF TriggersInv, OtherInv, triggerVars
  <1>7. SubscriptionsInv'
    <2> SUFFICES ASSUME faults' = 0, NEW k \in Keys
                 PROVE  AbsoluteStored(k)' /\ (Unknown(k)' => Awaited(k)')
      BY DEF SubscriptionsInv
    <2>1. AbsoluteStored(k) /\ (Unknown(k) => Awaited(k)) /\ u # Absolute[k] /\ u # Relative[k]
      BY <1>2, TriggerConstants DEF SubscriptionsInv
    <2>2. AbsoluteStored(k)'
      BY <1>1, <1>2, <1>4, <2>1, AbsoluteFrame DEF triggerVars
    <2>3. Unknown(k)' => Unknown(k)
      BY <1>2, UnknownBefore DEF triggerVars
    <2>4. \A b \in Callers : calls'[b] = calls[b] \/ (Apart(calls[b], k) /\ Apart(calls'[b], k))
      BY <1>2, <1>4, <2>1 DEF Apart
    <2>5. Unknown(k)' => Awaited(k)'
      BY <1>2, <2>1, <2>3, <2>4, AwaitedIdle DEF triggerVars
    <2>6. QED
      BY <2>2, <2>5
  <1>8. QED
    BY <1>5, <1>6, <1>7

\* A callback of others is deleted.
LEMMA ForeignDeleteStep ==
    ASSUME RInv, TriggersInv, SubscriptionsInv, NEW u \in Foreign, Delete(u), UNCHANGED triggerVars
    PROVE  RInv' /\ TriggersInv' /\ SubscriptionsInv'
  <1>1. u \in Urls /\ store \in [Urls -> Secrets \cup {None}] /\ store' = [store EXCEPT ![u] = None]
        /\ UNCHANGED <<seen, cache, calls, faults>>
    BY TriggerConstants DEF Delete, Works, RInv, RegistryInv
  <1>2. RInv'
    BY <1>1, DeleteStep
  <1>3. TriggersInv'
    BY <1>1 DEF TriggersInv, WritersInv, WorkersInv, OtherInv, Loader, triggerVars
  <1>4. SubscriptionsInv'
    <2> SUFFICES ASSUME faults' = 0, NEW k \in Keys
                 PROVE  AbsoluteStored(k)' /\ (Unknown(k)' => Awaited(k)')
      BY DEF SubscriptionsInv
    <2>1. AbsoluteStored(k) /\ (Unknown(k) => Awaited(k)) /\ u # Absolute[k] /\ u # Relative[k]
          /\ Absolute[k] \in Urls /\ Relative[k] \in Urls
      BY <1>1, TriggerConstants DEF SubscriptionsInv
    <2>2. store'[Absolute[k]] = store[Absolute[k]] /\ store'[Relative[k]] = store[Relative[k]]
      BY <1>1, <2>1
    <2>3. AbsoluteStored(k)'
      BY <1>1, <2>1, <2>2, AbsoluteFrame DEF triggerVars
    <2>4. Unknown(k)' => Unknown(k)
      BY <1>1, UnknownBefore DEF triggerVars
    <2>5. Unknown(k)' => Awaited(k)'
      BY <1>1, <2>1, <2>2, <2>4, AwaitedIdle DEF triggerVars
    <2>6. QED
      BY <2>3, <2>5
  <1>5. QED
    BY <1>2, <1>3, <1>4

LEMMA DispatchStepR ==
    ASSUME RInv, NEW d \in Dispatches, Begin(d) \/ DispatchStep(d) \/ AnswerTo(d)
    PROVE  RInv'
  <1>1. CASE AnswerTo(d)
    BY <1>1, AnswerStep DEF AnswerTo
  <1>2. CASE Begin(d) \/ DispatchStep(d)
    BY <1>2, BeginStep, ListRegistrantsStep, ReadRegistrantStep, StartSendingStep, ReportStep DEF DispatchStep
  <1>3. QED
    BY <1>1, <1>2

\* A dispatch writes nothing.
LEMMA DispatchStepS ==
    ASSUME RInv, TriggersInv, SubscriptionsInv, NEW d \in Dispatches,
           Begin(d) \/ DispatchStep(d) \/ AnswerTo(d), UNCHANGED triggerVars
    PROVE  TriggersInv' /\ SubscriptionsInv'
  <1>1. faults \in Nat
    BY WebhookConstants DEF RInv, RegistryInv
  <1>2. UNCHANGED registry /\ (UNCHANGED faults \/ Works \/ Fails)
    BY DEF Begin, DispatchStep, ListRegistrants, ReadRegistrant, StartSending, Report, AnswerTo, Answer
  <1>3. faults' = 0 => faults = 0
    BY <1>1, <1>2 DEF Works, Fails
  <1>4. QED
    BY <1>2, <1>3, SubscriptionsFrame DEF registry

\* A manage request registers the absolute URL.
LEMMA BeginWriteStep ==
    ASSUME RInv, TriggersInv, SubscriptionsInv, NEW w \in Writers, NEW key \in Keys, BeginWrite(w, key)
    PROVE  RInv' /\ TriggersInv' /\ SubscriptionsInv'
  <1> DEFINE u == Absolute[key]
             pc == IF u \in seen THEN "answered" ELSE "list"
             e == [pc |-> pc, url |-> u, secret |-> Secret[w], created |-> FALSE]
             f == [pc |-> "register", key |-> key]
  <1>1. w \in Callers /\ u \in Urls /\ Secret[w] \in Secrets /\ w \notin Clients /\ w \notin Tenants
        /\ Clients \subseteq Callers /\ Writers \subseteq Callers /\ Tenants \subseteq Callers
    BY TriggerConstants
  <1>2. /\ calls' = [calls EXCEPT ![w] = e] /\ calls[w].pc = "idle" /\ calls \in [Callers -> Registration]
        /\ writers' = [writers EXCEPT ![w] = f] /\ writers \in [Writers -> Writer]
        /\ UNCHANGED <<store, seen, cache, faults, specs, workers, tenant, cast, refused>>
    BY DEF BeginWrite, Register, RInv, RegistryInv, TriggersInv, WritersInv
  <1>3. e.url = u /\ e.secret = Secret[w] /\ e.pc = pc /\ pc # "idle" /\ f.pc = "register" /\ f.key = key /\ f \in Writer
    BY DEF Writer
  <1> HIDE DEF e, f
  <1>4. calls'[w] = e /\ \A b \in Callers \ {w} : calls'[b] = calls[b]
    BY <1>1, <1>2
  <1>5. writers' \in [Writers -> Writer] /\ writers'[w] = f /\ \A b \in Writers \ {w} : writers'[b] = writers[b]
    BY <1>2, <1>3
  <1>6. RInv'
    BY <1>1, RegisterStep DEF BeginWrite
  <1> HIDE DEF u, pc
  <1>7. TriggersInv'
    <2>1. WritersInv'
      <3>1. \A b \in Writers : b # w => writers'[b] = writers[b] /\ calls'[b] = calls[b]
        BY <1>1, <1>4, <1>5
      <3>2. writers'[w].pc = "register" /\ writers'[w].key = key /\ calls'[w].url = Absolute[key]
            /\ calls'[w].secret = Secret[w]
        BY <1>3, <1>4, <1>5 DEF u
      <3>3. \A c \in Clients : calls'[c] = calls[c]
        BY <1>1, <1>4
      <3>4. QED
        BY <1>5, <3>1, <3>2, <3>3 DEF TriggersInv, WritersInv
    <2>2. WorkersInv'
      BY <1>1, <1>2, <1>4 DEF TriggersInv, WorkersInv, Loader
    <2>3. QED
      BY <1>2, <2>1, <2>2 DEF TriggersInv, OtherInv
  <1>8. SubscriptionsInv'
    <2> SUFFICES ASSUME faults' = 0, NEW k \in Keys
                 PROVE  AbsoluteStored(k)' /\ (Unknown(k)' => Awaited(k)')
      BY DEF SubscriptionsInv
    <2>1. AbsoluteStored(k) /\ (Unknown(k) => Awaited(k)) /\ u # Relative[k]
      BY <1>2, TriggerConstants DEF SubscriptionsInv, u
    <2>2. u = Absolute[k] /\ calls'[w].pc \in {"answered", "record"} => store'[Absolute[k]] # None
      BY <1>2, <1>3, <1>4, <2>1 DEF AbsoluteStored, pc
    <2>3. AbsoluteStored(k)'
      <3>1. \A c \in Callers : calls'[c].url = Absolute[k] /\ calls'[c].pc \in {"answered", "record"} =>
               \/ store'[Absolute[k]] # None
               \/ calls[c].url = Absolute[k] /\ calls[c].pc \in {"answered", "record"}
        BY <1>3, <1>4, <2>2
      <3>2. QED
        BY <1>2, <2>1, <3>1, AbsoluteFrame
    <2>4. Unknown(k)' => Unknown(k)
      BY <1>2, UnknownBefore
    <2>5. \A b \in Callers : calls'[b] = calls[b] \/ (Apart(calls[b], k) /\ Apart(calls'[b], k))
      BY <1>2, <1>3, <1>4, <2>1 DEF Apart
    <2>6. Unknown(k)' => Awaited(k)'
      BY <1>2, <2>1, <2>4, <2>5, AwaitedIdle
    <2>7. QED
      BY <2>3, <2>6
  <1>9. QED
    BY <1>6, <1>7, <1>8

\* A subscription that is written is known, or refused.
LEMMA WriteSpecStep ==
    ASSUME RInv, TriggersInv, SubscriptionsInv, NEW w \in Writers, WriteSpec(w)
    PROVE  RInv' /\ TriggersInv' /\ SubscriptionsInv'
  <1> DEFINE key == writers[w].key
             a0 == [url |-> calls[w].url, secret |-> Secret[w], life |-> life]
             e == [writers[w] EXCEPT !.pc = "answered"]
  <1>1. /\ writers[w].pc = "register" /\ calls[w].pc = "answered" /\ writers' = [writers EXCEPT ![w] = e]
        /\ UNCHANGED <<registry, dispatches, life, workers, tenant, cast>>
        /\ w \in Callers /\ Secret[w] \in Secrets /\ writers \in [Writers -> Writer]
    BY TriggerConstants DEF WriteSpec, TriggersInv, WritersInv
  <1>2. key \in Keys /\ calls[w].url = Absolute[key]
    BY <1>1 DEF TriggersInv, WritersInv
  <1>3. RInv'
    <2>1. CASE Works
      BY <1>1, <2>1, RegistryFrame DEF RInv, Works, registry
    <2>2. CASE Fails
      BY <1>1, <2>2, FaultStep
    <2>3. QED
      BY <2>1, <2>2 DEF WriteSpec
  <1>4. TriggersInv'
    <2>1. e \in Writer /\ e.pc = "answered" /\ e.key = key
      BY <1>1 DEF Writer
    <2> HIDE DEF e
    <2>2. writers' \in [Writers -> Writer] /\ writers'[w] = e /\ \A b \in Writers \ {w} : writers'[b] = writers[b]
      BY <1>1, <2>1
    <2>3. WritersInv'
      BY <1>1, <1>2, <2>1, <2>2 DEF TriggersInv, WritersInv, registry
    <2>4. WorkersInv'
      BY <1>1 DEF TriggersInv, WorkersInv, Loader, registry
    <2>5. OtherInv'
      BY <1>1, <1>2 DEF TriggersInv, OtherInv, WriteSpec
    <2>6. QED
      BY <2>3, <2>4, <2>5 DEF TriggersInv
  <1>5. SubscriptionsInv'
    <2> SUFFICES ASSUME faults' = 0, NEW k \in Keys
                 PROVE  AbsoluteStored(k)' /\ (Unknown(k)' => Awaited(k)')
      BY DEF SubscriptionsInv
    <2>1. faults \in Nat
      BY WebhookConstants DEF RInv, RegistryInv
    <2>2. /\ Works /\ faults = 0 /\ specs' = [specs EXCEPT ![key] = Secret[w]]
          /\ refused' = IF a0 \in acked THEN refused \ {key} ELSE refused \cup {key}
      BY <2>1 DEF WriteSpec, Fails, Works
    <2>3. AbsoluteStored(k) /\ (Unknown(k) => Awaited(k))
      BY <2>2 DEF SubscriptionsInv
    <2>4. store[Absolute[key]] # None
      BY <1>1, <1>2, <2>2 DEF SubscriptionsInv, AbsoluteStored
    <2>5. CASE k = key
      <3>1. AbsoluteStored(k)'
        BY <1>1, <2>4, <2>5 DEF AbsoluteStored, registry
      <3>2. ~Unknown(k)'
        <4> SUFFICES ASSUME a0 \in acked PROVE Cached(k)'
          BY <1>2, <2>2, <2>5 DEF Unknown
        <4>1. a0.url = Absolute[key] /\ a0.secret = Secret[w] /\ a0.life = life
          BY <1>2
        <4> HIDE DEF a0
        <4>2. \E i \in DOMAIN cache : cache[i].url = Absolute[key] /\ cache[i].secret = Secret[w]
          BY <4>1 DEF RInv, AckedInv, InCache
        <4>3. specs'[k] = Secret[w] /\ cache' = cache
          BY <1>1, <1>2, <2>2, <2>5 DEF TriggersInv, OtherInv, registry
        <4>4. QED
          BY <2>5, <4>2, <4>3 DEF Cached, InCache
      <3>3. QED
        BY <3>1, <3>2
    <2>6. CASE k # key
      <3>1. specs'[k] = specs[k] /\ (k \in refused' <=> k \in refused)
            /\ UNCHANGED <<store, seen, cache, calls, workers>>
        BY <1>1, <2>2, <2>6 DEF TriggersInv, OtherInv, registry
      <3>2. AbsoluteStored(k)'
        BY <2>3, <3>1, AbsoluteFrame
      <3>3. Unknown(k)' => Unknown(k)
        BY <3>1, UnknownBefore
      <3>4. Unknown(k)' => Awaited(k)'
        BY <2>3, <3>1, <3>3, AwaitedIdle
      <3>5. QED
        BY <3>2, <3>4
    <2>7. QED
      BY <2>5, <2>6
  <1>6. QED
    BY <1>3, <1>4, <1>5

\* A subscription that is deleted need not be known.
LEMMA DeleteSpecStep ==
    ASSUME RInv, TriggersInv, SubscriptionsInv, NEW key \in Keys, DeleteSpec(key)
    PROVE  RInv' /\ TriggersInv' /\ SubscriptionsInv'
  <1>1. specs' = [specs EXCEPT ![key] = None] /\ UNCHANGED <<webhookVars, writers, workers, tenant, cast, refused>>
    BY DEF DeleteSpec
  <1>2. UNCHANGED <<registry, dispatches, life, faults>>
    BY <1>1 DEF webhookVars, registry
  <1>3. RInv'
    BY <1>2, RegistryFrame DEF RInv, registry
  <1>4. TriggersInv'
    BY <1>1, <1>2 DEF TriggersInv, WritersInv, WorkersInv, OtherInv, Loader, registry
  <1>5. SubscriptionsInv'
    <2> SUFFICES ASSUME faults' = 0, NEW k \in Keys
                 PROVE  AbsoluteStored(k)' /\ (Unknown(k)' => Awaited(k)')
      BY DEF SubscriptionsInv
    <2>1. AbsoluteStored(k) /\ (Unknown(k) => Awaited(k)) /\ UNCHANGED <<store, seen, cache, calls>>
      BY <1>2 DEF SubscriptionsInv, registry
    <2>2. AbsoluteStored(k)'
      BY <1>1, <2>1, AbsoluteFrame
    <2>3. CASE k = key
      BY <1>1, <2>2, <2>3 DEF TriggersInv, OtherInv, Unknown
    <2>4. CASE k # key
      <3>1. specs'[k] = specs[k]
        BY <1>1, <2>4 DEF TriggersInv, OtherInv
      <3>2. Unknown(k)' => Unknown(k)
        BY <1>1, <2>1, <3>1, UnknownBefore
      <3>3. Unknown(k)' => Awaited(k)'
        BY <1>1, <2>1, <3>1, <3>2, AwaitedIdle
      <3>4. QED
        BY <2>2, <3>3
    <2>5. QED
      BY <2>3, <2>4
  <1>6. QED
    BY <1>3, <1>4, <1>5

-----------------------------------------------------------------------------
(* Loads and unloads *)

\* A worker that has no call under way goes on.
LEMMA WorkerMoves ==
    ASSUME TriggersInv, NEW w \in Workers, NEW e \in Worker, workers' = [workers EXCEPT ![w] = e],
           e.pc \in OnKey => e.key \in Keys /\ e.secret \in Secrets,
           e.pc \in {"register", "registering"} => w[2] = "load",
           workers[w].pc # "registering", tenant' \in Tenants, UNCHANGED <<calls, specs, writers, cast, refused>>
    PROVE  TriggersInv'
  <1>1. /\ workers' \in [Workers -> Worker] /\ workers'[w] = e
        /\ \A v \in Workers \ {w} : workers'[v] = workers[v]
    BY DEF TriggersInv, WorkersInv
  <1>2. \A v \in Workers : workers'[v].pc \in OnKey => workers'[v].key \in Keys /\ workers'[v].secret \in Secrets
    BY <1>1 DEF TriggersInv, WorkersInv
  <1>3. \A v \in Workers : workers'[v].pc \in {"register", "registering"} => v[2] = "load"
    BY <1>1 DEF TriggersInv, WorkersInv
  <1>4. ASSUME NEW t \in Tenants, calls'[t].pc # "idle"
        PROVE  Loader(t)' = Loader(t)
    <2>1. Loader(t).pc = "registering" /\ <<t, "load">> \in Workers
      BY <1>4 DEF TriggersInv, WorkersInv, Workers, Kinds
    <2>2. <<t, "load">> # w
      BY <2>1 DEF Loader
    <2>3. QED
      BY <1>1, <2>1, <2>2 DEF Loader
  <1>5. WorkersInv'
    BY <1>1, <1>2, <1>3, <1>4 DEF TriggersInv, WorkersInv
  <1>6. QED
    BY <1>5 DEF TriggersInv, WritersInv, OtherInv

\* What is awaited is awaited still, when the worker w, now e, goes on and the registry is left alone.
LEMMA WorkerAwaits ==
    ASSUME TriggersInv, SubscriptionsInv, faults' = 0 => faults = 0,
           NEW w \in Workers, NEW e, workers' = [workers EXCEPT ![w] = e],
           UNCHANGED <<store, seen, cache, calls, specs, refused>>,
           e.pc \in OnKey => \/ e.secret = specs[e.key]
                             \/ workers[w].pc \in OnKey /\ e.key = workers[w].key /\ e.secret = workers[w].secret,
           e.pc \notin {"register", "registering"} \/ (workers[w].pc = "register" /\ e.key = workers[w].key),
           \A k \in Keys : w[2] = "load" /\ specs[k] # None /\ Pending(workers[w], k) => Pending(e, k)
    PROVE  SubscriptionsInv'
  <1> SUFFICES ASSUME faults' = 0, NEW k \in Keys
               PROVE  AbsoluteStored(k)' /\ (Unknown(k)' => Awaited(k)')
    BY DEF SubscriptionsInv
  <1>1. AbsoluteStored(k) /\ (Unknown(k) => Awaited(k)) /\ workers \in [Workers -> Worker]
    BY DEF SubscriptionsInv, TriggersInv, WorkersInv
  <1>2. AbsoluteStored(k)'
    BY <1>1, AbsoluteFrame
  <1>3. Unknown(k)' => Unknown(k)
    BY UnknownBefore
  <1>4. ASSUME Unknown(k)
        PROVE  Awaited(k)'
    <2>1. Awaited(k) /\ specs[k] # None
      BY <1>1, <1>4 DEF Unknown
    <2>2. e.pc \in OnKey /\ e.key = k => e.secret = specs[k]
      BY <2>1 DEF Awaited
    <2>3. QED
      BY <1>1, <2>1, <2>2, AwaitedFrame
  <1>5. QED
    BY <1>2, <1>3, <1>4

\* A fault ends what is promised of subscriptions.
LEMMA FaultEnds ==
    ASSUME RInv, Fails
    PROVE  SubscriptionsInv'
  <1>1. faults \in Nat
    BY WebhookConstants DEF RInv, RegistryInv
  <1>2. faults' # 0
    BY <1>1 DEF Fails
  <1>3. QED
    BY <1>2 DEF SubscriptionsInv

\* A worker of which the fields are known.
LEMMA OffFields ==
    /\ Off \in Worker /\ Off.pc = "off" /\ Off.todo = {} /\ Started \in Worker /\ Started.pc = "list"
    /\ \A todo \in SUBSET Keys : [Off EXCEPT !.pc = "next", !.todo = todo] \in Worker
    /\ [Off EXCEPT !.pc = "over"] \in Worker
  BY DEF Off, Started, Worker

LEMMA ListKeysStep ==
    ASSUME RInv, TriggersInv, SubscriptionsInv, NEW w \in Workers, ListKeys(w)
    PROVE  RInv' /\ TriggersInv' /\ SubscriptionsInv'
  <1>1. workers[w].pc = "list" /\ UNCHANGED <<registry, dispatches, life, specs, writers, tenant, cast, refused>>
        /\ tenant \in Tenants
    BY DEF ListKeys, TriggersInv, OtherInv
  <1>2. CASE Works /\ Become(w, [Off EXCEPT !.pc = "next", !.todo = {k \in Keys : specs[k] # None}])
    <2> DEFINE todo == {k \in Keys : specs[k] # None}
               e == [Off EXCEPT !.pc = "next", !.todo = todo]
    <2>1. todo \in SUBSET Keys
      OBVIOUS
    <2>2. \A k \in Keys : specs[k] # None => k \in todo
      OBVIOUS
    <2>3. workers' = [workers EXCEPT ![w] = e] /\ UNCHANGED faults
      BY <1>2 DEF Become, Works
    <2> HIDE DEF todo
    <2>4. e \in Worker /\ e.pc = "next" /\ e.todo = todo
      BY <2>1 DEF Off, Worker
    <2> HIDE DEF e
    <2>5. RInv'
      BY <1>1, <2>3, RegistryFrame DEF RInv, registry
    <2>6. TriggersInv'
      BY <1>1, <2>3, <2>4, WorkerMoves DEF OnKey, registry
    <2>7. SubscriptionsInv'
      <3>1. \A k \in Keys : specs[k] # None => Pending(e, k)
        BY <2>2, <2>4 DEF Pending
      <3>2. QED
        BY <1>1, <2>3, <2>4, <3>1, WorkerAwaits DEF OnKey, registry
    <2>8. QED
      BY <2>5, <2>6, <2>7
  <1>3. CASE Fails /\ Become(w, [Off EXCEPT !.pc = "over"])
    <2> DEFINE e == [Off EXCEPT !.pc = "over"]
    <2>1. e \in Worker /\ e.pc = "over"
      BY OffFields DEF Off
    <2>2. workers' = [workers EXCEPT ![w] = e]
      BY <1>3 DEF Become
    <2> HIDE DEF e
    <2>3. TriggersInv'
      BY <1>1, <2>1, <2>2, WorkerMoves DEF OnKey, registry
    <2>4. QED
      BY <1>1, <1>3, <2>3, FaultStep, FaultEnds
  <1>4. QED
    BY <1>2, <1>3 DEF ListKeys

LEMMA ReadSpecStep ==
    ASSUME RInv, TriggersInv, SubscriptionsInv, NEW w \in Workers, NEW key \in Keys, ReadSpec(w, key)
    PROVE  RInv' /\ TriggersInv' /\ SubscriptionsInv'
  <1> DEFINE todo == workers[w].todo \ {key}
             rest == [workers[w] EXCEPT !.todo = todo]
             taken == [rest EXCEPT !.pc = "delete", !.key = key, !.secret = specs[key]]
  <1>1. /\ workers[w].pc = "next" /\ UNCHANGED <<registry, dispatches, life, specs, writers, tenant, cast, refused>>
        /\ tenant \in Tenants /\ workers[w] \in Worker /\ specs[key] \in Secrets \cup {None}
    BY DEF ReadSpec, TriggersInv, WorkersInv, OtherInv
  <1>2. todo \in SUBSET Keys
    BY <1>1 DEF Worker
  <1>3. \/ Works /\ (IF specs[key] = None THEN workers' = [workers EXCEPT ![w] = rest]
                     ELSE workers' = [workers EXCEPT ![w] = taken])
        \/ Fails /\ workers' = [workers EXCEPT ![w] = rest]
    BY DEF ReadSpec, Become
  <1>4. \A k \in Keys : Pending(workers[w], k) => k \in todo \/ k = key
    BY <1>1 DEF Pending, OnKey
  <1> HIDE DEF todo
  <1>5. rest \in Worker /\ rest.pc = "next" /\ rest.todo = todo
    BY <1>1, <1>2 DEF Worker
  <1>6. specs[key] \in Secrets => /\ taken \in Worker /\ taken.pc = "delete" /\ taken.todo = todo /\ taken.key = key
                                  /\ taken.secret = specs[key]
    <2> HIDE DEF rest
    <2>1. QED
      BY <1>5 DEF Worker
  <1> HIDE DEF rest, taken
  <1>7. CASE Fails /\ workers' = [workers EXCEPT ![w] = rest]
    <2>1. TriggersInv'
      BY <1>1, <1>5, <1>7, WorkerMoves DEF OnKey, registry
    <2>2. QED
      BY <1>1, <1>7, <2>1, FaultStep, FaultEnds
  <1>8. CASE Works /\ specs[key] = None /\ workers' = [workers EXCEPT ![w] = rest]
    <2>1. RInv' /\ UNCHANGED faults
      BY <1>1, <1>8, RegistryFrame DEF RInv, Works, registry
    <2>2. TriggersInv'
      BY <1>1, <1>5, <1>8, WorkerMoves DEF OnKey, registry
    <2>3. \A k \in Keys : specs[k] # None /\ Pending(workers[w], k) => Pending(rest, k)
      BY <1>4, <1>5, <1>8 DEF Pending
    <2>4. SubscriptionsInv'
      BY <1>1, <1>5, <1>8, <2>1, <2>3, WorkerAwaits DEF OnKey, registry
    <2>5. QED
      BY <2>1, <2>2, <2>4
  <1>9. CASE Works /\ specs[key] # None /\ workers' = [workers EXCEPT ![w] = taken]
    <2>1. RInv' /\ UNCHANGED faults /\ specs[key] \in Secrets
      BY <1>1, <1>9, RegistryFrame DEF RInv, Works, registry
    <2>2. TriggersInv'
      BY <1>1, <1>6, <1>9, <2>1, WorkerMoves DEF OnKey, registry
    <2>3. \A k \in Keys : Pending(workers[w], k) => Pending(taken, k)
      BY <1>4, <1>6, <2>1 DEF Pending, OnKey
    <2>4. SubscriptionsInv'
      BY <1>1, <1>6, <1>9, <2>1, <2>3, WorkerAwaits DEF OnKey, registry
    <2>5. QED
      BY <2>1, <2>2, <2>4
  <1>10. QED
    BY <1>3, <1>7, <1>8, <1>9

LEMMA DeregisterStep ==
    ASSUME RInv, TriggersInv, SubscriptionsInv, NEW w \in Workers, Deregister(w)
    PROVE  RInv' /\ TriggersInv' /\ SubscriptionsInv'
  <1> DEFINE key == workers[w].key
             pc == IF w[2] = "load" THEN "register" ELSE "next"
             e == [workers[w] EXCEPT !.pc = pc]
  <1>1. /\ workers[w].pc = "delete" /\ workers' = [workers EXCEPT ![w] = e]
        /\ UNCHANGED <<specs, writers, tenant, cast, refused, calls, seen, cache>>
        /\ tenant \in Tenants /\ workers \in [Workers -> Worker] /\ workers[w] \in Worker
    BY DEF Deregister, Deregistered, Become, Delete, registry, TriggersInv, WorkersInv, OtherInv
  <1>2. key \in Keys /\ workers[w].secret \in Secrets /\ Relative[key] \in Urls
    BY <1>1, TriggerConstants DEF TriggersInv, WorkersInv, OnKey
  <1>3. pc \in {"register", "next"} /\ (pc = "register" => w[2] = "load") /\ (w[2] = "load" => pc = "register")
    OBVIOUS
  <1> HIDE DEF pc
  <1>4. e \in Worker /\ e.pc = pc /\ e.key = key /\ e.secret = workers[w].secret /\ e.todo = workers[w].todo
    BY <1>1, <1>3 DEF Worker
  <1> HIDE DEF e
  <1>5. TriggersInv'
    BY <1>1, <1>2, <1>3, <1>4, WorkerMoves DEF OnKey
  <1>6. CASE Fails /\ UNCHANGED <<registry, dispatches, life>>
    BY <1>5, <1>6, FaultStep, FaultEnds
  <1>7. CASE Delete(Relative[key])
    <2>1. RInv'
      BY <1>2, <1>7, DeleteStep
    <2>2. store' = [store EXCEPT ![Relative[key]] = None] /\ UNCHANGED faults /\ store \in [Urls -> Secrets \cup {None}]
      BY <1>7 DEF Delete, Works, RInv, RegistryInv
    <2>3. SubscriptionsInv'
      <3> SUFFICES ASSUME faults' = 0, NEW k \in Keys
                   PROVE  AbsoluteStored(k)' /\ (Unknown(k)' => Awaited(k)')
        BY DEF SubscriptionsInv
      <3>1. AbsoluteStored(k) /\ (Unknown(k) => Awaited(k)) /\ Absolute[k] \in Urls /\ Relative[k] \in Urls
            /\ Relative[key] # Absolute[k] /\ (k # key => Relative[k] # Relative[key])
        BY <1>2, <2>2, TriggerConstants DEF SubscriptionsInv
      <3>2. store'[Absolute[k]] = store[Absolute[k]] /\ (k # key => store'[Relative[k]] = store[Relative[k]])
            /\ store'[Relative[key]] = None
        BY <1>2, <2>2, <3>1
      <3>3. AbsoluteStored(k)'
        BY <1>1, <3>1, <3>2, AbsoluteFrame
      <3>4. Unknown(k)' => Unknown(k)
        BY <1>1, UnknownBefore
      <3>5. ASSUME Unknown(k)
            PROVE  Awaited(k)'
        <4>1. Awaited(k)
          BY <3>1, <3>5
        <4>2. e.pc \in OnKey /\ e.key = k => e.secret = specs[k]
          BY <1>1, <1>4, <4>1 DEF Awaited, OnKey
        <4>3. w[2] = "load" /\ Pending(workers[w], k) => Pending(e, k)
          BY <1>1, <1>3, <1>4 DEF Pending, OnKey
        <4>4. e.pc \in {"register", "registering"} /\ e.key = k => store'[Relative[k]] = None
          BY <1>4, <3>2
        <4>5. store'[Relative[k]] = store[Relative[k]] \/ store'[Relative[k]] = None
          BY <3>2
        <4>6. QED
          BY <1>1, <4>1, <4>2, <4>3, <4>4, <4>5, AwaitedFrame
      <3>6. QED
        BY <3>3, <3>4, <3>5
    <2>4. QED
      BY <1>5, <2>1, <2>3
  <1>8. QED
    BY <1>6, <1>7 DEF Deregister

LEMMA ReregisterStep ==
    ASSUME RInv, TriggersInv, SubscriptionsInv, NEW w \in Workers, Reregister(w)
    PROVE  RInv' /\ TriggersInv' /\ SubscriptionsInv'
  <1> DEFINE t == w[1]
             key == workers[w].key
             u == Relative[key]
             secret == workers[w].secret
             e == [workers[w] EXCEPT !.pc = "registering"]
             call == [pc |-> IF u \in seen THEN "answered" ELSE "list",
                      url |-> u, secret |-> secret, created |-> FALSE]
  <1>1. /\ workers[w].pc = "register" /\ workers' = [workers EXCEPT ![w] = e] /\ Register(t, u, secret)
        /\ UNCHANGED <<specs, writers, tenant, cast, refused>>
        /\ tenant \in Tenants /\ workers \in [Workers -> Worker] /\ workers[w] \in Worker
    BY DEF Reregister, Become, TriggersInv, WorkersInv, OtherInv
  <1>2. key \in Keys /\ secret \in Secrets /\ u \in Urls /\ w[2] = "load"
    BY <1>1, TriggerConstants DEF TriggersInv, WorkersInv, OnKey
  <1>3. t \in Tenants /\ w = <<t, "load">> /\ t \in Callers /\ t \notin Clients /\ t \notin Writers
        /\ Clients \subseteq Callers /\ Writers \subseteq Callers /\ Tenants \subseteq Callers
    BY <1>2, TriggerConstants DEF Workers
  <1>4. /\ calls' = [calls EXCEPT ![t] = call] /\ calls[t].pc = "idle" /\ calls \in [Callers -> Registration]
        /\ UNCHANGED <<store, seen, cache, faults>>
    BY <1>1 DEF Register, RInv, RegistryInv
  <1>5. call.url = u /\ call.secret = secret /\ call.pc \in {"answered", "list"} /\ (call.pc = "answered" => u \in seen)
    OBVIOUS
  <1>6. e \in Worker /\ e.pc = "registering" /\ e.key = key /\ e.secret = secret /\ e.todo = workers[w].todo
    BY <1>1 DEF Worker
  <1>7. RInv'
    BY <1>1, <1>2, <1>3, RegisterStep
  <1> HIDE DEF t, call, e, key, secret, u
  <1>8. calls'[t] = call /\ \A b \in Callers \ {t} : calls'[b] = calls[b]
    BY <1>3, <1>4
  <1>9. workers' \in [Workers -> Worker] /\ workers'[w] = e /\ \A v \in Workers \ {w} : workers'[v] = workers[v]
    BY <1>1, <1>6
  <1>10. TriggersInv'
    <2>1. WritersInv'
      <3>1. \A c \in Clients \cup Writers : calls'[c] = calls[c]
        BY <1>3, <1>8
      <3>2. QED
        BY <1>1, <3>1 DEF TriggersInv, WritersInv
    <2>2. ASSUME NEW s \in Tenants, calls'[s].pc # "idle"
          PROVE  /\ Loader(s)'.pc = "registering"
                 /\ calls'[s].url = Relative[Loader(s)'.key] /\ calls'[s].secret = Loader(s)'.secret
      <3>1. CASE s = t
        BY <1>3, <1>5, <1>6, <1>8, <1>9, <3>1 DEF Loader, u
      <3>2. CASE s # t
        <4>1. calls'[s] = calls[s] /\ <<s, "load">> \in Workers /\ <<s, "load">> # w
          BY <1>3, <1>8, <3>2 DEF Workers, Kinds
        <4>2. Loader(s)' = Loader(s)
          BY <1>9, <4>1 DEF Loader
        <4>3. QED
          BY <2>2, <4>1, <4>2 DEF TriggersInv, WorkersInv
      <3>3. QED
        BY <3>1, <3>2
    <2>3. \A v \in Workers : /\ workers'[v].pc \in OnKey => workers'[v].key \in Keys /\ workers'[v].secret \in Secrets
                             /\ workers'[v].pc \in {"register", "registering"} => v[2] = "load"
      <3>1. workers'[w].key \in Keys /\ workers'[w].secret \in Secrets /\ w[2] = "load"
        BY <1>2, <1>6, <1>9
      <3>2. QED
        BY <1>9, <3>1 DEF TriggersInv, WorkersInv
    <2>4. WorkersInv'
      BY <1>9, <2>2, <2>3 DEF WorkersInv
    <2>5. QED
      BY <1>1, <2>1, <2>4 DEF TriggersInv, OtherInv
  <1>11. SubscriptionsInv'
    <2> SUFFICES ASSUME faults' = 0, NEW k \in Keys
                 PROVE  AbsoluteStored(k)' /\ (Unknown(k)' => Awaited(k)')
      BY DEF SubscriptionsInv
    <2>1. AbsoluteStored(k) /\ (Unknown(k) => Awaited(k)) /\ u # Absolute[k] /\ (u = Relative[k] => k = key)
      BY <1>2, <1>4, TriggerConstants DEF SubscriptionsInv, u
    <2>2. AbsoluteStored(k)'
      BY <1>1, <1>4, <1>5, <1>8, <2>1, AbsoluteFrame
    <2>3. Unknown(k)' => Unknown(k)
      BY <1>1, <1>4, UnknownBefore
    <2>4. ASSUME Unknown(k)
          PROVE  Awaited(k)'
      <3>1. Awaited(k)
        BY <2>1, <2>4
      <3>2. \A c \in Callers : calls'[c] = calls[c] \/ (Apart(calls[c], k) /\ Apart(calls'[c], k))
        <4>1. Apart(calls[t], k)
          BY <1>4 DEF Apart
        <4>2. Apart(call, k)
          BY <1>5, <3>1 DEF Apart, Awaited
        <4>3. QED
          BY <1>8, <4>1, <4>2
      <3>3. e.pc \in OnKey /\ e.key = k => e.secret = specs[k]
        BY <1>1, <1>6, <3>1 DEF Awaited, OnKey, key, secret
      <3>4. e.key = k => workers[w].pc \in {"register", "registering"} /\ workers[w].key = k
        BY <1>1, <1>6 DEF key
      <3>5. Pending(workers[w], k) => Pending(e, k)
        BY <1>1, <1>6 DEF Pending, OnKey, key
      <3>6. QED
        BY <1>1, <1>4, <3>1, <3>2, <3>3, <3>4, <3>5, AwaitedFrame
    <2>5. QED
      BY <2>2, <2>3, <2>4
  <1>12. QED
    BY <1>7, <1>10, <1>11

LEMMA ReregisteredStep ==
    ASSUME RInv, TriggersInv, SubscriptionsInv, NEW w \in Workers, Reregistered(w)
    PROVE  RInv' /\ TriggersInv' /\ SubscriptionsInv'
  <1> DEFINE t == w[1]
             e == [workers[w] EXCEPT !.pc = "next"]
  <1>1. /\ workers[w].pc = "registering" /\ workers' = [workers EXCEPT ![w] = e]
        /\ calls[t].pc = "answered" /\ calls' = [calls EXCEPT ![t] = NoCall]
        /\ UNCHANGED <<store, seen, cache, dispatches, life, faults, acked, contested,
                       specs, writers, tenant, cast, refused>>
        /\ tenant \in Tenants /\ workers \in [Workers -> Worker] /\ workers[w] \in Worker
        /\ calls \in [Callers -> Registration]
    BY DEF Reregistered, Become, TriggersInv, WorkersInv, OtherInv, RInv, RegistryInv
  <1>2. w[2] = "load"
    BY <1>1 DEF TriggersInv, WorkersInv
  <1>3. t \in Tenants /\ w = <<t, "load">> /\ t \in Callers /\ t \notin Clients /\ t \notin Writers
        /\ Clients \subseteq Callers /\ Writers \subseteq Callers /\ Tenants \subseteq Callers
    BY <1>2, TriggerConstants DEF Workers
  <1>4. calls[t].url = Relative[workers[w].key]
    BY <1>1, <1>3 DEF TriggersInv, WorkersInv, Loader
  <1>5. e \in Worker /\ e.pc = "next" /\ e.todo = workers[w].todo
    BY <1>1 DEF Worker
  <1>6. RInv'
    BY <1>1, <1>3, CallForgotten
  <1> HIDE DEF t, e
  <1>7. calls'[t].pc = "idle" /\ \A b \in Callers \ {t} : calls'[b] = calls[b]
    BY <1>1, <1>3 DEF NoCall
  <1>8. workers' \in [Workers -> Worker] /\ workers'[w] = e /\ \A v \in Workers \ {w} : workers'[v] = workers[v]
    BY <1>1, <1>5
  <1>9. TriggersInv'
    <2>1. WritersInv'
      <3>1. \A c \in Clients \cup Writers : calls'[c] = calls[c]
        BY <1>3, <1>7
      <3>2. QED
        BY <1>1, <3>1 DEF TriggersInv, WritersInv
    <2>2. ASSUME NEW s \in Tenants, calls'[s].pc # "idle"
          PROVE  Loader(s)' = Loader(s) /\ calls'[s] = calls[s]
      <3>1. s # t /\ <<s, "load">> \in Workers /\ <<s, "load">> # w
        BY <1>3, <1>7, <2>2 DEF Workers, Kinds
      <3>2. QED
        BY <1>3, <1>7, <1>8, <3>1 DEF Loader
    <2>3. \A v \in Workers : /\ workers'[v].pc \in OnKey => workers'[v].key \in Keys /\ workers'[v].secret \in Secrets
                             /\ workers'[v].pc \in {"register", "registering"} => v[2] = "load"
      <3>1. workers'[w].pc \notin OnKey
        BY <1>5, <1>8 DEF OnKey
      <3>2. QED
        BY <1>8, <3>1 DEF TriggersInv, WorkersInv, OnKey
    <2>4. WorkersInv'
      BY <1>8, <2>2, <2>3 DEF TriggersInv, WorkersInv
    <2>5. QED
      BY <1>1, <2>1, <2>4 DEF TriggersInv, OtherInv
  <1>10. SubscriptionsInv'
    <2> SUFFICES ASSUME faults' = 0, NEW k \in Keys
                 PROVE  AbsoluteStored(k)' /\ (Unknown(k)' => Awaited(k)')
      BY DEF SubscriptionsInv
    <2>1. AbsoluteStored(k) /\ (Unknown(k) => Awaited(k))
      BY <1>1 DEF SubscriptionsInv
    <2>2. AbsoluteStored(k)'
      BY <1>1, <1>7, <2>1, AbsoluteFrame
    <2>3. Unknown(k)' => Unknown(k)
      BY <1>1, UnknownBefore
    <2>4. ASSUME Unknown(k)
          PROVE  Awaited(k)'
      <3>1. Awaited(k)
        BY <2>1, <2>4
      <3>2. Recording(k) => Recording(k)'
        BY <1>1, <1>7 DEF Recording
      <3>3. \A v \in Workers : workers'[v].pc \in OnKey /\ workers'[v].key = k => workers'[v].secret = specs'[k]
        BY <1>1, <1>5, <1>8, <3>1 DEF Awaited, OnKey
      <3>4. ASSUME NEW s \in Tenants, Loader(s)'.pc \in {"register", "registering"}, Loader(s)'.key = k,
                   store'[Relative[k]] # None
            PROVE  Recording(k)'
        <4>1. <<s, "load">> \in Workers /\ <<s, "load">> # w
          BY <1>5, <1>8, <3>4 DEF Loader, Workers, Kinds
        <4>2. Loader(s)' = Loader(s)
          BY <1>8, <4>1 DEF Loader
        <4>3. QED
          BY <1>1, <3>1, <3>2, <3>4, <4>2 DEF Awaited
      <3>5. \A c \in Callers : calls'[c].pc # "idle" => calls'[c] = calls[c]
        BY <1>7
      <3>6. \A c \in Callers : /\ calls'[c].url = Relative[k] /\ calls'[c].pc = "write" /\ ~calls'[c].created => Recording(k)'
                               /\ calls'[c].url = Relative[k] /\ calls'[c].pc = "answered" => Recording(k)'
        BY <3>1, <3>2, <3>5 DEF Awaited
      <3>7. Recording(k)' \/ \E s \in Tenants : Pending(Loader(s)', k)
        <4>1. CASE Recording(k)
          BY <3>2, <4>1
        <4>2. CASE ~Recording(k)
          <5>1. PICK s \in Tenants : Pending(Loader(s), k)
            BY <3>1, <4>2 DEF Awaited
          <5>2. CASE <<s, "load">> = w
            <6>1. workers[w].key # k
              BY <1>1, <1>3, <1>4, <3>1, <4>2 DEF Awaited
            <6>2. k \in workers[w].todo
              BY <1>1, <5>1, <5>2, <6>1 DEF Pending, Loader, OnKey
            <6>3. Pending(e, k) /\ Loader(s)' = e
              BY <1>5, <1>8, <5>2, <6>2 DEF Pending, Loader
            <6>4. QED
              BY <6>3
          <5>3. CASE <<s, "load">> # w
            <6>1. Loader(s)' = Loader(s)
              BY <1>8, <5>3 DEF Loader, Workers, Kinds
            <6>2. QED
              BY <5>1, <6>1
          <5>4. QED
            BY <5>2, <5>3
        <4>3. QED
          BY <4>1, <4>2
      <3>8. QED
        BY <1>1, <3>1, <3>3, <3>4, <3>6, <3>7 DEF Awaited
    <2>5. QED
      BY <2>2, <2>3, <2>4
  <1>11. QED
    BY <1>6, <1>9, <1>10

\* A worker that is over had nothing left to do.
LEMMA WorkOverStep ==
    ASSUME RInv, TriggersInv, SubscriptionsInv, NEW w \in Workers, WorkOver(w)
    PROVE  RInv' /\ TriggersInv' /\ SubscriptionsInv'
  <1> DEFINE e == [Off EXCEPT !.pc = "over"]
  <1>1. /\ workers[w].pc = "next" /\ workers[w].todo = {} /\ workers' = [workers EXCEPT ![w] = e]
        /\ UNCHANGED <<registry, dispatches, life, faults, specs, writers, tenant, cast, refused>>
        /\ tenant \in Tenants
    BY DEF WorkOver, Become, webhookVars, registry, TriggersInv, OtherInv
  <1>2. e \in Worker /\ e.pc = "over"
    BY OffFields DEF Off
  <1> HIDE DEF e
  <1>3. RInv'
    BY <1>1, RegistryFrame DEF RInv, registry
  <1>4. TriggersInv'
    BY <1>1, <1>2, WorkerMoves DEF OnKey, registry
  <1>5. SubscriptionsInv'
    <2>1. \A k \in Keys : ~Pending(workers[w], k)
      BY <1>1 DEF Pending, OnKey
    <2>2. QED
      BY <1>1, <1>2, <2>1, WorkerAwaits DEF OnKey, registry
  <1>6. QED
    BY <1>3, <1>4, <1>5

\* A worker that starts has everything to do.
LEMMA WorkerStarts ==
    ASSUME RInv, TriggersInv, SubscriptionsInv, NEW w \in Workers, workers[w].pc # "registering",
           Become(w, Started), tenant' \in Tenants, UNCHANGED <<webhookVars, specs, writers, cast, refused>>
    PROVE  RInv' /\ TriggersInv' /\ SubscriptionsInv'
  <1>1. workers' = [workers EXCEPT ![w] = Started] /\ Started \in Worker /\ Started.pc = "list"
        /\ UNCHANGED <<registry, dispatches, life, faults, specs, writers, cast, refused>>
    BY OffFields DEF Become, webhookVars, registry
  <1>2. RInv'
    BY <1>1, RegistryFrame DEF RInv, registry
  <1>3. TriggersInv'
    BY <1>1, WorkerMoves DEF OnKey, registry
  <1>4. SubscriptionsInv'
    <2>1. \A k \in Keys : Pending(Started, k)
      BY <1>1 DEF Pending
    <2>2. QED
      BY <1>1, <2>1, WorkerAwaits DEF OnKey, registry
  <1>5. QED
    BY <1>2, <1>3, <1>4

LEMMA TenantStep ==
    ASSUME RInv, TriggersInv, SubscriptionsInv, NEW t \in Tenants, BuildTenant(t) \/ ReplaceTenant(t)
    PROVE  RInv' /\ TriggersInv' /\ SubscriptionsInv'
  <1>1. tenant \in Tenants
    BY DEF TriggersInv, OtherInv
  <1>2. CASE BuildTenant(t)
    <2>1. <<t, "load">> \in Workers /\ workers[<<t, "load">>].pc # "registering"
      BY <1>2 DEF BuildTenant, Workers, Kinds
    <2>2. QED
      BY <1>1, <1>2, <2>1, WorkerStarts DEF BuildTenant
  <1>3. CASE ReplaceTenant(t)
    <2> DEFINE w == <<tenant, "unload">>
    <2>1. w \in Workers /\ w[2] # "load"
      BY <1>1 DEF Workers, Kinds
    <2> HIDE DEF w
    <2>2. workers[w].pc # "registering"
      BY <2>1 DEF TriggersInv, WorkersInv
    <2>3. Become(w, Started) /\ tenant' \in Tenants /\ UNCHANGED <<webhookVars, specs, writers, cast, refused>>
      BY <1>3 DEF ReplaceTenant, w
    <2>4. QED
      BY <2>1, <2>2, <2>3, WorkerStarts
  <1>4. QED
    BY <1>2, <1>3

\* A process that starts has one load to do, which begins with the list of subscriptions.
LEMMA BootedWorkers ==
    ASSUME NEW t \in Tenants
    PROVE  /\ Booted(t) \in [Workers -> Worker]
           /\ \A w \in Workers : Booted(t)[w].pc \in {"off", "list"}
           /\ Booted(t)[<<t, "load">>].pc = "list"
  <1>1. <<t, "load">> \in Workers
    BY DEF Workers, Kinds
  <1>2. QED
    BY <1>1, OffFields DEF Booted

\* What holds when a tenant has just booted and there are no calls.
Boots ==
    \A t \in Tenants :
        workers = Booted(t) /\ writers = [w \in Writers |-> NotWriting] /\ (\A c \in Callers : calls[c].pc = "idle")
        /\ seen = {} /\ refused = {} => WritersInv /\ WorkersInv /\ SubscriptionsInv

LEMMA BootedTriggers == Boots
  <1> SUFFICES ASSUME NEW t \in Tenants, workers = Booted(t), writers = [w \in Writers |-> NotWriting],
                      \A c \in Callers : calls[c].pc = "idle", seen = {}, refused = {}
               PROVE  WritersInv /\ WorkersInv /\ SubscriptionsInv
    BY DEF Boots
  <1>1. /\ Booted(t) \in [Workers -> Worker] /\ \A w \in Workers : Booted(t)[w].pc \in {"off", "list"}
        /\ Booted(t)[<<t, "load">>].pc = "list"
    BY BootedWorkers
  <1>2. NotWriting \in Writer /\ NotWriting.pc = "idle"
    BY DEF NotWriting, Writer
  <1>3. Clients \subseteq Callers /\ Writers \subseteq Callers /\ Tenants \subseteq Callers
        /\ \A s \in Tenants : <<s, "load">> \in Workers
    BY TriggerConstants DEF Workers, Kinds
  <1>4. WritersInv
    BY <1>2, <1>3 DEF WritersInv
  <1>5. WorkersInv
    BY <1>1, <1>3 DEF WorkersInv, OnKey
  <1>6. ASSUME NEW k \in Keys
        PROVE  AbsoluteStored(k) /\ Awaited(k)
    <2>1. AbsoluteStored(k)
      BY DEF AbsoluteStored
    <2>2. Pending(Loader(t), k)
      BY <1>1 DEF Pending, Loader
    <2>3. \A w \in Workers : workers[w].pc \notin OnKey /\ workers[w].pc \notin {"register", "registering"}
      BY <1>1 DEF OnKey
    <2>4. QED
      BY <1>3, <2>1, <2>2, <2>3 DEF Awaited, Loader
  <1>7. QED
    BY <1>4, <1>5, <1>6 DEF SubscriptionsInv

LEMMA RestartStep ==
    ASSUME RInv, TriggersInv, SubscriptionsInv, Restart
    PROVE  RInv' /\ TriggersInv' /\ SubscriptionsInv'
  <1>1. /\ workers' = Booted(tenant) /\ writers' = [w \in Writers |-> NotWriting] /\ refused' = {}
        /\ calls' = [c \in Callers |-> NoCall] /\ seen' = {} /\ UNCHANGED <<specs, tenant, cast>>
        /\ tenant \in Tenants
    BY DEF Restart, Restarted, TriggersInv, OtherInv
  <1>2. \A c \in Callers : calls'[c].pc = "idle"
    BY <1>1 DEF NoCall
  <1>3. RInv'
    BY RestartedStep DEF Restart
  <1>4. WritersInv' /\ WorkersInv' /\ SubscriptionsInv'
    <2>1. Boots'
      BY BootedTriggers, PTL
    <2>2. QED
      BY <1>1, <1>2, <2>1 DEF Boots
  <1>5. OtherInv'
    BY <1>1 DEF TriggersInv, OtherInv
  <1>6. QED
    BY <1>3, <1>4, <1>5 DEF TriggersInv
-----------------------------------------------------------------------------
(* The invariant *)

LEMMA InvInit == Init => IInv
  <1> SUFFICES ASSUME Init PROVE IInv
    OBVIOUS
  <1>1. /\ WebhookInit /\ specs = [k \in Keys |-> None] /\ refused = {} /\ cast \in Casts
        /\ tenant \in Tenants /\ workers = Booted(tenant) /\ writers = [w \in Writers |-> NotWriting]
    BY TriggerConstants DEF Init
  <1>2. NoCall \in Registration /\ NoCall.pc = "idle"
    BY DEF NoCall, Registration, RegistrationPCs
  <1>3. calls = [c \in Callers |-> NoCall] /\ \A c \in Callers : calls[c].pc = "idle"
    BY <1>1, <1>2 DEF WebhookInit
  <1>4. <<>> \in Seq(Registrant) /\ 0 \in 0..MaxRestarts /\ 0 \in 0..MaxFaults
    BY WebhookConstants
  <1>5. RegistryInv
    BY <1>1, <1>2, <1>3, <1>4 DEF RegistryInv, WebhookInit
  <1>6. KeptInv
    BY <1>1, <1>3 DEF KeptInv, WorksOn, RegistrantKept, WebhookInit
  <1>7. AckedInv
    BY <1>1 DEF AckedInv, WebhookInit
  <1>8. DispatchesInv
    BY <1>1, IdleSends DEF DispatchesInv, WebhookInit
  <1>9. WritersInv /\ WorkersInv /\ SubscriptionsInv
    BY <1>1, <1>3, BootedTriggers DEF Boots, WebhookInit
  <1>10. OtherInv
    BY <1>1 DEF OtherInv
  <1>11. QED
    BY <1>5, <1>6, <1>7, <1>8, <1>9, <1>10 DEF IInv, RInv

LEMMA InvNext == IInv /\ [Next]_vars => IInv'
  <1> SUFFICES ASSUME RInv, TriggersInv, SubscriptionsInv, [Next]_vars
               PROVE  RInv' /\ TriggersInv' /\ SubscriptionsInv'
    BY DEF IInv, TriggersInv
  <1>1. ASSUME NEW c \in Clients \cap cast, NEW u \in Foreign, Registry(Register(c, u, Secret[c]))
        PROVE  RInv' /\ TriggersInv' /\ SubscriptionsInv'
    BY <1>1, ClientStep DEF Registry
  <1>2. ASSUME NEW u \in Foreign \cap Stored, Registry(Delete(u))
        PROVE  RInv' /\ TriggersInv' /\ SubscriptionsInv'
    BY <1>2, ForeignDeleteStep DEF Registry
  <1>3. ASSUME NEW c \in Callers, Registry(RegistrationStep(c))
        PROVE  RInv' /\ TriggersInv' /\ SubscriptionsInv'
    BY <1>3, RegistrationStepR, RegistrationStepT, RegistrationStepS DEF Registry
  <1>4. ASSUME NEW d \in Dispatches, Registry((d \in cast /\ Begin(d)) \/ DispatchStep(d) \/ AnswerTo(d))
        PROVE  RInv' /\ TriggersInv' /\ SubscriptionsInv'
    BY <1>4, DispatchStepR, DispatchStepS DEF Registry
  <1>5. ASSUME NEW w \in Writers, WriteSpec(w) \/ \E key \in Keys : BeginWrite(w, key)
        PROVE  RInv' /\ TriggersInv' /\ SubscriptionsInv'
    BY <1>5, WriteSpecStep, BeginWriteStep
  <1>6. ASSUME NEW key \in Keys, DeleteSpec(key)
        PROVE  RInv' /\ TriggersInv' /\ SubscriptionsInv'
    BY <1>6, DeleteSpecStep
  <1>7. ASSUME NEW w \in Workers, Work(w)
        PROVE  RInv' /\ TriggersInv' /\ SubscriptionsInv'
    BY <1>7, ListKeysStep, DeregisterStep, ReregisterStep, ReregisteredStep, WorkOverStep, ReadSpecStep DEF Work
  <1>8. ASSUME NEW t \in Tenants, BuildTenant(t) \/ ReplaceTenant(t)
        PROVE  RInv' /\ TriggersInv' /\ SubscriptionsInv'
    BY <1>8, TenantStep
  <1>9. CASE Restart
    BY <1>9, RestartStep
  <1>10. CASE UNCHANGED vars
    <2>1. UNCHANGED <<registry, dispatches, life, faults, triggerVars>>
      BY <1>10 DEF vars, webhookVars, registry
    <2>2. RInv'
      BY <2>1, RegistryFrame DEF RInv, registry
    <2>3. QED
      BY <2>1, <2>2, SubscriptionsFrame DEF registry
  <1>11. QED
    BY <1>1, <1>2, <1>3, <1>4, <1>5, <1>6, <1>7, <1>8, <1>9, <1>10 DEF Next

LEMMA InvHolds == Spec => []IInv
  BY InvInit, InvNext, PTL DEF Spec

\* The store, the registry of the process, the calls, dispatches, manage requests and
\* background work keep their type whatever happens.
THEOREM WebhooksType == Spec => []TypeOK
  <1>1. IInv => TypeOK
    <2> SUFFICES ASSUME IInv PROVE TypeOK
      OBVIOUS
    <2>1. dispatches \in [Dispatches -> Dispatch]
      BY DEF IInv, RInv, DispatchesInv, Sends
    <2>2. WebhookTypeOK
      BY <2>1 DEF IInv, RInv, RegistryInv, WebhookTypeOK
    <2>3. QED
      BY <2>2 DEF IInv, WritersInv, WorkersInv, OtherInv, TypeOK
  <1>2. QED
    BY <1>1, InvHolds, PTL

\* Whoever was answered 201 is in the store with the secret it gave, and is the only one
\* answered for its URL, until it is deleted: unless two calls worked on the URL at once.
THEOREM RegistrantsAreKept == Spec => []RegistrantKept
  <1>1. IInv => RegistrantKept
    BY DEF IInv, RInv, KeptInv
  <1>2. QED
    BY <1>1, InvHolds, PTL

\* A dispatch tells every registrant it owes, whether it takes them from the registry of
\* the process, from which duplicates are dropped, or reads them from the store.
THEOREM DispatchesTellAll == Spec => []NobodyIsForgotten
  <1>1. IInv => NobodyIsForgotten
    BY DEF IInv, RInv, DispatchesInv, Sends, Has, NobodyIsForgotten
  <1>2. QED
    BY <1>1, InvHolds, PTL

\* However many registrants there are and whatever they answer, the limiter sends to no more
\* of them at once than it allows, and leaves none waiting while it could send to one more.
THEOREM LimiterIsKept == Spec => []SlotsAreUsed
  <1>1. IInv => SlotsAreUsed
    BY DEF IInv, RInv, DispatchesInv, Sends, Slots, Sending, SlotsAreUsed
  <1>2. QED
    BY <1>1, InvHolds, PTL

\* Once loads, unloads and manage requests are over and no request failed, there is a
\* registrant for every subscription, and unless its write was refused one that would be told.
THEOREM SubscriptionsRegister == Spec => []SubscriptionsAreTold
  <1>1. IInv => SubscriptionsAreTold
    <2> SUFFICES ASSUME IInv, Settled, faults = 0, NEW k \in Keys, specs[k] # None
                 PROVE  LET mine == {r \in Known : r.url \in {Absolute[k], Relative[k]}} IN
                        /\ mine # {}
                        /\ k \notin refused => \E r \in mine \cap Effective : r.secret = specs[k]
      BY DEF SubscriptionsAreTold
    <2>1. AbsoluteStored(k) /\ (Unknown(k) => Awaited(k)) /\ cache \in Seq(Registrant)
          /\ Absolute[k] \in Urls
      BY TriggerConstants DEF IInv, SubscriptionsInv, RInv, RegistryInv
    <2>2. ~Awaited(k)
      <3>1. ~Recording(k)
        BY DEF Settled, Recording
      <3>2. \A t \in Tenants : ~Pending(Loader(t), k)
        BY DEF Settled, Pending, Loader, OnKey, Workers, Kinds
      <3>3. QED
        BY <3>1, <3>2 DEF Awaited
    <2>3. CASE k \in refused
      <3> DEFINE r == [url |-> Absolute[k], secret |-> store[Absolute[k]]]
      <3>1. Absolute[k] \in Stored
        BY <2>1, <2>3 DEF AbsoluteStored, Stored
      <3>2. r \in Known /\ r.url = Absolute[k]
        BY <3>1 DEF Known
      <3>3. QED
        BY <2>3, <3>2
    <2>4. CASE k \notin refused
      <3>1. Cached(k)
        BY <2>1, <2>2, <2>4 DEF Unknown
      <3>2. PICK i \in DOMAIN cache : cache[i].url \in {Absolute[k], Relative[k]} /\ cache[i].secret = specs[k]
        BY <3>1 DEF Cached, InCache
      <3>3. cache[i] \in ToSet(cache) /\ cache # <<>>
        BY <2>1, <3>2 DEF ToSet
      <3>4. cache[i] \in Known /\ cache[i] \in Effective
        BY <3>3 DEF Known, Effective
      <3>5. QED
        BY <3>2, <3>4
    <2>5. QED
      BY <2>3, <2>4
  <1>2. QED
    BY <1>1, InvHolds, PTL
=============================================================================
