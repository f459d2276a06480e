------------------------------ MODULE Webhooks ------------------------------
(***************************************************************************)
(* The registry and dispatcher of webhooks for one event                   *)
(* (services/webhooks.ts): registration through the private store, the     *)
(* process's own registry, and dispatch with a limit and retries.          *)
(*                                                                         *)
(* The store is a data service: its PUT looks whether the key is there,    *)
(* awaits, and writes (services/data.ts, lines 241-386).  A registrant is  *)
(* stored under a hash of its URL.  A step is what runs between two        *)
(* awaits; any request to the store may fail, MaxFaults times in all.      *)
(***************************************************************************)
EXTENDS Integers, FiniteSets, Sequences

CONSTANTS
    Urls,           \* callback URLs
    Secrets,
    Callers,        \* registration calls
    Dispatches,     \* dispatch calls
    Concurrency,    \* config.concurrency
    RetryCount,     \* config.retryCount
    MaxRestarts, MaxFaults,
    None

ASSUME WebhookConstants ==
    /\ Concurrency \in Nat \ {0} /\ RetryCount \in Nat
    /\ MaxRestarts \in Nat /\ MaxFaults \in Nat
    /\ None \notin Secrets \cup Urls

VARIABLES
    store,      \* Urls -> the secret in the registrant store, or None
    seen,       \* seenRegistrants
    cache,      \* regsByDataset
    calls,      \* registrations
    dispatches,
    life,       \* restarts of the process so far
    faults,     \* requests that failed so far
    acked,      \* history: registrants answered 201 and not deleted since
    contested   \* history: URLs that two calls worked on at once

registry == <<store, seen, cache, calls, acked, contested>>
webhookVars == <<store, seen, cache, calls, dispatches, life, faults, acked, contested>>

Registrant == [url : Urls, secret : Secrets]

RegistrationPCs == {"idle", "list", "probe", "check", "write", "record", "answered"}

Registration == [pc : RegistrationPCs, url : Urls \cup {None}, secret : Secrets \cup {None},
                 created : BOOLEAN]

NoCall == [pc |-> "idle", url |-> None, secret |-> None, created |-> FALSE]

\* A target of a dispatch waits for a slot, is being sent to, or is done with.
Target == [url : Urls, secret : Secrets, at : {"queued", "sending", "ok", "failed"},
           attempts : 0..(RetryCount + 1)]

\* keys: what is still to be read; owed (history): whom the dispatch must tell.
Dispatch == [pc : {"idle", "list", "read", "sending", "answered"}, keys : SUBSET Urls,
             targets : Seq(Target), owed : SUBSET Urls]

NoDispatch == [pc |-> "idle", keys |-> {}, targets |-> <<>>, owed |-> {}]

WebhookTypeOK ==
    /\ store \in [Urls -> Secrets \cup {None}]
    /\ seen \subseteq Urls /\ cache \in Seq(Registrant)
    /\ calls \in [Callers -> Registration]
    /\ dispatches \in [Dispatches -> Dispatch]
    /\ life \in 0..MaxRestarts /\ faults \in 0..MaxFaults
    /\ acked \subseteq [url : Urls, secret : Secrets, life : 0..MaxRestarts]
    /\ contested \subseteq Urls

WebhookInit ==
    /\ store = [u \in Urls |-> None] /\ seen = {} /\ cache = <<>>
    /\ calls = [c \in Callers |-> NoCall]
    /\ dispatches = [d \in Dispatches |-> NoDispatch]
    /\ life = 0 /\ faults = 0 /\ acked = {} /\ contested = {}

-----------------------------------------------------------------------------
(* Requests to the store *)

Stored == {u \in Urls : store[u] # None}

Works == UNCHANGED faults
Fails == faults < MaxFaults /\ faults' = faults + 1

InFlight(u) == \E c \in Callers : calls[c].url = u /\ calls[c].pc \notin {"idle", "answered"}

Contest(u) == contested' = IF InFlight(u) THEN contested \cup {u} ELSE contested

\* A DELETE of a registrant, whoever sends it, goes to the store alone.
Delete(u) ==
    /\ Works
    /\ store' = [store EXCEPT ![u] = None]
    /\ acked' = {a \in acked : a.url # u}
    /\ dispatches' = [d \in Dispatches |-> [dispatches[d] EXCEPT !.owed = @ \ {u}]]
    /\ Contest(u)
    /\ UNCHANGED <<seen, cache, calls, life>>

-----------------------------------------------------------------------------
(* Registration *)

Step(c, pc) == calls' = [calls EXCEPT ![c].pc = pc]

\* MUTANT: the store is not asked whether the registrant is there.
RegisterBlindly(c, url, secret) ==
    /\ calls[c].pc = "idle"
    /\ calls' = [calls EXCEPT ![c] =
          [pc |-> IF url \in seen THEN "answered" ELSE "check",
           url |-> url, secret |-> secret, created |-> FALSE]]
    /\ IF url \in seen THEN UNCHANGED contested ELSE Contest(url)
    /\ UNCHANGED <<store, seen, cache, dispatches, life, faults, acked>>

\* A URL this process has registered is answered 409 at once.
Register(c, url, secret) ==
    /\ calls[c].pc = "idle"
    /\ calls' = [calls EXCEPT ![c] =
          [pc |-> IF url \in seen THEN "answered" ELSE "list",
           url |-> url, secret |-> secret, created |-> FALSE]]
    /\ IF url \in seen THEN UNCHANGED contested ELSE Contest(url)
    /\ UNCHANGED <<store, seen, cache, dispatches, life, faults, acked>>

\* The listing has the registrant (409), or has not, or fails.
List(c) ==
    /\ calls[c].pc = "list"
    /\ \/ Works /\ Step(c, IF calls[c].url \in Stored THEN "answered" ELSE "probe")
       \/ Fails /\ Step(c, "probe")
    /\ UNCHANGED <<store, seen, cache, dispatches, life, acked, contested>>

\* So does the GET of its key; when it fails the registration goes on all the same.
Probe(c) ==
    /\ calls[c].pc = "probe"
    /\ \/ /\ Works /\ UNCHANGED contested
          /\ Step(c, IF calls[c].url \in Stored THEN "answered" ELSE "check")
       \/ /\ Fails /\ contested' = contested \cup {calls[c].url}
          /\ Step(c, "check")
    /\ UNCHANGED <<store, seen, cache, dispatches, life, acked>>

\* The store's PUT looks whether the key is there ...
PutCheck(c) ==
    /\ calls[c].pc = "check"
    /\ \/ /\ Works
          /\ calls' = [calls EXCEPT ![c].pc = "write", ![c].created = calls[c].url \notin Stored]
       \/ Fails /\ Step(c, "answered")
    /\ UNCHANGED <<store, seen, cache, dispatches, life, acked, contested>>

\* ... and writes: 201 if it was not, 200 if it was.  The registrant that was
\* there is overwritten before its PUT is answered 200, and the call 409.
PutWrite(c) ==
    /\ calls[c].pc = "write"
    /\ \/ /\ Works
          /\ store' = [store EXCEPT ![calls[c].url] = calls[c].secret]
          /\ Step(c, IF calls[c].created THEN "record" ELSE "answered")
       \/ Fails /\ Step(c, "answered") /\ UNCHANGED store
    /\ UNCHANGED <<seen, cache, dispatches, life, acked, contested>>

\* The registrant is entered in the process's own registry and answered 201.
Record(c) ==
    LET url == calls[c].url IN
    /\ calls[c].pc = "record"
    /\ seen' = seen \cup {url}
    /\ cache' = Append(cache, [url |-> url, secret |-> calls[c].secret])
    /\ acked' = acked \cup {[url |-> url, secret |-> calls[c].secret, life |-> life]}
    /\ Step(c, "answered")
    /\ UNCHANGED <<store, dispatches, life, faults, contested>>

RegistrationStep(c) == List(c) \/ Probe(c) \/ PutCheck(c) \/ PutWrite(c) \/ Record(c)

-----------------------------------------------------------------------------
(* Dispatch *)

\* Those that the process cannot know of: registered before it started, while
\* its own registry is not empty.
Shadowed(a) == cache # <<>> /\ a.life < life

Owed == {a.url : a \in {b \in acked : ~Shadowed(b) /\ b.url \notin contested}}

\* Those at the given places, in their order.
InOrder(registrants, places) ==
    [n \in 1..Cardinality(places) |->
        registrants[CHOOSE i \in places : Cardinality({j \in places : j <= i}) = n]]

\* MUTANT: the first registrant of each secret.
UniqueBySecret(registrants) ==
    InOrder(registrants,
            {i \in DOMAIN registrants : \A j \in 1..(i - 1) : registrants[j].secret # registrants[i].secret})

\* The first registrant of each URL.
Unique(registrants) ==
    InOrder(registrants,
            {i \in DOMAIN registrants : \A j \in 1..(i - 1) : registrants[j].url # registrants[i].url})

\* MUTANT: the limiter lets one too many run.
FannedAtOnce(registrants) ==
    [i \in DOMAIN registrants |->
        [url |-> registrants[i].url, secret |-> registrants[i].secret,
         at |-> IF i <= Concurrency + 1 THEN "sending" ELSE "queued", attempts |-> 0]]

\* The limiter lets the first Concurrency tasks run.
Fanned(registrants) ==
    [i \in DOMAIN registrants |->
        [url |-> registrants[i].url, secret |-> registrants[i].secret,
         at |-> IF i <= Concurrency THEN "sending" ELSE "queued", attempts |-> 0]]

\* The registry of the process is used if there is anything in it.
Begin(d) ==
    /\ dispatches[d].pc = "idle"
    /\ dispatches' = [dispatches EXCEPT ![d] =
          IF cache = <<>>
          THEN [NoDispatch EXCEPT !.pc = "list", !.owed = Owed]
          ELSE [NoDispatch EXCEPT !.pc = "sending", !.owed = Owed,
                                  !.targets = Fanned(Unique(cache))]]
    /\ UNCHANGED <<registry, life, faults>>

\* Otherwise the store is listed; a failure is answered as it is.
ListRegistrants(d) ==
    /\ dispatches[d].pc = "list"
    /\ \/ /\ Works
          /\ dispatches' = [dispatches EXCEPT ![d].pc = "read", ![d].keys = Stored]
       \/ Fails /\ dispatches' = [dispatches EXCEPT ![d].pc = "answered", ![d].owed = {}]
    /\ UNCHANGED <<registry, life>>

\* The registrants are read one after another; one that cannot be read is left out.
ReadRegistrant(d, key) ==
    LET registrant == [url |-> key, secret |-> store[key], at |-> "queued", attempts |-> 0] IN
    /\ dispatches[d].pc = "read" /\ key \in dispatches[d].keys
    /\ \/ /\ Works
          /\ dispatches' = [dispatches EXCEPT ![d].keys = @ \ {key},
                ![d].targets = IF key \in Stored THEN Append(@, registrant) ELSE @]
       \/ /\ Fails
          /\ dispatches' = [dispatches EXCEPT ![d].keys = @ \ {key}, ![d].owed = @ \ {key}]
    /\ UNCHANGED <<registry, life>>

StartSending(d) ==
    /\ dispatches[d].pc = "read" /\ dispatches[d].keys = {}
    /\ dispatches' = [dispatches EXCEPT ![d].pc = "sending",
                                        ![d].targets = Fanned(Unique(@))]
    /\ UNCHANGED <<registry, life, faults>>

\* MUTANT: the slot of a target that failed is not given to the next.
EndedSilently(targets, i, ok) ==
    [targets EXCEPT ![i].at = IF ok THEN "ok" ELSE "failed",
                    ![i].attempts = IF ok THEN @ ELSE @ + 1]

\* A task is over: its slot goes to the one that has waited longest.
Ended(targets, i, ok) ==
    LET waiting == {j \in DOMAIN targets : targets[j].at = "queued"}
        next == {j \in waiting : \A k \in waiting : j <= k}
    IN  [j \in DOMAIN targets |->
            IF j = i THEN [targets[i] EXCEPT !.at = IF ok THEN "ok" ELSE "failed",
                                             !.attempts = IF ok THEN @ ELSE @ + 1]
            ELSE IF j \in next THEN [targets[j] EXCEPT !.at = "sending"]
            ELSE targets[j]]

\* It is tried RetryCount times again.
Tried(targets, i, ok) ==
    IF ~ok /\ targets[i].attempts < RetryCount THEN [targets EXCEPT ![i].attempts = @ + 1]
    ELSE Ended(targets, i, ok)

\* A target answers, well or not.
Answer(d, i, ok) ==
    /\ dispatches[d].pc = "sending" /\ dispatches[d].targets[i].at = "sending"
    /\ dispatches' = [dispatches EXCEPT ![d].targets = Tried(@, i, ok)]
    /\ UNCHANGED <<registry, life, faults>>

Over(target) == target.at \in {"ok", "failed"}

\* Every task is over: 202.
Report(d) ==
    /\ dispatches[d].pc = "sending"
    /\ \A i \in DOMAIN dispatches[d].targets : Over(dispatches[d].targets[i])
    /\ dispatches' = [dispatches EXCEPT ![d].pc = "answered"]
    /\ UNCHANGED <<registry, life, faults>>

DispatchStep(d) ==
    \/ ListRegistrants(d) \/ StartSending(d) \/ Report(d)
    \/ \E key \in Urls : ReadRegistrant(d, key)

\* The process starts again: what it has in memory is gone, and so are the
\* calls that were under way.
Restarted ==
    /\ life < MaxRestarts /\ life' = life + 1
    /\ seen' = {} /\ cache' = <<>>
    /\ calls' = [c \in Callers |-> NoCall]
    /\ dispatches' = [d \in Dispatches |-> NoDispatch]
    /\ UNCHANGED <<store, faults, acked, contested>>

-----------------------------------------------------------------------------
(* Properties *)

\* Who was answered 201 is in the store with the secret it gave, and nobody else
\* has been answered 201 for its URL since, unless another call worked on that URL
\* at the same time: the store's PUT looks, awaits and writes, and the registrant
\* is overwritten before the second call is answered 409.
RegistrantKept ==
    \A a \in acked : a.url \notin contested =>
        /\ store[a.url] = a.secret
        /\ \A b \in acked : b.url = a.url => b = a

\* A dispatch tells every registrant that was acknowledged when it began, but for
\* those that were deleted, contested or could not be read, and those registered
\* before a restart while the process's own registry is not empty.
NobodyIsForgotten ==
    \A d \in Dispatches : dispatches[d].pc = "sending" =>
        \A u \in dispatches[d].owed :
            \E i \in DOMAIN dispatches[d].targets : dispatches[d].targets[i].url = u

\* However often targets are tried, and in whatever order they answer, the limiter is neither
\* broken nor left idle: no more are sent to at once than it allows, and no fewer as long as
\* another waits, so that no dispatch comes to a stop with somebody untold.
SlotsAreUsed ==
    \A d \in Dispatches : dispatches[d].pc = "sending" =>
        LET targets == dispatches[d].targets
            sending == {i \in DOMAIN targets : targets[i].at = "sending"}
        IN  /\ Cardinality(sending) <= Concurrency
            /\ (\E i \in DOMAIN targets : targets[i].at = "queued") => Cardinality(sending) = Concurrency

-----------------------------------------------------------------------------
(* What the documents say *)

\* webhooks.rsm.js: a dispatcher "with a data-backed store of registrants per
\* event".  Whoever is registered is told of an event.
EveryRegistrantIsTold ==
    [][\A d \in Dispatches :
        dispatches[d].pc = "idle" /\ dispatches'[d].pc = "sending" =>
            \A a \in acked : \E i \in DOMAIN dispatches'[d].targets :
                dispatches'[d].targets[i].url = a.url]_webhookVars
=============================================================================
