-------------------------- MODULE WebhookTriggers --------------------------
(***************************************************************************)
(* Subscriptions that register themselves with the webhooks service        *)
(* (services/webhooks-trigger.ts), over the registry of Webhooks, and the  *)
(* clients that register callbacks of their own.                           *)
(*                                                                         *)
(* A subscription is written by a manage request, which registers its      *)
(* absolute URL, and registered again, under its relative URL, by the      *)
(* state of the service whenever a tenant is loaded: in the background,    *)
(* after a deregistration.  When a tenant is replaced the state of the old *)
(* one deregisters, also in the background.                                *)
(***************************************************************************)
EXTENDS Webhooks, SequencesExt

CONSTANTS
    Keys,       \* subscriptions
    Absolute,   \* Keys -> the URL a manage request registers
    Relative,   \* Keys -> the URL a load registers
    Clients,    \* registration calls of others, and of manage requests whose path is no subscription's,
                \* which are refused once their URL is registered
    Foreign,    \* the URLs they register
    Writers,    \* manage requests that write a subscription
    Secret,     \* the secret that each of them, or of the clients, gives
    Tenants,    \* tenants one process goes through
    Casts       \* the calls that may be made in one behaviour: of others, writers,
                \* dispatches, and rebuilds that make a tenant

ASSUME TriggerConstants ==
    /\ Callers = Clients \cup Writers \cup Tenants
    /\ Clients \cap Writers = {} /\ Tenants \cap (Clients \cup Writers) = {}
    /\ Secret \in [Clients \cup Writers -> Secrets]
    /\ Absolute \in [Keys -> Urls] /\ Relative \in [Keys -> Urls] /\ Foreign \subseteq Urls
    /\ Tenants # {} /\ None \notin Keys
    \* A URL names the subscription it is of; others register callbacks of their own.
    /\ \A j, k \in Keys : Relative[j] = Relative[k] => j = k
    /\ \A j, k \in Keys : Relative[j] # Absolute[k]
    /\ \A k \in Keys : Relative[k] \notin Foreign /\ Absolute[k] \notin Foreign

VARIABLES
    specs,      \* Keys -> the secret of the subscription stored, or None
    writers,    \* the manage requests
    workers,    \* the background work of load and unload, for each tenant
    tenant,     \* the tenant that serves
    cast,       \* those of this behaviour
    refused     \* history: subscriptions whose last write was not the one that registered

triggerVars == <<specs, writers, workers, tenant, cast, refused>>
vars == <<webhookVars, triggerVars>>

Writer == [pc : {"idle", "register", "answered"}, key : Keys \cup {None}]

\* todo: the keys still to be worked on; key: the one in hand.
Worker == [pc : {"off", "list", "next", "delete", "register", "registering", "over"},
           todo : SUBSET Keys, key : Keys \cup {None}, secret : Secrets \cup {None}]

NotWriting == [pc |-> "idle", key |-> None]
Off == [pc |-> "off", todo |-> {}, key |-> None, secret |-> None]
Started == [Off EXCEPT !.pc = "list"]

Kinds == {"load", "unload"}
Workers == Tenants \X Kinds

TypeOK ==
    /\ WebhookTypeOK
    /\ specs \in [Keys -> Secrets \cup {None}]
    /\ writers \in [Writers -> Writer]
    /\ workers \in [Workers -> Worker]
    /\ tenant \in Tenants /\ cast \in Casts /\ refused \subseteq Keys

\* A process that starts loads a tenant, and with it the state of the service.
Booted(t) == [w \in Workers |-> IF w = <<t, "load">> THEN Started ELSE Off]

Init ==
    /\ WebhookInit
    /\ specs = [k \in Keys |-> None] /\ refused = {}
    /\ cast \in Casts
    /\ tenant = CHOOSE t \in Tenants : TRUE
    /\ workers = Booted(tenant)
    /\ writers = [w \in Writers |-> NotWriting]

Restart ==
    /\ Restarted
    /\ workers' = Booted(tenant)
    /\ writers' = [w \in Writers |-> NotWriting]
    /\ refused' = {}
    /\ UNCHANGED <<specs, tenant, cast>>

-----------------------------------------------------------------------------
(* Manage requests *)

\* handleManageWrite registers first ...
BeginWrite(w, key) ==
    /\ writers[w].pc = "idle"
    /\ Register(w, Absolute[key], Secret[w])
    /\ writers' = [writers EXCEPT ![w] = [pc |-> "register", key |-> key]]
    /\ UNCHANGED <<specs, workers, tenant, cast, refused>>

\* ... and whatever the answer goes on to write the subscription: by a request to the store, or in
\* the post-pipeline of the manifest if the store has no base path.
WriteSpec(w) ==
    /\ writers[w].pc = "register" /\ calls[w].pc = "answered"
    /\ writers' = [writers EXCEPT ![w].pc = "answered"]
    /\ \/ /\ Works
          /\ specs' = [specs EXCEPT ![writers[w].key] = Secret[w]]
          /\ refused' = IF [url |-> calls[w].url, secret |-> Secret[w], life |-> life] \in acked
                        THEN refused \ {writers[w].key} ELSE refused \cup {writers[w].key}
       \/ Fails /\ UNCHANGED <<specs, refused>>
    /\ UNCHANGED <<registry, dispatches, life, workers, tenant, cast>>

\* A subscription is deleted from its store; nothing deregisters it.
DeleteSpec(key) ==
    /\ specs[key] # None
    /\ specs' = [specs EXCEPT ![key] = None]
    /\ UNCHANGED <<webhookVars, writers, workers, tenant, cast, refused>>

-----------------------------------------------------------------------------
(* load and unload *)

Become(w, worker) == workers' = [workers EXCEPT ![w] = worker]

\* listKeys: if it fails there are none.
ListKeys(w) ==
    /\ workers[w].pc = "list"
    /\ \/ Works /\ Become(w, [Off EXCEPT !.pc = "next", !.todo = {k \in Keys : specs[k] # None}])
       \/ Fails /\ Become(w, [Off EXCEPT !.pc = "over"])
    /\ UNCHANGED <<registry, dispatches, life, specs, writers, tenant, cast, refused>>

\* readSpecForKey: a subscription that cannot be read is passed over.
ReadSpec(w, key) ==
    LET rest == [workers[w] EXCEPT !.todo = @ \ {key}] IN
    /\ workers[w].pc = "next" /\ key \in workers[w].todo
    /\ \/ /\ Works
          /\ Become(w, IF specs[key] = None THEN rest
                       ELSE [rest EXCEPT !.pc = "delete", !.key = key, !.secret = specs[key]])
       \/ Fails /\ Become(w, rest)
    /\ UNCHANGED <<registry, dispatches, life, specs, writers, tenant, cast, refused>>

Deregistered(w) == Become(w, [workers[w] EXCEPT !.pc = IF w[2] = "load" THEN "register" ELSE "next"])

\* deregisterWithWebhooksDirect; load registers next, whether it failed or not.
Deregister(w) ==
    /\ workers[w].pc = "delete"
    /\ Deregistered(w)
    /\ \/ Delete(Relative[workers[w].key])
       \/ Fails /\ UNCHANGED <<registry, dispatches, life>>
    /\ UNCHANGED <<specs, writers, tenant, cast, refused>>

\* MUTANT: load does not register what it has deregistered.
ReregisterNot(w) ==
    /\ workers[w].pc = "register"
    /\ Become(w, [workers[w] EXCEPT !.pc = "next"])
    /\ UNCHANGED <<webhookVars, specs, writers, tenant, cast, refused>>

\* registerWithWebhooksDirect, a call the loader's tenant stands for ...
Reregister(w) ==
    /\ workers[w].pc = "register"
    /\ Register(w[1], Relative[workers[w].key], workers[w].secret)
    /\ Become(w, [workers[w] EXCEPT !.pc = "registering"])
    /\ UNCHANGED <<specs, writers, tenant, cast, refused>>

\* ... until it is answered, 201, 409 or otherwise.
Reregistered(w) ==
    /\ workers[w].pc = "registering" /\ calls[w[1]].pc = "answered"
    /\ calls' = [calls EXCEPT ![w[1]] = NoCall]
    /\ Become(w, [workers[w] EXCEPT !.pc = "next"])
    /\ UNCHANGED <<store, seen, cache, dispatches, life, faults, acked, contested,
                   specs, writers, tenant, cast, refused>>

WorkOver(w) ==
    /\ workers[w].pc = "next" /\ workers[w].todo = {}
    /\ Become(w, [Off EXCEPT !.pc = "over"])
    /\ UNCHANGED <<webhookVars, specs, writers, tenant, cast, refused>>

\* A tenant is built, and its state loaded, ...
BuildTenant(t) ==
    /\ t # tenant /\ workers[<<t, "load">>].pc = "off" /\ workers[<<t, "unload">>].pc = "off"
    /\ Become(<<t, "load">>, Started)
    /\ UNCHANGED <<webhookVars, specs, writers, tenant, cast, refused>>

\* ... and takes the place of the one that serves, whose state is unloaded.
ReplaceTenant(t) ==
    /\ t # tenant /\ workers[<<t, "load">>].pc # "off" /\ workers[<<t, "unload">>].pc = "off"
    /\ tenant' = t
    /\ Become(<<tenant, "unload">>, Started)
    /\ UNCHANGED <<webhookVars, specs, writers, cast, refused>>

Work(w) ==
    \/ ListKeys(w) \/ Deregister(w) \/ Reregister(w) \/ Reregistered(w) \/ WorkOver(w)
    \/ \E key \in Keys : ReadSpec(w, key)

-----------------------------------------------------------------------------

\* The subscription's own handler answers a dispatch: well only if the
\* subscription is there and has the secret the event was signed with.
Accepts(target) ==
    \A key \in Keys : target.url \in {Absolute[key], Relative[key]} => specs[key] = target.secret

AnswerTo(d) ==
    \E i \in DOMAIN dispatches[d].targets, ok \in BOOLEAN :
        /\ ok => Accepts(dispatches[d].targets[i])
        /\ Answer(d, i, ok)

Registry(A) == A /\ UNCHANGED triggerVars

Next ==
    \/ \E c \in Clients \cap cast, u \in Foreign : Registry(Register(c, u, Secret[c]))
    \/ \E u \in Foreign \cap Stored : Registry(Delete(u))
    \/ \E c \in Callers : Registry(RegistrationStep(c))
    \/ \E d \in Dispatches : Registry((d \in cast /\ Begin(d)) \/ DispatchStep(d) \/ AnswerTo(d))
    \/ \E w \in Writers \cap cast : WriteSpec(w) \/ \E key \in Keys : BeginWrite(w, key)
    \/ \E key \in Keys : DeleteSpec(key)
    \/ \E w \in Workers : Work(w)
    \/ \E t \in Tenants \cap cast : BuildTenant(t) \/ ReplaceTenant(t)
    \/ Restart

Spec == Init /\ [][Next]_vars

\* Calls to the store and to the targets are answered.
FairSpec ==
    /\ Spec
    /\ \A d \in Dispatches : WF_vars(Registry(DispatchStep(d) \/ AnswerTo(d)))

-----------------------------------------------------------------------------
(* Properties *)

\* Whom a dispatch that began now would tell.
Effective == IF cache # <<>> THEN ToSet(cache)
             ELSE {[url |-> u, secret |-> store[u]] : u \in Stored}

\* Nothing that registers or deregisters is under way.
Settled ==
    /\ \A c \in Callers : calls[c].pc \in {"idle", "answered"}
    /\ \A w \in Writers : writers[w].pc \in {"idle", "answered"}
    /\ \A w \in Workers : workers[w].pc \in {"off", "over"}

Known == ToSet(cache) \cup {[url |-> u, secret |-> store[u]] : u \in Stored}

\* Once the loads, unloads and writes of subscriptions are over, however they
\* interleaved, every subscription is told of events with the secret it has, if no
\* request failed.  If the write that stored it was not the one that registered it
\* (a registration refused with 409 counts as success), then some registrant is
\* known for it, be it only in the store and with another secret.
SubscriptionsAreTold ==
    Settled /\ faults = 0 =>
        \A k \in Keys : specs[k] # None =>
            LET mine == {r \in Known : r.url \in {Absolute[k], Relative[k]}} IN
            /\ mine # {}
            /\ k \notin refused => \E r \in mine \cap Effective : r.secret = specs[k]

\* A dispatch is answered, however often its targets fail.
DispatchEnds == \A d \in Dispatches : dispatches[d].pc # "idle" ~> dispatches[d].pc \in {"answered", "idle"}
=============================================================================
