----------------------------- MODULE TenantLoad -----------------------------
(***************************************************************************)
(* How a tenant is loaded by the first request that needs it, while other  *)
(* requests for it arrive: getTenant and its callers (handleRequest.ts),   *)
(* the two phases of Tenant.init and loadConfig (tenant.ts) and the choice *)
(* of a service by base path (ServiceFactory.ts).                          *)
(*                                                                         *)
(* Services whose source is local are loaded second: the tenant itself     *)
(* answers the requests for their manifests, which the load makes and      *)
(* waits for.  A request is here either one from a caller (Callers) or     *)
(* one of those, named by the local service it is about.                   *)
(*                                                                         *)
(* A step is what runs between two awaits.  A continuation of a promise    *)
(* that is resolved already runs before anything else (Quiet).             *)
(***************************************************************************)
EXTENDS Naturals, Sequences, FiniteSets

CONSTANTS
    Callers,    \* requests from outside the load
    Remote,     \* base paths of services.json whose source is not local
    Chord,      \* base paths that chords add, the base chord's among them
    Local,      \* base paths of services.json whose source is local
    Urls,       \* what can be asked for
    Prefixes,   \* Urls -> the base paths a URL begins with, longest first
    SourcesOf,  \* Local -> the URLs where the service's manifest may be
    None

Services == Remote \cup Chord \cup Local
Requests == Callers \cup Local

\* Assumed by the module that instantiates this one.
TenantConstants ==
    /\ Remote \cap Chord = {} /\ Local \cap (Remote \cup Chord) = {}
    /\ Callers \cap Services = {} /\ Callers # {}
    /\ Prefixes \in [Urls -> Seq(Services)]
    /\ SourcesOf \in [Local -> SUBSET Urls]
    /\ None \notin Services /\ \A bases \in SUBSET Services : bases # None
    /\ {"404", "500", "external"} \cap Services = {}

VARIABLES
    tenant,     \* config.tenants[t]: none, the one that is loaded, or an empty one
    promise,    \* tenantLoads[t]
    timer,      \* the timer of tenantLoadTimeoutMs; off before it is set and once cleared
    load,       \* where the load stands
    configs,    \* serviceFactory.serviceConfigs of the loaded tenant, or None (null)
    ready,      \* its readyBasePaths
    inited,     \* the services whose initFunc has returned
    requests

vars == <<tenant, promise, timer, load, configs, ready, inited, requests>>

Loads == {"none", "reading", "manifests1", "init1", "manifests2", "init2", "done", "failed"}
Loading == Loads \ {"none", "done", "failed"}

\* loader: runs the load; waiting: awaits its promise; dispatch: getTenant has
\* returned a tenant, the user is being attached.
PCs == {"idle", "loader", "waiting", "dispatch", "answered"}
Answers == Services \cup {None, "404", "500", "external"}

Request == [pc : PCs, url : Urls \cup {None}, held : {"none", "real", "empty"},
            waited : BOOLEAN, answer : Answers]

Unasked == [pc |-> "idle", url |-> None, held |-> "none", waited |-> FALSE, answer |-> None]

TypeOK ==
    /\ tenant \in {"none", "real", "empty"}
    /\ promise \in {"none", "pending", "resolved"}
    /\ timer \in {"off", "on", "fired"}
    /\ load \in Loads
    /\ configs = None \/ configs \in SUBSET Services
    /\ ready \subseteq Remote /\ inited \subseteq Services
    /\ requests \in [Requests -> Request]

Init ==
    /\ tenant = "none" /\ promise = "none" /\ timer = "off" /\ load = "none"
    /\ configs = None /\ ready = {} /\ inited = {}
    /\ requests = [r \in Requests |-> Unasked]

-----------------------------------------------------------------------------
(* Choice of a service *)

\* basePathFromUrl: the longest base path of bases that the URL begins with.
BasePathFromUrl(bases, url) ==
    LET found == {i \in DOMAIN Prefixes[url] : Prefixes[url][i] \in bases} IN
    IF found = {} THEN None ELSE Prefixes[url][CHOOSE i \in found : \A j \in found : i <= j]

\* MUTANT: a path is ready as soon as a service is found for it.
PathIsFound(url, paths) == BasePathFromUrl(configs, url) # None

\* pathIsReady, with readyBasePaths being paths.
PathIsReady(url, paths) == BasePathFromUrl(configs, url) \in paths

\* pathIsReady throws on a tenant that has no serviceConfigs yet; the empty
\* tenant never has any.
PathIsReadyThrows == tenant = "empty" \/ (tenant = "real" /\ configs = None)

-----------------------------------------------------------------------------
(* Requests *)

Quiet == promise = "resolved" => \A r \in Requests : requests[r].pc # "waiting"

\* handleIncomingRequest answers 500 when getTenant throws;
\* handleOutgoingRequest goes to the network instead.
Refusal(r) == IF r \in Callers THEN "500" ELSE "external"

\* getTenant returns t to the request, whose fields are rq.
Returned(r, rq, t) ==
    IF t = "empty" /\ r \in Local
    THEN [rq EXCEPT !.pc = "answered", !.answer = "external"]
    ELSE [rq EXCEPT !.pc = "dispatch", !.held = t]

Asking(url) == [Unasked EXCEPT !.url = url]

Put(r, rq) == requests' = [requests EXCEPT ![r] = rq]

\* getTenant for the first time: the request becomes the one that loads.
BecomeLoader(r, url) ==
    /\ promise = "none" /\ tenant = "none"
    /\ promise' = "pending" /\ timer' = "on" /\ load' = "reading"
    /\ Put(r, [Asking(url) EXCEPT !.pc = "loader"])
    /\ UNCHANGED <<tenant, configs, ready, inited>>

\* getTenant later, up to its first await: it throws, returns or waits.
Joined(r, url, paths) ==
    IF PathIsReadyThrows
    THEN [Asking(url) EXCEPT !.pc = "answered", !.answer = Refusal(r)]
    ELSE IF tenant = "real" /\ PathIsReady(url, paths)
    THEN Returned(r, Asking(url), tenant)
    ELSE [Asking(url) EXCEPT !.pc = "waiting", !.waited = TRUE]

JoinLoad(r, url) ==
    /\ promise # "none"
    /\ Put(r, Joined(r, url, ready))
    /\ UNCHANGED <<tenant, promise, timer, load, configs, ready, inited>>

Ask(r, url) ==
    /\ Quiet /\ requests[r].pc = "idle"
    /\ BecomeLoader(r, url) \/ JoinLoad(r, url)

\* The promise is resolved: getTenant returns what the Map has now.
Wake(r) ==
    /\ requests[r].pc = "waiting" /\ promise = "resolved"
    /\ Put(r, Returned(r, requests[r], tenant))
    /\ UNCHANGED <<tenant, promise, timer, load, configs, ready, inited>>

\* attachUser has returned: getMessageFunctionByUrl chooses the service.
Dispatch(r) ==
    LET rq == requests[r]
        bases == IF rq.held = "real" THEN configs ELSE None
    IN  /\ Quiet /\ rq.pc = "dispatch"
        /\ Put(r, [rq EXCEPT !.pc = "answered", !.answer =
              IF bases = None THEN Refusal(r)
              ELSE IF BasePathFromUrl(bases, rq.url) = None THEN "404"
              ELSE BasePathFromUrl(bases, rq.url)])
        /\ UNCHANGED <<tenant, promise, timer, load, configs, ready, inited>>

-----------------------------------------------------------------------------
(* The load *)

\* services.json is read; the tenant is put in the Map and its init begins.
ReadServices ==
    /\ Quiet /\ load = "reading"
    /\ tenant' = "real" /\ load' = "manifests1"
    /\ UNCHANGED <<promise, timer, configs, ready, inited, requests>>

\* First phase: the manifests are there and serviceConfigs is built.
BuildConfigs ==
    /\ Quiet /\ load = "manifests1"
    /\ configs' = Remote \cup Chord /\ load' = "init1"
    /\ UNCHANGED <<tenant, promise, timer, ready, inited, requests>>

\* One of the concurrent calls of initFunc returns.  Those that are under way
\* when another fails are not stopped.  (The second phase calls the initFunc of
\* the base chord's services again: they stay initialised meanwhile.)
InitService(b) ==
    /\ Quiet /\ load \in {"init1", "init2", "failed"}
    /\ configs # None /\ b \in configs \ inited
    /\ inited' = inited \cup {b}
    /\ UNCHANGED <<tenant, promise, timer, load, configs, ready, requests>>

\* The first phase is over: the raw, remote services are declared ready and the
\* second asks for its manifests, through getTenant like any other request.
DeclareReady ==
    /\ Quiet /\ load = "init1" /\ configs \subseteq inited
    /\ ready' = Remote /\ load' = "manifests2"
    /\ \E source \in [Local -> Urls] :
        /\ \A l \in Local : source[l] \in SourcesOf[l]
        /\ requests' = [r \in Requests |->
              IF r \in Local THEN Joined(r, source[r], Remote) ELSE requests[r]]
    /\ UNCHANGED <<tenant, promise, timer, configs, inited>>

\* Second phase: every manifest was answered, and serviceConfigs is merged.
MergeConfigs ==
    /\ Quiet /\ load = "manifests2"
    /\ \A l \in Local : requests[l].pc = "answered" /\ requests[l].answer \in Services
    /\ configs' = configs \cup Local /\ load' = "init2"
    /\ UNCHANGED <<tenant, promise, timer, ready, inited, requests>>

Loader(r) == requests[r].pc = "loader"

\* In the second phase the load waits for the manifests and nothing else.
MayFail == load = "manifests2" => \E l \in Local : requests[l].pc = "answered"

ClearTimer == timer' = IF timer = "on" THEN "off" ELSE timer

\* init has returned: `finally` clears the timer and resolves the promise, and
\* the loader goes on with the tenant the Map has.
Loaded(r) ==
    /\ Quiet /\ Loader(r) /\ load = "init2" /\ configs \subseteq inited
    /\ load' = "done" /\ ClearTimer /\ promise' = "resolved"
    /\ Put(r, Returned(r, requests[r], tenant))
    /\ UNCHANGED <<tenant, configs, ready, inited>>

\* A read, a manifest, a module or an initFunc fails: the empty tenant is put
\* in the Map, for good, and the loader's getTenant throws.
LoadFailed(r) ==
    /\ Quiet /\ Loader(r) /\ load \in Loading /\ MayFail
    /\ load' = "failed" /\ tenant' = "empty" /\ ClearTimer /\ promise' = "resolved"
    /\ Put(r, [requests[r] EXCEPT !.pc = "answered", !.answer = Refusal(r)])
    /\ UNCHANGED <<configs, ready, inited>>

\* MUTANT: the timer gives up the tenant and forgets those who wait.
LoadTimeoutSilent ==
    /\ Quiet /\ timer = "on"
    /\ timer' = "fired" /\ tenant' = "empty"
    /\ UNCHANGED <<promise, load, configs, ready, inited, requests>>

\* The load takes too long: those who wait are let go with the empty tenant.
\* The load itself goes on.
LoadTimeout ==
    /\ Quiet /\ timer = "on"
    /\ timer' = "fired" /\ promise' = "resolved" /\ tenant' = "empty"
    /\ UNCHANGED <<load, configs, ready, inited, requests>>

LoadStep ==
    \/ ReadServices
    \/ BuildConfigs
    \/ DeclareReady
    \/ MergeConfigs
    \/ \E b \in Services : InitService(b)
    \/ \E r \in Callers : Loaded(r) \/ LoadFailed(r)

Next ==
    \/ \E r \in Callers : \E url \in Urls : Ask(r, url)
    \/ \E r \in Requests : Wake(r) \/ Dispatch(r)
    \/ LoadStep
    \/ LoadTimeout

Spec == Init /\ [][Next]_vars

\* Continuations run, the timer fires, and the load goes on: reads, manifests and initFuncs all end, well or not.
FairSpec ==
    /\ Spec
    /\ \A r \in Requests : WF_vars(Wake(r) \/ Dispatch(r))
    /\ WF_vars(LoadTimeout)
    /\ WF_vars(LoadStep)

-----------------------------------------------------------------------------
(* Properties *)

Dispatched(r) == requests[r].pc = "dispatch" /\ requests'[r].pc = "answered"

\* The path a request asks for was found under a shorter base path when
\* getTenant let it through, and its own service appeared since.
Overtaken(r) ==
    ~requests[r].waited /\ BasePathFromUrl(Remote \cup Chord, requests[r].url) \in ready

\* A service is asked to answer only when its initFunc has returned, unless the
\* load timed out or the service appeared behind a shorter ready path while the
\* request's user was attached.
ServedAfterInit ==
    [][\A r \in Requests :
        Dispatched(r) /\ requests'[r].answer \in Services
            => requests'[r].answer \in inited \/ timer = "fired" \/ Overtaken(r)]_vars

\* What the load waits for: nothing but the manifests of the second phase, each asked for by a
\* request that may itself wait for the load.
LoadGoesOn == load \in Loading /\ (Local = {} \/ MayFail)

\* No load stalls: while a request is unanswered, one that waits has a promise that is
\* resolved, or somebody who is not held up by others has something to do.  A load that waits
\* for itself has its timer still set.
NoLoadStalls ==
    \/ \A r \in Requests : requests[r].pc \in {"idle", "answered"}
    \/ promise = "resolved" /\ \E r \in Requests : requests[r].pc = "waiting"
    \/ Quiet /\ \E r \in Requests : requests[r].pc = "dispatch"
    \/ Quiet /\ timer = "on"
    \/ Quiet /\ LoadGoesOn /\ \E r \in Callers : Loader(r)

\* Every request is answered: nobody waits for ever for a load, even for one
\* that waits for itself, nor does the one who loads.
EveryRequestEnds ==
    \A r \in Requests : requests[r].pc # "idle" ~> requests[r].pc = "answered"
=============================================================================
