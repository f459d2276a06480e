---------------------------- MODULE ModuleCache ----------------------------
(***************************************************************************)
(* The manifests and the code that all tenants share (Modules.ts), as they *)
(* are used by what loads a tenant and serves its requests                 *)
(* (ServiceFactory.ts) and by the catalogue and the reports of the         *)
(* services service (services/services.ts).                                *)
(*                                                                         *)
(* An item is a manifest with the code it names; both are stored on a      *)
(* tenant, under its domain, and may be edited at any time.  A step is     *)
(* what runs between two awaits: a manifest, a directory or the code of a  *)
(* module that is fetched.                                                 *)
(***************************************************************************)
EXTENDS Integers, FiniteSets

CONSTANTS
    Tenants,    \* a tenant stands for its primary domain too
    Items,
    Adapters,   \* the items that are adapters; the others are services
    Owner,      \* Items -> the tenant each is stored on
    Key,        \* Items -> the name its code is cached under
    Relative,   \* the names without a domain: an adapter's moduleUrl as it is written
    Private,    \* Items -> the items its manifest names as private services
    Config,     \* Tenants -> the items its configuration names
    Stores,     \* Tenants -> its service stores, each a set of items
    Tasks, Readers,
    Casts,      \* what may happen in one behaviour
    MaxEdits, MaxCalls,
    None

ASSUME ModuleConstants ==
    /\ Tenants # {} /\ None \notin Items
    /\ Adapters \subseteq Items /\ Owner \in [Items -> Tenants]
    /\ \A i \in Items \ Adapters : Key[i] \notin Relative
    \* A name with a domain is that of one item, which is a manifest with code of its own.
    /\ \A i, j \in Items : Key[i] = Key[j] /\ Key[i] \notin Relative => i = j
    /\ Private \in [Items -> SUBSET (Items \ Adapters)]
    /\ Config \in [Tenants -> SUBSET Items] /\ Stores \in [Tenants -> SUBSET SUBSET Items]
    /\ Casts \subseteq [requests : SUBSET (Tenants \X Items), reports : SUBSET Tenants,
                       rebuilds : SUBSET Tenants, domains : SUBSET Tenants, edits : SUBSET Items,
                       calls : 0..MaxCalls]
    /\ MaxEdits \in Nat /\ MaxCalls \in Nat

VARIABLES
    stored,     \* Items -> whether the manifest stored is valid, and the version of the code
    manifests,  \* Items -> serviceManifests or adapterManifests: "none", "good" or "bad"
    validators, \* the items that have a validator of their configuration
    modules,    \* Keys -> services or adapterConstructors: whose code and which version
    listed,     \* domains and names of tenants -> servicesMap, adapterConstructorsMap
    imported,   \* Items -> the version the runtime has imported, or -1 (its own cache)
    maps,       \* Tenants -> serviceManifestsMap and adapterManifestsMap of the domain
    catalogue,  \* Tenants -> the catalogue of the domain, or None
    tasks,      \* calls that need manifests or code
    inits,      \* Tenants -> what its build is still to initialise
    readers,    \* calls that need the catalogue of a domain
    cast,       \* what happens in this behaviour
    calls,      \* tasks begun so far
    floors,     \* history: Items -> the version stored when its tenant was purged last
    shared,     \* history: items another load worked on then or another tenant has since
    seen,       \* history: Items -> the validities the stored manifest has had
    refused,    \* history: items whose manifest was refused to whoever fetched it
    broken      \* history: domains of which a load of the catalogue failed

codeVars == <<validators, modules, listed, imported, floors, shared>>
catalogueVars == <<catalogue, readers, broken>>
castVars == <<cast, calls, seen, refused>>
moduleVars == <<stored, manifests, codeVars, maps, catalogueVars, tasks, inits, castVars>>

Keys == {Key[i] : i \in Items}
Versions == 0..MaxEdits

\* kind: a request, the build of a tenant, the init of a service or the adapter for it, or a
\* report on all services of a tenant.
\* want: the manifests that are fetched; have: those in hand; rest: those a report has not
\* come to; floor (history): the version its item must have at least;
\* excused (history): what it was served others may have cached.
Task == [pc : {"idle", "manifests", "import", "read", "over"},
         kind : {"request", "build", "init", "report"}, tenant : Tenants, item : Items \cup {None},
         want : SUBSET Items, have : SUBSET Items, rest : SUBSET Items, bad : BOOLEAN,
         version : -1..MaxEdits, got : {None} \cup Items, floor : Versions,
         excused : BOOLEAN]

NoTask == [pc |-> "idle", kind |-> "request", tenant |-> CHOOSE t \in Tenants : TRUE,
           item |-> None, want |-> {}, have |-> {}, rest |-> {}, bad |-> FALSE,
           version |-> -1, got |-> None, floor |-> 0, excused |-> FALSE]

Reader == [pc : {"idle", "list", "stores", "over"}, domain : Tenants,
           todo : SUBSET UNION {Stores[t] : t \in Tenants}]

TypeOK ==
    /\ stored \in [Items -> [valid : BOOLEAN, code : Versions]]
    /\ manifests \in [Items -> {"none", "good", "bad"}] /\ validators \subseteq Items
    /\ modules \in [Keys -> [of : Items \cup {None}, version : -1..MaxEdits]]
    /\ listed \in [Tenants \X {"domain", "name"} -> SUBSET Keys]
    /\ imported \in [Items -> -1..MaxEdits]
    /\ maps \in [Tenants -> SUBSET Items]
    /\ catalogue \in [Tenants -> [known : BOOLEAN, items : SUBSET Items]]
    /\ tasks \in [Tasks -> Task] /\ readers \in [Readers -> Reader]
    /\ inits \in [Tenants -> SUBSET Items] /\ refused \subseteq Items
    /\ cast \in Casts /\ calls \in 0..MaxCalls /\ floors \in [Items -> Versions]
    /\ \A d \in DOMAIN listed : \A key \in listed[d] : modules[key].version >= 0
    /\ shared \subseteq Items /\ broken \subseteq Tenants
    /\ seen \in [Items -> SUBSET BOOLEAN]

NoModule == [of |-> None, version |-> -1]

Init ==
    /\ cast \in Casts /\ calls = 0
    /\ \E bad \in SUBSET cast.edits : stored = [i \in Items |-> [valid |-> i \notin bad, code |-> 0]]
    /\ seen = [i \in Items |-> {stored[i].valid}]
    /\ manifests = [i \in Items |-> "none"] /\ validators = {}
    /\ modules = [k \in Keys |-> NoModule]
    /\ listed = [d \in Tenants \X {"domain", "name"} |-> {}]
    /\ imported = [i \in Items |-> -1]
    /\ maps = [t \in Tenants |-> {}]
    /\ catalogue = [t \in Tenants |-> [known |-> FALSE, items |-> {}]]
    /\ tasks = [k \in Tasks |-> NoTask]
    /\ inits = [t \in Tenants |-> {}] /\ refused = {}
    /\ readers = [r \in Readers |-> [pc |-> "idle", domain |-> NoTask.tenant, todo |-> {}]]
    /\ floors = [i \in Items |-> 0] /\ shared = {} /\ broken = {}

\* Whoever may write on the tenant edits a manifest and its code.
Edit(i, valid) ==
    /\ i \in cast.edits /\ stored[i].code < MaxEdits
    /\ stored' = [stored EXCEPT ![i] = [valid |-> valid, code |-> @.code + 1]]
    /\ seen' = [seen EXCEPT ![i] = @ \cup {valid}]
    /\ UNCHANGED <<manifests, codeVars, maps, catalogueVars, tasks, inits, cast, calls, refused>>

-----------------------------------------------------------------------------
(* Manifests *)

Cached(i) == manifests[i] # "none"

\* MUTANT: the validator is made before the manifest is validated.
ValidatedLater(i) == validators \cup {i}

\* ensureServiceConfigValidator: made once, for a manifest that is valid.
Validated(i) == IF stored[i].valid THEN validators \cup {i} ELSE validators

\* getServiceManifest, getAdapterManifest: the manifest is cached and entered in the map,
\* and then validated; a bad one is refused now, and found in the cache from then on.
Kept(k, i) ==
    /\ manifests' = [manifests EXCEPT ![i] = IF stored[i].valid THEN "good" ELSE "bad"]
    /\ maps' = [maps EXCEPT ![Owner[i]] = @ \cup {i}]
    /\ validators' = Validated(i)
    /\ tasks' = [tasks EXCEPT ![k].want = @ \ {i}, ![k].bad = @ \/ ~stored[i].valid]
    /\ refused' = IF stored[i].valid THEN refused ELSE refused \cup {i}

\* getSource answers, or fails.
GetManifest(k, i) ==
    /\ tasks[k].pc = "manifests" /\ i \in tasks[k].want
    /\ \/ Kept(k, i)
       \/ /\ tasks' = [tasks EXCEPT ![k].want = @ \ {i}, ![k].bad = TRUE]
          /\ UNCHANGED <<manifests, maps, validators, refused>>
    /\ UNCHANGED <<stored, modules, listed, imported, floors, shared, catalogueVars, inits, cast, calls, seen>>

\* The manifests of a layer are asked for together; those in the cache are had at once.
Layer(layer) == {i \in layer : ~Cached(i)}

Started(k, task) ==
    /\ tasks[k].pc \in {"idle", "over"} /\ calls < cast.calls
    /\ tasks' = [tasks EXCEPT ![k] = task] /\ calls' = calls + 1
    /\ UNCHANGED <<cast, seen, refused>>

\* A service, or its adapter, is called for by a request.
Request(k, t, i) ==
    /\ <<t, i>> \in cast.requests
    /\ Started(k, [NoTask EXCEPT !.pc = "manifests", !.tenant = t, !.item = i,
                                 !.want = Layer({i}), !.floor = floors[i]])
    /\ UNCHANGED <<stored, manifests, codeVars, maps, catalogueVars, inits>>

\* The services a report goes through: each is asked for once.
Reported(t) == Config[t] \ Adapters

\* The reports on the services of a tenant take their manifests one after another.
Report(k, t) ==
    /\ t \in cast.reports
    /\ Started(k, [NoTask EXCEPT !.pc = "manifests", !.kind = "report", !.tenant = t,
                                 !.rest = Reported(t)])
    /\ UNCHANGED <<stored, manifests, codeVars, maps, catalogueVars, inits>>

NextOfReport(k, i) ==
    /\ tasks[k].kind = "report" /\ tasks[k].want = {} /\ ~tasks[k].bad /\ i \in tasks[k].rest
    /\ tasks' = [tasks EXCEPT ![k].rest = @ \ {i}, ![k].want = Layer({i})]
    /\ UNCHANGED <<stored, manifests, codeVars, maps, catalogueVars, inits, castVars>>

-----------------------------------------------------------------------------
(* Rebuild *)

\* addToDomainMap: under the domain of the name, or the tenant that loads if it has none.
ListedUnder(k) ==
    IF Key[tasks[k].item] \in Relative THEN <<tasks[k].tenant, "name">>
    ELSE <<Owner[tasks[k].item], "domain">>

\* purgeTenantModules, with the primary domain of the tenant.
Purged(t) ==
    /\ modules' = [key \in Keys |-> IF key \in listed[<<t, "domain">>] THEN NoModule ELSE modules[key]]
    /\ listed' = [listed EXCEPT ![<<t, "domain">>] = {}]

Loading(i) == \E k \in Tasks : tasks[k].item = i /\ tasks[k].pc \in {"import", "read"}

\* rebuildConfig purges, and the tenant it builds loads its manifests.
Rebuild(k, t) ==
    /\ t \in cast.rebuilds
    /\ Purged(t)
    /\ floors' = [i \in Items |-> IF Owner[i] = t THEN stored[i].code ELSE floors[i]]
    /\ shared' = {i \in Items : IF Owner[i] = t THEN Loading(i) ELSE i \in shared}
    /\ Started(k, [NoTask EXCEPT !.pc = "manifests", !.kind = "build", !.tenant = t,
                                 !.want = Layer(Config[t]), !.have = Config[t]])
    /\ UNCHANGED <<stored, manifests, validators, imported, maps, catalogueVars, inits>>

Over(k) == tasks' = [tasks EXCEPT ![k].pc = "over"]

\* One manifest that is bad or cannot be had fails the build, the report or the request.
Refused(k) ==
    /\ tasks[k].pc = "manifests" /\ tasks[k].want = {} /\ tasks[k].bad
    /\ Over(k)
    /\ UNCHANGED <<stored, manifests, codeVars, maps, catalogueVars, inits, castVars>>

\* The next layer is asked for; without one the work is done.
Descended(task, layer) ==
    IF layer = {} THEN [task EXCEPT !.pc = "over"]
    ELSE [task EXCEPT !.want = Layer(layer), !.have = task.have \cup layer]

\* The private services of a build's manifests are the next layer of it, until there are
\* none that it does not have: then its services are initialised, all at once.
NextLayer(k) ==
    LET layer == UNION {Private[i] : i \in tasks[k].have} \ tasks[k].have IN
    /\ tasks[k].pc = "manifests" /\ tasks[k].want = {} /\ ~tasks[k].bad
    /\ tasks[k].kind \in {"build", "report"} /\ tasks[k].rest = {}
    /\ tasks' = [tasks EXCEPT ![k] = Descended(tasks[k], layer)]
    /\ inits' = IF layer = {} /\ tasks[k].kind = "build"
                THEN [inits EXCEPT ![tasks[k].tenant] = @ \cup Config[tasks[k].tenant]] ELSE inits
    /\ UNCHANGED <<stored, manifests, codeVars, maps, catalogueVars, castVars>>

\* loadConfig: an adapter is made for a service and the service initialised, with the
\* manifests the build has.
Initialise(k, t, i) ==
    /\ i \in inits[t] /\ tasks[k].pc \in {"idle", "over"}
    /\ tasks' = [tasks EXCEPT ![k] = [NoTask EXCEPT !.pc = "manifests", !.kind = "init", !.tenant = t,
                                                    !.item = i, !.want = Layer({i}), !.floor = floors[i]]]
    /\ inits' = [inits EXCEPT ![t] = @ \ {i}]
    /\ UNCHANGED <<stored, manifests, codeVars, maps, catalogueVars, castVars>>

-----------------------------------------------------------------------------
(* Code *)

\* The configuration is validated before the service is sent a message, and before an adapter
\* is made for it: without a validator the call fails.  initService validates nothing.
Checked(k) ==
    \/ tasks[k].item \in validators
    \/ tasks[k].kind = "init" /\ tasks[k].item \notin Adapters

\* The code that was got is used: the service is sent its message or initialised.
Serve(k, module) ==
    tasks' = [tasks EXCEPT ![k].pc = "over", ![k].version = module.version,
                           ![k].excused = tasks[k].item \in shared \/ Key[tasks[k].item] \in Relative,
                           ![k].got = IF Checked(k) THEN module.of ELSE None]

\* getService, getAdapterConstructor: code in the cache is used as it is; that of an
\* adapter is got only if its configuration can be validated.
GetModule(k) ==
    LET item == tasks[k].item IN
    /\ tasks[k].pc = "manifests" /\ tasks[k].want = {} /\ ~tasks[k].bad
    /\ tasks[k].kind \in {"request", "init"}
    /\ IF item \in Adapters \ validators THEN Over(k)
       ELSE IF modules[Key[item]] # NoModule THEN Serve(k, modules[Key[item]])
       ELSE tasks' = [tasks EXCEPT ![k].pc = "import"]
    /\ shared' = IF modules[Key[item]] = NoModule /\ tasks[k].tenant # Owner[item]
                 THEN shared \cup {item} ELSE shared
    /\ UNCHANGED <<stored, manifests, validators, modules, listed, imported, floors, maps,
                   catalogueVars, inits, castVars>>

\* MUTANT: the runtime's cache is used for the tenant's own code as well.
NotCached(k) == FALSE

\* The URL has a $no-cache only if it is on the primary domain of the tenant that loads.
NoCache(k) == tasks[k].tenant = Owner[tasks[k].item]

\* import() reads the code, or throws ...
ReadCode(k) ==
    LET item == tasks[k].item
        version == IF imported[item] >= 0 /\ ~NoCache(k) THEN imported[item] ELSE stored[item].code
    IN
    /\ tasks[k].pc = "import"
    /\ \/ /\ tasks' = [tasks EXCEPT ![k].pc = "read", ![k].version = version]
          /\ imported' = IF NoCache(k) THEN imported ELSE [imported EXCEPT ![item] = version]
       \/ Over(k) /\ UNCHANGED imported
    /\ UNCHANGED <<stored, manifests, validators, modules, listed, floors, shared, maps,
                   catalogueVars, inits, castVars>>

\* ... and what it has read is cached, over what another load may have cached since.
KeepCode(k) ==
    LET item == tasks[k].item
        module == [of |-> item, version |-> tasks[k].version]
    IN
    /\ tasks[k].pc = "read"
    /\ modules' = [modules EXCEPT ![Key[item]] = module]
    /\ listed' = [listed EXCEPT ![ListedUnder(k)] = @ \cup {Key[item]}]
    /\ Serve(k, module)
    /\ UNCHANGED <<stored, manifests, validators, imported, floors, shared, maps,
                   catalogueVars, inits, castVars>>

-----------------------------------------------------------------------------
(* The catalogue *)

ReaderAt(r, pc) == readers' = [readers EXCEPT ![r].pc = pc]

\* ensureAllManifests: the catalogue of a domain is made once.
Ensure(r, d) ==
    /\ d \in cast.domains /\ readers[r].pc \in {"idle", "over"} /\ ~catalogue[d].known
    /\ readers' = [readers EXCEPT ![r] = [pc |-> "list", domain |-> d, todo |-> {}]]
    /\ UNCHANGED <<stored, manifests, codeVars, maps, catalogue, broken, tasks, inits, castVars>>

\* What the stores of a domain lack is not in its catalogue.
Broken(r, ok) == broken' = IF ok THEN broken ELSE broken \cup {readers[r].domain}

Emptied(r) == [maps EXCEPT ![readers[r].domain] = {}]

\* The call throws: what was answered cannot be parsed, or is nothing at all, which for the
\* list of services is seen when the maps have been emptied.
LoadFails(r) ==
    /\ readers[r].pc \in {"list", "stores"}
    /\ ReaderAt(r, "over") /\ Broken(r, FALSE)
    /\ \/ UNCHANGED maps
       \/ readers[r].pc = "list" /\ maps' = Emptied(r)
    /\ UNCHANGED <<stored, manifests, codeVars, catalogue, tasks, inits, castVars>>

\* MUTANT: the maps are emptied for each store.
EmptiedForEach(r, store) == store

\* What a directory adds to the map of the domain.
Entered(r, store) == maps[readers[r].domain] \cup store

\* loadManifestsFromDomain: the services are listed, and the maps emptied.  An answer that
\* is not ok is logged; if it can be parsed, it is taken for services that have no store.
ListStores(r, ok) ==
    /\ readers[r].pc = "list"
    /\ readers' = [readers EXCEPT ![r].pc = "stores",
                                  ![r].todo = IF ok THEN Stores[readers[r].domain] ELSE {}]
    /\ maps' = Emptied(r) /\ Broken(r, ok)
    /\ UNCHANGED <<stored, manifests, codeVars, catalogue, tasks, inits, castVars>>

\* loadManifestsFromDirectory: those that are valid take the place of any in the cache.  An
\* answer that is not ok is logged; if it can be parsed, it is taken for an empty directory.
LoadStore(r, store, ok) ==
    LET good == {i \in store : ok /\ stored[i].valid} IN
    /\ readers[r].pc = "stores" /\ store \in readers[r].todo
    /\ manifests' = [i \in Items |-> IF i \in good THEN "good" ELSE manifests[i]]
    /\ validators' = validators \cup good
    /\ maps' = [maps EXCEPT ![readers[r].domain] = Entered(r, good)]
    /\ readers' = [readers EXCEPT ![r].todo = @ \ {store}] /\ Broken(r, ok)
    /\ UNCHANGED <<stored, modules, listed, imported, floors, shared, catalogue, tasks, inits, castVars>>

\* fetchDomainCatalogue: what is in the maps by now.
KeepCatalogue(r) ==
    LET d == readers[r].domain IN
    /\ readers[r].pc = "stores" /\ readers[r].todo = {}
    /\ catalogue' = [catalogue EXCEPT ![d] = [known |-> TRUE, items |-> maps[d]]]
    /\ ReaderAt(r, "over")
    /\ UNCHANGED <<stored, manifests, codeVars, maps, broken, tasks, inits, castVars>>

-----------------------------------------------------------------------------

Next ==
    \/ \E i \in Items, valid \in BOOLEAN : Edit(i, valid)
    \/ \E k \in Tasks : \/ Refused(k) \/ NextLayer(k) \/ GetModule(k) \/ ReadCode(k) \/ KeepCode(k)
                        \/ \E i \in Items : GetManifest(k, i) \/ NextOfReport(k, i)
                        \/ \E t \in Tenants : Rebuild(k, t) \/ Report(k, t)
                        \/ \E t \in Tenants : \E i \in Config[t] : Request(k, t, i) \/ Initialise(k, t, i)
    \/ \E r \in Readers : \/ KeepCatalogue(r) \/ LoadFails(r) \/ \E ok \in BOOLEAN : ListStores(r, ok)
                          \/ \E d \in Tenants : Ensure(r, d)
                          \/ \E store \in readers[r].todo, ok \in BOOLEAN : LoadStore(r, store, ok)

Spec == Init /\ [][Next]_moduleVars

-----------------------------------------------------------------------------
(* Properties *)

Served(k) == tasks[k].kind \in {"request", "init"} /\ tasks[k].pc = "over" /\ tasks[k].got # None

\* A service whose manifest never was valid is sent no message, though its manifest is
\* cached before it is validated and taken from there by the next call as if it were good.
\* Its init alone is run, in a build to which its manifest was not refused any more, since
\* it had been to another; no adapter that never was valid is made, not even for an init.
NeverValidNeverServed ==
    \A k \in Tasks :
        Served(k) /\ TRUE \notin seen[tasks[k].item] =>
            /\ tasks[k].kind = "init" /\ tasks[k].item \notin Adapters
            /\ tasks[k].item \in refused

\* A service is served to its own tenant no older than it was stored when the tenant was
\* rebuilt last, if the request came after that and neither a load that was under way
\* then nor another tenant has cached it since.
ReloadedUnlessShared ==
    \A k \in Tasks :
        Served(k) /\ tasks[k].tenant = Owner[tasks[k].item] /\ ~tasks[k].excused
        => tasks[k].version >= tasks[k].floor

\* Once nothing loads it any more, the catalogue of a domain has every manifest that was
\* valid all the time, however many calls loaded it at once, unless one of them failed.
CatalogueIsComplete ==
    \A d \in Tenants :
        catalogue[d].known /\ d \notin broken
            /\ (\A r \in Readers : readers[r].domain = d => readers[r].pc \in {"idle", "over"})
        => {i \in UNION Stores[d] : seen[i] = {TRUE}} \subseteq catalogue[d].items
=============================================================================
