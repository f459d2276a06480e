--------------------------- MODULE TenantRuntime ---------------------------
(***************************************************************************)
(* A running tenant: the state objects of its services (Tenant.state and   *)
(* Tenant.unload in tenant.ts) and the replacement of the whole tenant     *)
(* when its configuration is put (putRaw, putChords and rebuildConfig in   *)
(* services/services.ts).                                                  *)
(*                                                                         *)
(* A tenant is named by the rebuild that makes it, or First.  A state      *)
(* object is named by the call of context.state that makes it, so every    *)
(* object there ever was stays in view, whether or not a tenant still      *)
(* refers to it.  A call is made by a request's handler, or by the         *)
(* initialiser of a service of a tenant that is being built.               *)
(*                                                                         *)
(* A step is what runs between two awaits.  TenantLoad has the two phases  *)
(* of the initialisation; here its services are initialised in any order.  *)
(***************************************************************************)

CONSTANTS
    Rebuilds,   \* requests that put a configuration
    Requests,   \* requests whose handler asks for its service's state
    Eager,      \* services that ask for their state in their initialiser
    Lazy,       \* services that ask for it in a handler only
    Offers,     \* the sets of services that a raw configuration may have
    First,      \* the tenant there is to begin with
    None

Services == Eager \cup Lazy
Tenants == Rebuilds \cup {First}
Initialisers == Tenants \X Eager
Calls == Requests \cup Initialisers

ASSUME RuntimeConstants ==
    /\ Eager \cap Lazy = {} /\ Offers \subseteq SUBSET Services
    /\ First \notin Rebuilds /\ None \notin Tenants \cup Services \cup Calls
    /\ Requests \cap Initialisers = {}

VARIABLES
    current,    \* config.tenants[t]
    raw,        \* the rawServicesConfig of each tenant
    states,     \* the _state of each tenant
    calls,      \* the calls of context.state
    loaded,     \* the state objects whose load has returned
    unloading,  \* those whose unload has been called and has not returned
    unloaded,   \* those whose unload has returned
    late,       \* history: those made after their tenant had been unloaded
    rebuilds,
    file,       \* services.json
    writes,     \* the rebuilds whose write of services.json is under way
    unsure      \* history: the last write failed, or began before another ended

vars == <<current, raw, states, calls, loaded, unloading, unloaded, late, rebuilds,
          file, writes, unsure>>

Config == [by : Tenants, services : SUBSET Services, chords : SUBSET Rebuilds]

\* base: the tenant whose configuration the handler read; emptied: the one it
\* unloaded; replaced: the one it took the place of.
Rebuild == [pc : {"idle", "manifests", "initialising", "swap", "done", "failed"},
            base : Tenants \cup {None}, emptied : Tenants \cup {None},
            replaced : Tenants \cup {None}]

Call == [pc : {"idle", "called", "adapter", "loading", "done", "failed"},
         tenant : Tenants \cup {None}, service : Services \cup {None}, made : BOOLEAN]

TypeOK ==
    /\ current \in Tenants
    /\ raw \in [Tenants -> Config \cup {None}]
    /\ states \in [Tenants -> [Services -> Calls \cup {None}]]
    /\ calls \in [Calls -> Call]
    /\ {loaded, unloading, unloaded, late} \subseteq SUBSET Calls
    /\ rebuilds \in [Rebuilds -> Rebuild]
    /\ file \in Config /\ writes \subseteq Rebuilds /\ unsure \in BOOLEAN

FirstConfig == [by |-> First, services |-> Services, chords |-> {}]
Unborn == [pc |-> "idle", tenant |-> None, service |-> None, made |-> FALSE]
Called(t, s) == [pc |-> "called", tenant |-> t, service |-> s, made |-> FALSE]

Init ==
    /\ current = First
    /\ raw = [t \in Tenants |-> IF t = First THEN FirstConfig ELSE None]
    /\ states = [t \in Tenants |-> [s \in Services |->
                   IF t = First /\ s \in Eager THEN <<t, s>> ELSE None]]
    /\ calls = [c \in Calls |->
                  IF c \in {First} \X Eager
                  THEN [pc |-> "done", tenant |-> First, service |-> c[2], made |-> TRUE]
                  ELSE Unborn]
    /\ loaded = {First} \X Eager /\ unloading = {} /\ unloaded = {} /\ late = {}
    /\ rebuilds = [r \in Rebuilds |-> [pc |-> "idle", base |-> None, emptied |-> None,
                                       replaced |-> None]]
    /\ file = FirstConfig /\ writes = {} /\ unsure = FALSE

-----------------------------------------------------------------------------
(* context.state *)

InMap(c) == states[calls[c].tenant][calls[c].service]

Emptied(t) == \E r \in Rebuilds : rebuilds[r].emptied = t

\* A request is routed to a service of the tenant that is there now, and keeps
\* that tenant's state function.
Dispatch(q, s) ==
    /\ calls[q].pc = "idle" /\ s \in raw[current].services
    /\ calls' = [calls EXCEPT ![q] = Called(current, s)]
    /\ UNCHANGED <<current, raw, states, loaded, unloading, unloaded, late, rebuilds,
                   file, writes, unsure>>

\* The state is there: it is returned, whether or not its load has returned.
FindState(c) ==
    /\ calls[c].pc = "called" /\ InMap(c) # None
    /\ calls' = [calls EXCEPT ![c].pc = "done"]
    /\ UNCHANGED <<current, raw, states, loaded, unloading, unloaded, late, rebuilds,
                   file, writes, unsure>>

\* It is not: the data adapter for states is awaited first.
GetAdapter(c) ==
    /\ calls[c].pc = "called" /\ InMap(c) = None
    /\ calls' = [calls EXCEPT ![c].pc = "adapter"]
    /\ UNCHANGED <<current, raw, states, loaded, unloading, unloaded, late, rebuilds,
                   file, writes, unsure>>

\* The object is made and kept, without a second look, and its load called.
MakeState(c) ==
    /\ calls[c].pc = "adapter"
    /\ states' = [states EXCEPT ![calls[c].tenant][calls[c].service] = c]
    /\ calls' = [calls EXCEPT ![c].pc = "loading", ![c].made = TRUE]
    /\ late' = IF Emptied(calls[c].tenant) THEN late \cup {c} ELSE late
    /\ UNCHANGED <<current, raw, loaded, unloading, unloaded, rebuilds, file, writes, unsure>>

StateLoaded(c) ==
    /\ calls[c].pc = "loading"
    /\ loaded' = loaded \cup {c}
    /\ calls' = [calls EXCEPT ![c].pc = "done"]
    /\ UNCHANGED <<current, raw, states, unloading, unloaded, late, rebuilds, file, writes, unsure>>

\* The adapter or the load throws.  An object that was made stays in the map.
StateFails(c) ==
    /\ calls[c].pc \in {"adapter", "loading"}
    /\ calls' = [calls EXCEPT ![c].pc = "failed"]
    /\ rebuilds' = [r \in Rebuilds |->
                      IF c \in {r} \X Eager
                      THEN [rebuilds[r] EXCEPT !.pc = "failed"] ELSE rebuilds[r]]
    /\ UNCHANGED <<current, raw, states, loaded, unloading, unloaded, late, file, writes, unsure>>

\* An unload that was called returns; nothing waits for it.
UnloadReturns(c) ==
    /\ c \in unloading
    /\ unloading' = unloading \ {c} /\ unloaded' = unloaded \cup {c}
    /\ UNCHANGED <<current, raw, states, calls, loaded, late, rebuilds, file, writes, unsure>>

-----------------------------------------------------------------------------
(* rebuildConfig *)

\* Both handlers read or make a configuration and begin to build its tenant.
BeginRebuild(r, rawServicesConfig) ==
    /\ rebuilds[r].pc = "idle"
    /\ raw' = [raw EXCEPT ![r] = rawServicesConfig]
    /\ rebuilds' = [rebuilds EXCEPT ![r].pc = "manifests", ![r].base = current]
    /\ UNCHANGED <<current, states, calls, loaded, unloading, unloaded, late, file, writes, unsure>>

PutRaw(r, offer) == BeginRebuild(r, [by |-> r, services |-> offer, chords |-> {}])

\* MUTANT: the chords put replace the chords that are there.
PutOnlyChords(r) == BeginRebuild(r, [raw[current] EXCEPT !.by = r, !.chords = {r}])

\* The chord put, named by the rebuild, is added to the chords that are there now.
PutChords(r) == BeginRebuild(r, [raw[current] EXCEPT !.by = r, !.chords = @ \cup {r}])

\* The new tenant's initialisers are called, all at once.
Initialise(r) ==
    /\ rebuilds[r].pc = "manifests"
    /\ rebuilds' = [rebuilds EXCEPT ![r].pc = "initialising"]
    /\ calls' = [c \in Calls |->
                   IF c \in {r} \X (Eager \cap raw[r].services)
                   THEN Called(r, c[2])
                   ELSE calls[c]]
    /\ UNCHANGED <<current, raw, states, loaded, unloading, unloaded, late, file, writes, unsure>>

\* A manifest, a chord or an initialiser without state fails: answered 400.  The
\* initialisers that were called go on, and the states they made stay as they are.
RebuildFails(r) ==
    /\ rebuilds[r].pc \in {"manifests", "initialising"}
    /\ rebuilds' = [rebuilds EXCEPT ![r].pc = "failed"]
    /\ UNCHANGED <<current, raw, states, calls, loaded, unloading, unloaded, late,
                   file, writes, unsure>>

\* MUTANT: only the states that initialisers made are unloaded.
EagerStatesOf(t) == {states[t][s] : s \in Eager} \ {None}

StatesOf(t) == {states[t][s] : s \in Services} \ {None}

AllInitialised(r) == \A s \in Eager \cap raw[r].services : calls[<<r, s>>].pc = "done"

\* unload is called on every state of the tenant that is there now; a state that
\* has been unloaded is unloaded again, to no further effect.
UnloadCurrent(r) ==
    /\ rebuilds[r].pc = "initialising" /\ AllInitialised(r)
    /\ rebuilds' = [rebuilds EXCEPT ![r].pc = "swap", ![r].emptied = current]
    /\ unloading' = unloading \cup (StatesOf(current) \ unloaded)
    /\ UNCHANGED <<current, raw, states, calls, loaded, unloaded, late, file, writes, unsure>>

\* One await later the new tenant takes its place, the request is answered, and
\* the write of services.json begins.
Swap(r) ==
    /\ rebuilds[r].pc = "swap"
    /\ current' = r
    /\ rebuilds' = [rebuilds EXCEPT ![r].pc = "done", ![r].replaced = current]
    /\ writes' = writes \cup {r} /\ unsure' = (writes # {})
    /\ UNCHANGED <<raw, states, calls, loaded, unloading, unloaded, late, file>>

\* MUTANT: what is written is the configuration that was read, not the one put.
WriteBase(r) ==
    /\ r \in writes
    /\ file' = raw[rebuilds[r].base] /\ writes' = writes \ {r}
    /\ UNCHANGED <<current, raw, states, calls, loaded, unloading, unloaded, late, rebuilds, unsure>>

Write(r) ==
    /\ r \in writes
    /\ file' = raw[r] /\ writes' = writes \ {r}
    /\ UNCHANGED <<current, raw, states, calls, loaded, unloading, unloaded, late, rebuilds, unsure>>

\* It is logged, and the request has been answered already.
WriteFails(r) ==
    /\ r \in writes
    /\ writes' = writes \ {r} /\ unsure' = TRUE
    /\ UNCHANGED <<current, raw, states, calls, loaded, unloading, unloaded, late, rebuilds, file>>

Next ==
    \/ \E q \in Requests, s \in Services : Dispatch(q, s)
    \/ \E c \in Calls : \/ FindState(c) \/ GetAdapter(c) \/ MakeState(c)
                        \/ StateLoaded(c) \/ StateFails(c) \/ UnloadReturns(c)
    \/ \E r \in Rebuilds, offer \in Offers : PutRaw(r, offer)
    \/ \E r \in Rebuilds : \/ PutChords(r) \/ Initialise(r) \/ RebuildFails(r) \/ UnloadCurrent(r)
                           \/ Swap(r) \/ Write(r) \/ WriteFails(r)

Spec == Init /\ [][Next]_vars

-----------------------------------------------------------------------------
(* Properties *)

Live(c) == calls[c].made /\ c \notin unloading \cup unloaded

Replaced(c) == InMap(c) # c

Finished(r) == rebuilds[r].pc = "done"

PutsChords(r) == r \in raw[r].chords

\* Two rebuilds unloaded the same tenant, so another was never unloaded.
Overlapped == \E r1, r2 \in Rebuilds :
                 r1 # r2 /\ rebuilds[r1].emptied # None
                         /\ rebuilds[r1].emptied = rebuilds[r2].emptied

\* Every service of the tenant that answers requests which makes its state when
\* it is initialised has that state, loaded, and nothing unloads it before the
\* tenant is about to be replaced (rebuildConfig awaits init before it swaps).
CurrentIsInitialised ==
    \A s \in Eager \cap raw[current].services :
        /\ states[current][s] \in loaded
        /\ Live(states[current][s]) \/ \E r \in Rebuilds : rebuilds[r].pc = "swap"

\* A state object that was made and never unloaded is one the present tenant
\* refers to or one of a tenant being built, unless it leaked, and then for one of
\* the four reasons there are: its tenant failed to build, two first uses of a
\* lazily made state raced (Tenant.state awaits between its test and its write),
\* it was made for a request that came before its tenant was unloaded, or two
\* rebuilds overlapped and both unloaded the same tenant.
LeaksHaveACause ==
    \A c \in Calls : Live(c) =>
        LET t == calls[c].tenant IN
        \/ t = current /\ ~Replaced(c)
        \/ t # First /\ rebuilds[t].pc \in {"initialising", "swap", "failed"}
        \/ Replaced(c) /\ calls[c].service \in Lazy
        \/ c \in late /\ c \in Requests /\ calls[c].service \in Lazy
        \/ Overlapped /\ ~Emptied(t)

\* A chord that was put and acknowledged is in the present configuration unless
\* a raw configuration was put since, or a rebuild took the place of another
\* tenant than the one whose configuration it had read.
ChordsAreKept ==
    \A r \in Rebuilds : Finished(r) /\ PutsChords(r) =>
        \/ r \in raw[current].chords
        \/ \E r2 \in Rebuilds \ {r} : /\ Finished(r2)
                                      /\ PutsChords(r2) => rebuilds[r2].base # rebuilds[r2].replaced

\* services.json ends up as the configuration that is served, when the last write
\* succeeded and began after the one before it had ended: rebuildConfig writes in
\* the background, with nothing that orders two writes.
FileCatchesUp ==
    ~unsure => IF writes = {} THEN file = raw[current] ELSE writes = {current}
=============================================================================
