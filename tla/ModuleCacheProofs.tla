-------------------------- MODULE ModuleCacheProofs --------------------------
(***************************************************************************)
(* Proofs about ModuleCache: its type and its three safety properties, for *)
(* any items, tenants, tasks and readers.                                  *)
(*                                                                         *)
(* A step is taken on what an earlier one saw: the version a task is about *)
(* to cache may be older than a purge (Load, CodeInv), and the map a       *)
(* reader of a catalogue fills may be emptied by another (Filling).        *)
(***************************************************************************)
EXTENDS ModuleCache, TLAPS

\* The code an item's name has in the cache, if it has any.
HasCode(m, key) == m[key].version >= 0

\* The tasks that call for a service or an adapter.
Calls == {"request", "init"}

\* What a task must not be served: code older than the purge before it (fl), unless others may
\* have cached it (sh).
Load(e, fl, sh) ==
    /\ e \in Task
    /\ e.kind \in Calls /\ e.pc # "idle" => e.item \in Items /\ e.floor <= fl[e.item]
    /\ e.pc \in {"import", "read"} => e.kind \in Calls
    /\ e.pc = "read" => e.version >= 0
    /\ e.pc # "over" => e.got = None
    /\ e.pc \in {"import", "read"} /\ Key[e.item] \notin Relative /\ e.item \notin sh =>
         e.tenant = Owner[e.item]
    /\ e.pc = "read" /\ Key[e.item] \notin Relative /\ e.item \notin sh => e.version >= fl[e.item]
    /\ e.kind \in Calls /\ e.pc = "over" /\ e.got # None /\ e.tenant = Owner[e.item] /\ ~e.excused =>
         e.version >= e.floor

LoadsInv ==
    /\ tasks = [k \in Tasks |-> tasks[k]]
    /\ \A k \in Tasks : Load(tasks[k], floors, shared)

\* The code of an item with a name of its own is listed under the domain that purges it, and
\* is no older than the last purge unless others may have cached it.
CodeInv ==
    /\ modules \in [Keys -> [of : Items \cup {None}, version : -1..MaxEdits]]
    /\ listed \in [Tenants \X {"domain", "name"} -> SUBSET Keys]
    /\ \A d \in Tenants \X {"domain", "name"} : \A key \in listed[d] : HasCode(modules, key)
    /\ \A t \in Tenants : listed[<<t, "name">>] \subseteq Relative
    /\ \A t \in Tenants : \A i \in Items : Key[i] \in listed[<<t, "domain">>] =>
         Key[i] \notin Relative /\ Owner[i] = t
    /\ \A key \in Keys : HasCode(modules, key) \/ modules[key] = NoModule
    /\ \A i \in Items : Key[i] \notin Relative /\ HasCode(modules, Key[i]) =>
         /\ Key[i] \in listed[<<Owner[i], "domain">>]
         /\ i \notin shared => modules[Key[i]].version >= floors[i]

SourceInv ==
    /\ stored \in [Items -> [valid : BOOLEAN, code : Versions]]
    /\ floors \in [Items -> Versions] /\ shared \subseteq Items
    /\ imported \in [Items -> -1..MaxEdits]
    /\ \A i \in Items : floors[i] <= stored[i].code

ManifestsInv ==
    /\ manifests \in [Items -> {"none", "good", "bad"}] /\ validators \subseteq Items
    /\ seen \in [Items -> SUBSET BOOLEAN]
    /\ \A i \in Items : stored[i].valid \in seen[i]
    /\ refused \subseteq Items
    /\ \A i \in validators : TRUE \in seen[i]
    /\ \A i \in Items : (manifests[i] = "good" => TRUE \in seen[i]) /\ (manifests[i] = "bad" => i \in refused)

InitsInv == inits \in [Tenants -> SUBSET Items]

\* A task that calls for an item has its manifest in the cache (m), wants it or has failed to get it.
Had(e, m) ==
    e.kind \in Calls /\ e.pc \in {"manifests", "import", "read"} =>
        m[e.item] # "none" \/ (e.pc = "manifests" /\ (e.item \in e.want \/ e.bad))

\* What was served was valid (sn: the validities it had), or is the init of a service whose manifest
\* was refused (rf).
Told(e, sn, rf) ==
    e.kind \in Calls /\ e.pc = "over" /\ e.got # None =>
        TRUE \in sn[e.item] \/ (e.kind = "init" /\ e.item \notin Adapters /\ e.item \in rf)

HadInv == \A k \in Tasks : Had(tasks[k], manifests) /\ Told(tasks[k], seen, refused)

CastInv == cast \in Casts /\ calls \in 0..MaxCalls

\* The manifests a catalogue must have.
AlwaysValid(d, sn) == {i \in UNION Stores[d] : sn[i] = {TRUE}}

\* A reader that is loading the catalogue of d.
Busy(e, d) == e.pc \in {"list", "stores"} /\ e.domain = d

\* A reader since which nobody has emptied the map of d: what it has loaded is there.
Filling(e, d, m, sn) ==
    /\ e.pc = "stores" /\ e.domain = d
    /\ AlwaysValid(d, sn) \ UNION e.todo \subseteq m[d]

CatalogueInv ==
    /\ maps \in [Tenants -> SUBSET Items] /\ broken \subseteq Tenants
    /\ catalogue \in [Tenants -> [known : BOOLEAN, items : SUBSET Items]]
    /\ readers \in [Readers -> Reader]
    /\ \A r \in Readers : readers[r].todo \subseteq SUBSET Items
    /\ \A d \in Tenants \ broken :
         catalogue[d].known \/ (\E r \in Readers : readers[r].pc = "stores" /\ readers[r].domain = d) =>
             \/ AlwaysValid(d, seen) \subseteq maps[d]
             \/ \E r \in Readers : Filling(readers[r], d, maps, seen)
    /\ \A d \in Tenants \ broken :
         catalogue[d].known =>
             \/ AlwaysValid(d, seen) \subseteq catalogue[d].items
             \/ \E r \in Readers : Busy(readers[r], d)

IInv == SourceInv /\ ManifestsInv /\ CodeInv /\ LoadsInv /\ CatalogueInv /\ CastInv /\ InitsInv /\ HadInv
-----------------------------------------------------------------------------
(* Tasks *)

LEMMA NoTaskIsTask ==
    NoTask \in Task /\ NoTask.tenant \in Tenants
  <1>1. (CHOOSE t \in Tenants : TRUE) \in Tenants
    BY ModuleConstants
  <1>2. 0 \in Versions /\ -1 \in -1..MaxEdits
    BY ModuleConstants DEF Versions
  <1>3. QED
    BY <1>1, <1>2 DEF NoTask, Task

LEMMA EmptyTask ==
    /\ NoTask.version = -1 /\ ~NoTask.bad /\ ~NoTask.excused
    /\ NoTask.pc = "idle" /\ NoTask.kind = "request" /\ NoTask.item = None /\ NoTask.want = {}
    /\ NoTask.have = {} /\ NoTask.rest = {} /\ NoTask.floor = 0 /\ NoTask.got = None
  BY DEF NoTask

\* A task starts with what it wants, on the code of its item as the last purge left it.
LEMMA StartedIsLoad ==
    ASSUME NEW fl \in [Items -> Versions], NEW sh,
           NEW kind \in {"request", "build", "init", "report"}, NEW t \in Tenants, NEW i \in Items \cup {None},
           NEW w \in SUBSET Items, NEW h \in SUBSET Items, NEW rest \in SUBSET Items, NEW f \in Versions,
           kind \in Calls => i \in Items /\ f = fl[i]
    PROVE  Load([NoTask EXCEPT !.pc = "manifests", !.kind = kind, !.tenant = t, !.item = i, !.want = w,
                               !.have = h, !.rest = rest, !.floor = f], fl, sh)
  <1> DEFINE e == [NoTask EXCEPT !.pc = "manifests", !.kind = kind, !.tenant = t, !.item = i, !.want = w,
                                 !.have = h, !.rest = rest, !.floor = f]
  <1>1. e \in Task
    BY NoTaskIsTask DEF Task
  <1>2. e.pc = "manifests" /\ e.kind = kind /\ e.item = i /\ e.floor = f /\ e.got = None
    BY DEF NoTask
  <1>3. kind \in Calls => f <= fl[i]
    BY ModuleConstants DEF Versions
  <1> HIDE DEF e
  <1>4. Load(e, fl, sh)
    BY <1>1, <1>2, <1>3 DEF Load
  <1>5. QED
    BY <1>4 DEF e

\* What is wanted, at hand or left to do does not change what the task may be served.
LEMMA AskedIsLoad ==
    ASSUME NEW fl, NEW sh, NEW e, Load(e, fl, sh),
           NEW w \in SUBSET Items, NEW h \in SUBSET Items, NEW rest \in SUBSET Items, NEW b \in BOOLEAN
    PROVE  Load([e EXCEPT !.want = w, !.have = h, !.rest = rest, !.bad = b], fl, sh)
  <1> DEFINE f == [e EXCEPT !.want = w, !.have = h, !.rest = rest, !.bad = b]
  <1>1. f \in Task /\ f.pc = e.pc /\ f.kind = e.kind /\ f.tenant = e.tenant /\ f.item = e.item
        /\ f.version = e.version /\ f.got = e.got /\ f.floor = e.floor /\ f.excused = e.excused
    BY DEF Load, Task
  <1> HIDE DEF f
  <1>2. Load(f, fl, sh)
    BY <1>1 DEF Load
  <1>3. QED
    BY <1>2 DEF f

\* What is wanted is what the cache does not have of it.
LEMMA LayerIsItems ==
    ASSUME NEW s \in SUBSET Items
    PROVE  Layer(s) \in SUBSET Items
  BY DEF Layer

\* A task that was served nothing is over.
LEMMA OverIsLoad ==
    ASSUME NEW fl, NEW sh, NEW e, Load(e, fl, sh), e.pc \notin {"idle", "over"}
    PROVE  Load([e EXCEPT !.pc = "over"], fl, sh)
  <1> DEFINE f == [e EXCEPT !.pc = "over"]
  <1>1. f \in Task /\ f.pc = "over" /\ f.kind = e.kind /\ f.item = e.item /\ f.got = None /\ f.floor = e.floor
    BY DEF Load, Task
  <1> HIDE DEF f
  <1>2. Load(f, fl, sh)
    BY <1>1 DEF Load
  <1>3. QED
    BY <1>2 DEF f

\* A request is served.
LEMMA ServedIsLoad ==
    ASSUME NEW fl, NEW sh, NEW e, Load(e, fl, sh), e.pc # "idle", e.kind \in Calls,
           NEW v \in -1..MaxEdits, NEW x \in BOOLEAN, NEW g \in {None} \cup Items,
           e.tenant = Owner[e.item] /\ ~x => v >= fl[e.item],
           fl \in [Items -> Versions]
    PROVE  Load([e EXCEPT !.pc = "over", !.version = v, !.excused = x, !.got = g], fl, sh)
  <1> DEFINE f == [e EXCEPT !.pc = "over", !.version = v, !.excused = x, !.got = g]
  <1>1. f \in Task /\ f.pc = "over" /\ f.kind = e.kind /\ f.item = e.item /\ f.got = g /\ f.floor = e.floor
        /\ f.version = v /\ f.excused = x /\ f.tenant = e.tenant
    BY DEF Load, Task
  <1>2. e.item \in Items /\ e.floor <= fl[e.item] /\ e.floor \in Int /\ fl[e.item] \in Int /\ v \in Int
    BY ModuleConstants DEF Load, Task, Versions
  <1>3. f.tenant = Owner[f.item] /\ ~f.excused => f.version >= f.floor
    BY <1>1, <1>2
  <1> HIDE DEF f
  <1>4. Load(f, fl, sh)
    BY <1>1, <1>2, <1>3 DEF Load
  <1>5. QED
    BY <1>4 DEF f

\* A request has code imported, for another tenant only if what it imports is then shared.
LEMMA ImportIsLoad ==
    ASSUME NEW fl, NEW sh, NEW e, Load(e, fl, sh), e.pc = "manifests", e.kind \in Calls,
           NEW sh2, e.tenant # Owner[e.item] => e.item \in sh2
    PROVE  Load([e EXCEPT !.pc = "import"], fl, sh2)
  <1> DEFINE f == [e EXCEPT !.pc = "import"]
  <1>1. f \in Task /\ f.pc = "import" /\ f.kind = e.kind /\ f.item = e.item /\ f.got = e.got /\ f.floor = e.floor
        /\ f.tenant = e.tenant
    BY DEF Load, Task
  <1> HIDE DEF f
  <1>2. Load(f, fl, sh2)
    BY <1>1 DEF Load
  <1>3. QED
    BY <1>2 DEF f

\* It has read code that is no older than the last purge, if it is its tenant's own.
LEMMA ReadIsLoad ==
    ASSUME NEW fl, NEW sh, NEW e, Load(e, fl, sh), e.pc = "import",
           NEW v \in -1..MaxEdits, v >= 0, e.tenant = Owner[e.item] => v >= fl[e.item]
    PROVE  Load([e EXCEPT !.pc = "read", !.version = v], fl, sh)
  <1> DEFINE f == [e EXCEPT !.pc = "read", !.version = v]
  <1>1. f \in Task /\ f.pc = "read" /\ f.kind = e.kind /\ f.item = e.item /\ f.got = e.got /\ f.floor = e.floor
        /\ f.tenant = e.tenant /\ f.version = v
    BY DEF Load, Task
  <1> HIDE DEF f
  <1>2. Load(f, fl, sh)
    BY <1>1 DEF Load
  <1>3. QED
    BY <1>2 DEF f

\* A task the step leaves alone: a purge raises the floors of items nothing loads, or shares them.
LEMMA LoadKept ==
    ASSUME NEW fl \in [Items -> Versions], NEW sh, NEW e, Load(e, fl, sh),
           NEW fl2 \in [Items -> Versions], NEW sh2, \A i \in Items : fl[i] <= fl2[i],
           e.pc \in {"import", "read"} /\ e.item \notin sh2 => e.item \notin sh /\ fl2[e.item] = fl[e.item]
    PROVE  Load(e, fl2, sh2)
  <1>1. CASE e.kind \in Calls /\ e.pc # "idle"
    <2>1. e.item \in Items /\ e.floor <= fl[e.item] /\ e.floor \in Int
      BY <1>1, ModuleConstants DEF Load, Task, Versions
    <2>2. fl[e.item] \in Int /\ fl2[e.item] \in Int /\ fl[e.item] <= fl2[e.item]
      BY <2>1, ModuleConstants DEF Versions
    <2>3. e.floor <= fl2[e.item]
      BY <2>1, <2>2
    <2>4. QED
      BY <1>1, <2>1, <2>3 DEF Load
  <1>2. CASE ~(e.kind \in Calls /\ e.pc # "idle")
    BY <1>2 DEF Load
  <1>3. QED
    BY <1>1, <1>2

\* One task takes a step.
LEMMA TaskStep ==
    ASSUME LoadsInv, NEW k \in Tasks, NEW e, tasks' = [tasks EXCEPT ![k] = e],
           Load(e, floors', shared'),
           \A j \in Tasks \ {k} : Load(tasks[j], floors', shared')
    PROVE  LoadsInv'
  <1>1. tasks' = [j \in Tasks |-> IF j = k THEN e ELSE tasks[j]]
    BY DEF LoadsInv
  <1>2. \A j \in Tasks : tasks'[j] = IF j = k THEN e ELSE tasks[j]
    BY <1>1
  <1>3. tasks' = [j \in Tasks |-> tasks'[j]]
    BY <1>1, <1>2
  <1>4. \A j \in Tasks : Load(tasks'[j], floors', shared')
    BY <1>2
  <1>5. QED
    BY <1>3, <1>4 DEF LoadsInv

LEMMA TaskStepAlone ==
    ASSUME LoadsInv, NEW k \in Tasks, NEW e, tasks' = [tasks EXCEPT ![k] = e],
           Load(e, floors, shared), UNCHANGED <<floors, shared>>
    PROVE  LoadsInv'
  <1>1. \A j \in Tasks \ {k} : Load(tasks[j], floors', shared')
    BY DEF LoadsInv
  <1>2. QED
    BY <1>1, TaskStep

\* One task takes a step: it still has what it calls for, and is served what it may be.
LEMMA HadStep ==
    ASSUME LoadsInv, HadInv, NEW k \in Tasks, NEW e, tasks' = [tasks EXCEPT ![k] = e],
           Had(e, manifests), Told(e, seen, refused), UNCHANGED <<manifests, seen, refused>>
    PROVE  HadInv'
  <1>1. tasks' = [j \in Tasks |-> IF j = k THEN e ELSE tasks[j]]
    BY DEF LoadsInv
  <1>2. \A j \in Tasks : tasks'[j] = IF j = k THEN e ELSE tasks[j]
    BY <1>1
  <1>3. ASSUME NEW j \in Tasks PROVE Had(tasks'[j], manifests') /\ Told(tasks'[j], seen', refused')
    BY <1>2 DEF HadInv
  <1>4. QED
    BY <1>3 DEF HadInv

\* A task that is not about what it calls for.
LEMMA HadOther ==
    ASSUME LoadsInv, HadInv, NEW k \in Tasks, NEW e, tasks' = [tasks EXCEPT ![k] = e],
           \/ e.kind \notin Calls
           \/ e.pc = "over" /\ e.got = None,
           UNCHANGED <<manifests, seen, refused>>
    PROVE  HadInv'
  <1>1. Had(e, manifests) /\ Told(e, seen, refused)
    BY DEF Had, Told
  <1>2. QED
    BY <1>1, HadStep
-----------------------------------------------------------------------------
(* What a step leaves alone *)

LEMMA Unchanged ==
    /\ SourceInv /\ UNCHANGED <<stored, floors, shared, imported>> => SourceInv'
    /\ ManifestsInv /\ UNCHANGED <<manifests, validators, seen, refused, stored>> => ManifestsInv'
    /\ InitsInv /\ UNCHANGED inits => InitsInv'
    /\ HadInv /\ UNCHANGED <<tasks, manifests, seen, refused>> => HadInv'
    /\ CodeInv /\ UNCHANGED <<modules, listed, shared, floors>> => CodeInv'
    /\ LoadsInv /\ UNCHANGED <<tasks, floors, shared>> => LoadsInv'
    /\ CatalogueInv /\ UNCHANGED <<maps, broken, catalogue, readers, seen>> => CatalogueInv'
    /\ CastInv /\ UNCHANGED <<cast, calls>> => CastInv'
  <1>1. SourceInv /\ UNCHANGED <<stored, floors, shared, imported>> => SourceInv'
    BY DEF SourceInv
  <1>2. ManifestsInv /\ UNCHANGED <<manifests, validators, seen, refused, stored>> => ManifestsInv'
    BY DEF ManifestsInv
  <1>3. CodeInv /\ UNCHANGED <<modules, listed, shared, floors>> => CodeInv'
    BY DEF CodeInv
  <1>4. LoadsInv /\ UNCHANGED <<tasks, floors, shared>> => LoadsInv'
    BY DEF LoadsInv
  <1>5. CatalogueInv /\ UNCHANGED <<maps, broken, catalogue, readers, seen>> => CatalogueInv'
    BY DEF CatalogueInv
  <1>6. CastInv /\ UNCHANGED <<cast, calls>> => CastInv'
    BY DEF CastInv
  <1>7. InitsInv /\ UNCHANGED inits => InitsInv'
    BY DEF InitsInv
  <1>8. HadInv /\ UNCHANGED <<tasks, manifests, seen, refused>> => HadInv'
    BY DEF HadInv
  <1>9. QED
    BY <1>1, <1>2, <1>3, <1>4, <1>5, <1>6, <1>7, <1>8
-----------------------------------------------------------------------------
(* The steps of tasks that leave the code alone *)

LEMMA StartedCalls ==
    ASSUME CastInv, NEW k \in Tasks, NEW e, Started(k, e)
    PROVE  CastInv'
  <1>1. cast.calls \in 0..MaxCalls /\ cast' = cast
    BY ModuleConstants DEF CastInv, Started
  <1>2. calls \in Nat /\ calls < cast.calls /\ calls' = calls + 1 /\ MaxCalls \in Nat
    BY ModuleConstants DEF CastInv, Started
  <1>3. calls' \in 0..MaxCalls
    BY <1>1, <1>2
  <1>4. QED
    BY <1>1, <1>3 DEF CastInv

\* A manifest is had, or is not.
LEMMA ManifestStep ==
    ASSUME IInv, NEW k \in Tasks, NEW i \in Items, GetManifest(k, i)
    PROVE  IInv'
  <1>1. Load(tasks[k], floors, shared) /\ tasks[k].want \in SUBSET Items /\ tasks[k].bad \in BOOLEAN
        /\ tasks[k].have \in SUBSET Items /\ tasks[k].rest \in SUBSET Items
    BY DEF IInv, LoadsInv, Load, Task
  <1>2. LoadsInv'
    <2>1. ASSUME NEW b \in BOOLEAN, tasks' = [tasks EXCEPT ![k].want = tasks[k].want \ {i}, ![k].bad = b]
          PROVE  LoadsInv'
      <3> DEFINE w == tasks[k].want \ {i}
                 e == [tasks[k] EXCEPT !.want = w, !.have = tasks[k].have, !.rest = tasks[k].rest, !.bad = b]
      <3>1. Load(e, floors, shared)
        BY <1>1, AskedIsLoad
      <3>2. e = [tasks[k] EXCEPT !.want = w, !.bad = b]
        BY <1>1 DEF Load, Task
      <3>3. tasks' = [tasks EXCEPT ![k] = e]
        BY <2>1, <3>2
      <3> HIDE DEF e
      <3>4. QED
        BY <3>1, <3>3, TaskStepAlone DEF IInv, GetManifest
    <2>2. CASE Kept(k, i)
      <3>1. (tasks[k].bad \/ ~stored[i].valid) \in BOOLEAN
        BY <1>1 DEF IInv, SourceInv
      <3>2. QED
        BY <2>1, <2>2, <3>1 DEF Kept
    <2>3. CASE ~Kept(k, i)
      BY <2>1, <2>3 DEF GetManifest
    <2>4. QED
      BY <2>2, <2>3
  <1>3. ManifestsInv'
    BY DEF IInv, ManifestsInv, SourceInv, GetManifest, Kept, Validated
  <1>4. CatalogueInv'
    <2>1. CASE UNCHANGED maps
      BY <2>1, Unchanged DEF IInv, GetManifest, catalogueVars
    <2>2. CASE maps' = [maps EXCEPT ![Owner[i]] = @ \cup {i}]
      <3>1. maps' \in [Tenants -> SUBSET Items] /\ \A d \in Tenants : maps[d] \subseteq maps'[d]
        BY <2>2, ModuleConstants DEF IInv, CatalogueInv
      <3>2. UNCHANGED <<broken, catalogue, readers, seen>>
        BY DEF GetManifest, catalogueVars
      <3>3. QED
        BY <3>1, <3>2 DEF IInv, CatalogueInv, Filling
    <2>3. QED
      BY <2>1, <2>2 DEF GetManifest, Kept
  <1>5. SourceInv' /\ CodeInv' /\ CastInv' /\ InitsInv'
    BY Unchanged DEF IInv, GetManifest
  <1>6. HadInv'
    <2>1. \A j \in Items : (manifests[j] # "none" => manifests'[j] # "none")
      BY DEF IInv, ManifestsInv, GetManifest, Kept
    <2>2. seen' = seen /\ refused \subseteq refused'
      BY DEF GetManifest, Kept
    <2>3. \A j \in Tasks : tasks[j].kind \in Calls /\ tasks[j].pc # "idle" => tasks[j].item \in Items
      BY DEF IInv, LoadsInv, Load
    <2>4. ASSUME NEW j \in Tasks \ {k}
          PROVE  Had(tasks'[j], manifests') /\ Told(tasks'[j], seen', refused')
      <3>1. tasks'[j] = tasks[j]
        BY <1>2 DEF IInv, LoadsInv, GetManifest, Kept
      <3>2. Had(tasks[j], manifests) /\ Told(tasks[j], seen, refused)
        BY DEF IInv, HadInv
      <3>3. Had(tasks[j], manifests')
        BY <2>1, <2>3, <3>2 DEF Had
      <3>4. QED
        BY <2>2, <3>1, <3>2, <3>3 DEF Told
    <2>5. /\ tasks'[k].pc = "manifests" /\ tasks'[k].item = tasks[k].item /\ tasks'[k].kind = tasks[k].kind
          /\ tasks'[k].want = tasks[k].want \ {i}
          /\ tasks'[k].bad \/ (manifests'[i] # "none" /\ tasks'[k].bad = tasks[k].bad)
      <3>1. tasks[k].pc = "manifests" /\ tasks[k] \in Task
        BY <1>1 DEF GetManifest, Load
      <3>2. CASE Kept(k, i)
        <4>1. manifests'[i] # "none"
          BY <3>2 DEF Kept, IInv, ManifestsInv
        <4>2. tasks' = [tasks EXCEPT ![k].want = tasks[k].want \ {i}, ![k].bad = tasks[k].bad \/ ~stored[i].valid]
          BY <3>2 DEF Kept
        <4>3. tasks'[k] = [tasks[k] EXCEPT !.want = tasks[k].want \ {i}, !.bad = tasks[k].bad \/ ~stored[i].valid]
          BY <4>2 DEF IInv, LoadsInv
        <4>4. stored[i].valid \in BOOLEAN
          BY DEF IInv, SourceInv
        <4>5. CASE stored[i].valid
          BY <1>1, <3>1, <4>1, <4>3, <4>5 DEF Task
        <4>6. CASE ~stored[i].valid
          BY <1>1, <3>1, <4>1, <4>3, <4>6 DEF Task
        <4>7. QED
          BY <4>4, <4>5, <4>6
      <3>3. CASE ~Kept(k, i)
        <4>1. tasks' = [tasks EXCEPT ![k].want = tasks[k].want \ {i}, ![k].bad = TRUE]
          BY <3>3 DEF GetManifest
        <4>2. tasks'[k] = [tasks[k] EXCEPT !.want = tasks[k].want \ {i}, !.bad = TRUE]
          BY <4>1 DEF IInv, LoadsInv
        <4>3. QED
          BY <3>1, <4>2 DEF Task
      <3>4. QED
        BY <3>2, <3>3
    <2>6. Had(tasks[k], manifests) /\ tasks[k].pc = "manifests"
      BY DEF IInv, HadInv, GetManifest
    <2>7. Had(tasks'[k], manifests') /\ Told(tasks'[k], seen', refused')
      <3>1. Told(tasks'[k], seen', refused')
        BY <2>5 DEF Told
      <3>2. ASSUME tasks[k].kind \in Calls, ~tasks'[k].bad, tasks[k].item \notin tasks'[k].want
            PROVE  manifests'[tasks[k].item] # "none"
        BY <2>1, <2>3, <2>5, <2>6, <3>2 DEF Had
      <3>3. Had(tasks'[k], manifests')
        <4>1. CASE tasks[k].kind \in Calls /\ ~tasks'[k].bad /\ tasks[k].item \notin tasks'[k].want
          <5>1. manifests'[tasks'[k].item] # "none"
            BY <2>5, <3>2, <4>1
          <5>2. QED
            BY <5>1, Zenon DEF Had
        <4>2. CASE tasks[k].kind \notin Calls
          BY <2>5, <4>2, Zenon DEF Had
        <4>3. CASE tasks'[k].bad
          BY <2>5, <4>3, Zenon DEF Had
        <4>4. CASE tasks[k].item \in tasks'[k].want
          BY <2>5, <4>4, Zenon DEF Had
        <4>5. QED
          BY <4>1, <4>2, <4>3, <4>4
      <3>4. QED
        BY <3>1, <3>3
    <2>8. QED
      BY <2>4, <2>7 DEF HadInv
  <1>7. QED
    BY <1>2, <1>3, <1>4, <1>5, <1>6 DEF IInv

\* What a task that calls for an item starts with.
LEMMA StartHas ==
    ASSUME LoadsInv, HadInv, NEW k \in Tasks, NEW e, tasks' = [tasks EXCEPT ![k] = e],
           NEW i \in Items, e.item = i, e.want = Layer({i}), e.pc = "manifests",
           UNCHANGED <<manifests, seen, refused>>
    PROVE  HadInv'
  <1>1. manifests[e.item] # "none" \/ e.item \in e.want
    BY DEF Layer, Cached
  <1>2. Had(e, manifests)
    BY <1>1, Zenon DEF Had
  <1>3. Told(e, seen, refused)
    BY DEF Told
  <1>4. QED
    BY <1>2, <1>3, HadStep

\* A request, a report or a build begins.
LEMMA RequestStep ==
    ASSUME IInv, NEW k \in Tasks, NEW t \in Tenants, NEW i \in Config[t], Request(k, t, i)
    PROVE  IInv'
  <1> DEFINE w == Layer({i})
             e == [NoTask EXCEPT !.pc = "manifests", !.tenant = t, !.item = i, !.want = w, !.floor = floors[i]]
             f == [NoTask EXCEPT !.pc = "manifests", !.kind = "request", !.tenant = t, !.item = i, !.want = w,
                                 !.have = {}, !.rest = {}, !.floor = floors[i]]
  <1>1. i \in Items
    BY ModuleConstants
  <1>2. w \in SUBSET Items
    BY <1>1, LayerIsItems
  <1>3. floors[i] \in Versions
    BY <1>1 DEF IInv, SourceInv
  <1> HIDE DEF w
  <1>4. Load(f, floors, shared)
    BY <1>1, <1>2, <1>3, StartedIsLoad DEF IInv, SourceInv
  <1>5. e = f
    BY NoTaskIsTask, EmptyTask DEF Task
  <1>6. tasks' = [tasks EXCEPT ![k] = e] /\ UNCHANGED <<floors, shared, seen, refused, manifests>>
    BY DEF Request, Started, codeVars, w
  <1>7. e.item = i /\ e.want = w /\ e.pc = "manifests"
    BY DEF NoTask
  <1> HIDE DEF e, f
  <1>8. LoadsInv'
    BY <1>4, <1>5, <1>6, TaskStepAlone DEF IInv
  <1>9. HadInv'
    BY <1>1, <1>6, <1>7, StartHas DEF IInv, w
  <1>10. CastInv'
    BY StartedCalls DEF IInv, Request
  <1>11. QED
    BY <1>8, <1>9, <1>10, Unchanged DEF IInv, Request, Started, codeVars, catalogueVars

LEMMA InitialiseStep ==
    ASSUME IInv, NEW k \in Tasks, NEW t \in Tenants, NEW i \in Config[t], Initialise(k, t, i)
    PROVE  IInv'
  <1> DEFINE w == Layer({i})
             e == [NoTask EXCEPT !.pc = "manifests", !.kind = "init", !.tenant = t, !.item = i, !.want = w,
                                 !.floor = floors[i]]
             f == [NoTask EXCEPT !.pc = "manifests", !.kind = "init", !.tenant = t, !.item = i, !.want = w,
                                 !.have = {}, !.rest = {}, !.floor = floors[i]]
  <1>1. i \in Items
    BY ModuleConstants
  <1>2. w \in SUBSET Items
    BY <1>1, LayerIsItems
  <1>3. floors[i] \in Versions
    BY <1>1 DEF IInv, SourceInv
  <1> HIDE DEF w
  <1>4. Load(f, floors, shared)
    BY <1>1, <1>2, <1>3, StartedIsLoad DEF IInv, SourceInv
  <1>5. e = f
    BY NoTaskIsTask, EmptyTask DEF Task
  <1>6. tasks' = [tasks EXCEPT ![k] = e] /\ UNCHANGED <<floors, shared, seen, refused, manifests>>
    BY DEF Initialise, codeVars, castVars, w
  <1>7. e.item = i /\ e.want = w /\ e.pc = "manifests"
    BY DEF NoTask
  <1> HIDE DEF e, f
  <1>8. LoadsInv'
    BY <1>4, <1>5, <1>6, TaskStepAlone DEF IInv
  <1>9. HadInv'
    BY <1>1, <1>6, <1>7, StartHas DEF IInv, w
  <1>10. InitsInv'
    BY DEF IInv, InitsInv, Initialise
  <1>11. QED
    BY <1>8, <1>9, <1>10, Unchanged DEF IInv, Initialise, codeVars, castVars, catalogueVars

LEMMA ReportStep ==
    ASSUME IInv, NEW k \in Tasks, NEW t \in Tenants, Report(k, t)
    PROVE  IInv'
  <1> DEFINE rest == Reported(t)
             e == [NoTask EXCEPT !.pc = "manifests", !.kind = "report", !.tenant = t, !.rest = rest]
             f == [NoTask EXCEPT !.pc = "manifests", !.kind = "report", !.tenant = t, !.item = None, !.want = {},
                                 !.have = {}, !.rest = rest, !.floor = 0]
  <1>1. rest \in SUBSET Items /\ 0 \in Versions
    BY ModuleConstants DEF Reported, Versions
  <1> HIDE DEF rest
  <1>2. Load(f, floors, shared)
    BY <1>1, StartedIsLoad DEF IInv, SourceInv, Calls
  <1>3. e = f
    BY NoTaskIsTask, EmptyTask DEF Task
  <1>4. tasks' = [tasks EXCEPT ![k] = e] /\ UNCHANGED <<floors, shared, seen, refused, manifests>>
    BY DEF Report, Started, codeVars, rest
  <1>5. e.kind \notin Calls
    BY DEF NoTask, Calls
  <1>6. HadInv'
    BY <1>4, <1>5, HadOther DEF IInv
  <1> HIDE DEF e, f
  <1>7. LoadsInv'
    BY <1>2, <1>3, <1>4, TaskStepAlone DEF IInv
  <1>8. CastInv'
    BY StartedCalls DEF IInv, Report
  <1>9. QED
    BY <1>6, <1>7, <1>8, Unchanged DEF IInv, Report, Started, codeVars, catalogueVars

LEMMA NextOfReportStep ==
    ASSUME IInv, NEW k \in Tasks, NEW i \in Items, NextOfReport(k, i)
    PROVE  IInv'
  <1> DEFINE w == Layer({i})
             rest == tasks[k].rest \ {i}
             e == [tasks[k] EXCEPT !.want = w, !.have = tasks[k].have, !.rest = rest, !.bad = tasks[k].bad]
  <1>1. Load(tasks[k], floors, shared) /\ rest \in SUBSET Items /\ tasks[k].bad \in BOOLEAN
        /\ tasks[k].have \in SUBSET Items
    BY DEF IInv, LoadsInv, Load, Task
  <1>2. w \in SUBSET Items
    BY LayerIsItems
  <1>3. tasks' = [tasks EXCEPT ![k].rest = rest, ![k].want = w]
    BY DEF NextOfReport
  <1> HIDE DEF w, rest
  <1>4. Load(e, floors, shared)
    BY <1>1, <1>2, AskedIsLoad
  <1>5. tasks' = [tasks EXCEPT ![k] = e]
    BY <1>1, <1>3 DEF Load, Task
  <1>6. e.kind \notin Calls
    BY <1>1 DEF NextOfReport, Load, Task, Calls
  <1> HIDE DEF e
  <1>7. LoadsInv'
    BY <1>4, <1>5, TaskStepAlone DEF IInv, NextOfReport, codeVars, castVars
  <1>8. HadInv'
    BY <1>5, <1>6, HadOther DEF IInv, NextOfReport, codeVars, castVars
  <1>9. QED
    BY <1>7, <1>8, Unchanged DEF IInv, NextOfReport, codeVars, castVars, catalogueVars

LEMMA OverStep ==
    ASSUME LoadsInv, HadInv, NEW k \in Tasks, tasks[k].pc \notin {"idle", "over"}, Over(k),
           UNCHANGED <<floors, shared, seen, refused, manifests>>
    PROVE  LoadsInv' /\ HadInv'
  <1>1. Load(tasks[k], floors, shared)
    BY DEF LoadsInv
  <1> DEFINE e == [tasks[k] EXCEPT !.pc = "over"]
  <1>2. Load(e, floors, shared)
    BY <1>1, OverIsLoad
  <1>3. tasks' = [tasks EXCEPT ![k] = e]
    BY DEF Over
  <1>4. e.pc = "over" /\ e.got = None
    BY <1>1 DEF Load, Task
  <1> HIDE DEF e
  <1>5. QED
    BY <1>2, <1>3, <1>4, TaskStepAlone, HadOther

LEMMA RefusedStep ==
    ASSUME IInv, NEW k \in Tasks, Refused(k)
    PROVE  IInv'
  <1>1. LoadsInv' /\ HadInv'
    BY OverStep DEF IInv, Refused, codeVars, castVars
  <1>2. QED
    BY <1>1, Unchanged DEF IInv, Refused, codeVars, castVars, catalogueVars

LEMMA NextLayerStep ==
    ASSUME IInv, NEW k \in Tasks, NextLayer(k)
    PROVE  IInv'
  <1> DEFINE layer == UNION {Private[i] : i \in tasks[k].have} \ tasks[k].have
             w == Layer(layer)
             h == tasks[k].have \cup layer
             e == [tasks[k] EXCEPT !.want = w, !.have = h, !.rest = tasks[k].rest, !.bad = tasks[k].bad]
  <1>1. Load(tasks[k], floors, shared) /\ tasks[k].rest \in SUBSET Items /\ tasks[k].bad \in BOOLEAN
        /\ tasks[k].have \in SUBSET Items
    BY DEF IInv, LoadsInv, Load, Task
  <1>2. layer \in SUBSET Items
    BY <1>1, ModuleConstants
  <1>3. tasks' = [tasks EXCEPT ![k] = Descended(tasks[k], layer)]
    BY DEF NextLayer
  <1> HIDE DEF layer
  <1>4. w \in SUBSET Items /\ h \in SUBSET Items
    BY <1>1, <1>2, LayerIsItems
  <1>5. LoadsInv' /\ HadInv'
    <2>1. CASE layer = {}
      <3>1. Over(k)
        BY <1>3, <2>1 DEF Over, Descended
      <3>2. QED
        BY <3>1, OverStep DEF IInv, NextLayer, codeVars, castVars
    <2>2. CASE layer # {}
      <3>1. Descended(tasks[k], layer) = [tasks[k] EXCEPT !.want = w, !.have = h]
        BY <2>2 DEF Descended
      <3> HIDE DEF w, h
      <3>2. Load(e, floors, shared)
        BY <1>1, <1>4, AskedIsLoad
      <3>3. e = [tasks[k] EXCEPT !.want = w, !.have = h]
        BY <1>1 DEF Load, Task
      <3>4. tasks' = [tasks EXCEPT ![k] = e]
        BY <1>3, <3>1, <3>3
      <3>5. e.kind \notin Calls
        BY <1>1 DEF NextLayer, Load, Task, Calls
      <3> HIDE DEF e
      <3>6. QED
        BY <3>2, <3>4, <3>5, TaskStepAlone, HadOther DEF IInv, NextLayer, codeVars, castVars
    <2>3. QED
      BY <2>1, <2>2
  <1>6. InitsInv'
    <2>1. tasks[k].tenant \in Tenants /\ Config[tasks[k].tenant] \subseteq Items
      BY <1>1, ModuleConstants DEF Load, Task
    <2>2. QED
      BY <2>1 DEF IInv, InitsInv, NextLayer
  <1>7. QED
    BY <1>5, <1>6, Unchanged DEF IInv, NextLayer, codeVars, castVars, catalogueVars
-----------------------------------------------------------------------------
(* The code *)

\* A task whose item others may cache by now.
LEMMA SharedMore ==
    ASSUME SourceInv, ManifestsInv, NEW sh2, NEW e, Load(e, floors, shared), shared \subseteq sh2
    PROVE  Load(e, floors, sh2)
  <1>1. \A i \in Items : floors[i] <= floors[i]
    BY ModuleConstants DEF SourceInv, Versions
  <1>2. floors \in [Items -> Versions]
    BY DEF SourceInv
  <1>3. e.pc \in {"import", "read"} /\ e.item \notin sh2 => e.item \notin shared
    OBVIOUS
  <1>4. QED
    BY <1>1, <1>2, <1>3, LoadKept

\* What serves a request: code of its item's name.
LEMMA ServeStep ==
    ASSUME SourceInv, ManifestsInv, LoadsInv, HadInv, NEW k \in Tasks, NEW module,
           module \in [of : Items \cup {None}, version : -1..MaxEdits],
           Serve(k, module), tasks[k].pc # "idle", tasks[k].kind \in Calls,
           tasks[k].item \notin shared /\ Key[tasks[k].item] \notin Relative => module.version >= floors[tasks[k].item],
           manifests[tasks[k].item] # "none", UNCHANGED <<floors, shared, seen, refused, manifests>>
    PROVE  LoadsInv' /\ HadInv'
  <1> DEFINE i == tasks[k].item
             x == i \in shared \/ Key[i] \in Relative
             g == IF Checked(k) THEN module.of ELSE None
             v == module.version
             e == [tasks[k] EXCEPT !.pc = "over", !.version = v, !.excused = x, !.got = g]
  <1>1. Load(tasks[k], floors, shared)
    BY DEF LoadsInv
  <1>2. i \in Items
    BY <1>1 DEF Load
  <1>3. x \in BOOLEAN /\ v \in -1..MaxEdits /\ g \in {None} \cup Items
    OBVIOUS
  <1>4. g # None => TRUE \in seen[i] \/ (tasks[k].kind = "init" /\ i \notin Adapters /\ i \in refused)
    BY <1>2 DEF ManifestsInv, Checked
  <1>5. tasks[k].tenant = Owner[i] /\ ~x => v >= floors[i]
    OBVIOUS
  <1>6. tasks' = [tasks EXCEPT ![k].pc = "over", ![k].version = v, ![k].excused = x, ![k].got = g]
    BY DEF Serve
  <1>7. floors \in [Items -> Versions]
    BY DEF SourceInv
  <1> HIDE DEF x, g, v
  <1>8. Load(e, floors, shared)
    BY <1>1, <1>3, <1>5, <1>7, ServedIsLoad
  <1>9. tasks' = [tasks EXCEPT ![k] = e]
    BY <1>6
  <1>10. Had(e, manifests) /\ Told(e, seen, refused)
    BY <1>1, <1>4 DEF Load, Task, Had, Told
  <1> HIDE DEF e
  <1>11. QED
    BY <1>8, <1>9, <1>10, TaskStepAlone, HadStep

\* The cache answers, or the code is imported.
LEMMA GetModuleStep ==
    ASSUME IInv, NEW k \in Tasks, GetModule(k)
    PROVE  IInv'
  <1> DEFINE item == tasks[k].item
             key == Key[item]
  <1>1. Load(tasks[k], floors, shared) /\ tasks[k].pc = "manifests" /\ tasks[k].kind \in Calls
    BY DEF IInv, LoadsInv, GetModule, Calls
  <1>2. item \in Items /\ key \in Keys
    BY <1>1 DEF Load, Keys
  <1>3. shared \subseteq shared' /\ shared' \subseteq Items
    BY <1>2 DEF GetModule, IInv, SourceInv
  <1>4. SourceInv' /\ CodeInv'
    BY <1>3 DEF IInv, SourceInv, CodeInv, GetModule
  <1>5. LoadsInv' /\ HadInv'
    <2>1. \A j \in Tasks : Load(tasks[j], floors, shared')
      BY <1>3, SharedMore DEF IInv, LoadsInv
    <2>2. UNCHANGED <<floors, seen, refused, manifests, validators>> /\ manifests[item] # "none"
      BY <1>1 DEF GetModule, castVars, IInv, HadInv, Had
    <2>3. CASE Over(k)
      <3> DEFINE e == [tasks[k] EXCEPT !.pc = "over"]
      <3>1. Load(e, floors, shared')
        BY <1>1, <2>1, OverIsLoad
      <3>2. tasks' = [tasks EXCEPT ![k] = e]
        BY <2>3 DEF Over
      <3>3. e.pc = "over" /\ e.got = None
        BY <1>1 DEF Load, Task
      <3> HIDE DEF e
      <3>4. QED
        BY <2>1, <2>2, <3>1, <3>2, <3>3, TaskStep, HadOther DEF IInv
    <2>4. CASE modules[key] # NoModule /\ Serve(k, modules[key])
      <3>1. modules[key] \in [of : Items \cup {None}, version : -1..MaxEdits] /\ HasCode(modules, key)
        BY <1>2, <2>4 DEF IInv, CodeInv
      <3>2. item \notin shared /\ key \notin Relative => modules[key].version >= floors[item]
        BY <1>2, <3>1 DEF IInv, CodeInv
      <3>3. shared' = shared
        BY <2>4 DEF GetModule
      <3>4. QED
        BY <1>1, <2>2, <2>4, <3>1, <3>2, <3>3, ServeStep DEF IInv
    <2>5. CASE modules[key] = NoModule /\ tasks' = [tasks EXCEPT ![k].pc = "import"]
      <3> DEFINE e == [tasks[k] EXCEPT !.pc = "import"]
      <3>1. tasks[k].tenant # Owner[item] => item \in shared'
        BY <2>5 DEF GetModule
      <3>2. Load(e, floors, shared')
        BY <1>1, <3>1, ImportIsLoad
      <3>3. tasks' = [tasks EXCEPT ![k] = e]
        BY <2>5
      <3>4. e.pc = "import" /\ e.item = item
        BY <1>1 DEF Load, Task
      <3> HIDE DEF e
      <3>5. manifests[e.item] # "none"
        BY <2>2, <3>4
      <3>6. Had(e, manifests) /\ Told(e, seen, refused)
        BY <3>4, <3>5, Zenon DEF Had, Told
      <3>7. QED
        BY <2>1, <2>2, <3>2, <3>3, <3>6, TaskStep, HadStep DEF IInv
    <2>6. QED
      BY <2>3, <2>4, <2>5 DEF GetModule
  <1>6. QED
    BY <1>4, <1>5, Unchanged DEF IInv, GetModule, catalogueVars, castVars

\* A tenant's own code is read as it is stored, that of others from the runtime's cache.
LEMMA ReadCodeStep ==
    ASSUME IInv, NEW k \in Tasks, ReadCode(k)
    PROVE  IInv'
  <1> DEFINE item == tasks[k].item
             v == IF imported[item] >= 0 /\ ~NoCache(k) THEN imported[item] ELSE stored[item].code
  <1>1. Load(tasks[k], floors, shared) /\ tasks[k].pc = "import"
    BY DEF IInv, LoadsInv, ReadCode
  <1>2. item \in Items
    BY <1>1 DEF Load
  <1>3. v \in -1..MaxEdits /\ v >= 0
    <2>1. imported[item] \in -1..MaxEdits /\ stored[item].code \in 0..MaxEdits
      BY <1>2 DEF IInv, SourceInv, Versions
    <2>2. QED
      BY <2>1, ModuleConstants
  <1>4. tasks[k].tenant = Owner[item] => v >= floors[item]
    <2>1. floors[item] <= stored[item].code /\ floors[item] \in 0..MaxEdits /\ stored[item].code \in 0..MaxEdits
      BY <1>2 DEF IInv, SourceInv, Versions
    <2>2. QED
      BY <2>1, ModuleConstants DEF NoCache
  <1>5. \/ /\ tasks' = [tasks EXCEPT ![k].pc = "read", ![k].version = v]
           /\ imported' = IF NoCache(k) THEN imported ELSE [imported EXCEPT ![item] = v]
        \/ Over(k) /\ UNCHANGED imported
    BY DEF ReadCode
  <1> HIDE DEF v
  <1>6. SourceInv'
    BY <1>3, <1>5 DEF IInv, SourceInv, ReadCode
  <1>7. LoadsInv' /\ HadInv'
    <2>1. CASE tasks' = [tasks EXCEPT ![k].pc = "read", ![k].version = v]
      <3> DEFINE e == [tasks[k] EXCEPT !.pc = "read", !.version = v]
      <3>1. Load(e, floors, shared)
        BY <1>1, <1>3, <1>4, ReadIsLoad
      <3>2. tasks' = [tasks EXCEPT ![k] = e]
        BY <2>1
      <3>3. Had(tasks[k], manifests)
        BY DEF IInv, HadInv
      <3>4. Had(e, manifests) /\ Told(e, seen, refused)
        BY <1>1, <3>3 DEF Load, Task, Had, Told
      <3> HIDE DEF e
      <3>5. QED
        BY <3>1, <3>2, <3>4, TaskStepAlone, HadStep DEF IInv, ReadCode, castVars
    <2>2. CASE Over(k)
      BY <1>1, <2>2, OverStep DEF IInv, ReadCode, castVars
    <2>3. QED
      BY <1>5, <2>1, <2>2
  <1>8. QED
    BY <1>6, <1>7, Unchanged DEF IInv, ReadCode, catalogueVars, castVars

\* What was read is cached and listed.
LEMMA KeepCodeStep ==
    ASSUME IInv, NEW k \in Tasks, KeepCode(k)
    PROVE  IInv'
  <1> DEFINE item == tasks[k].item
             key == Key[item]
             module == [of |-> item, version |-> tasks[k].version]
             under == ListedUnder(k)
  <1>1. Load(tasks[k], floors, shared) /\ tasks[k].pc = "read"
    BY DEF IInv, LoadsInv, KeepCode
  <1>2. item \in Items /\ key \in Keys /\ tasks[k].kind \in Calls /\ tasks[k].tenant \in Tenants
    BY <1>1 DEF Load, Keys, Task
  <1>3. module \in [of : Items \cup {None}, version : -1..MaxEdits] /\ module.version >= 0
    BY <1>1, <1>2 DEF Load, Task
  <1>4. key \notin Relative /\ item \notin shared => module.version >= floors[item]
    BY <1>1 DEF Load
  <1>5. LoadsInv' /\ HadInv'
    <2>1. manifests[item] # "none"
      BY <1>1, <1>2 DEF IInv, HadInv, Had
    <2>2. QED
      BY <1>1, <1>2, <1>3, <1>4, <2>1, ServeStep DEF IInv, KeepCode, castVars
  <1>6. CodeInv'
    <2>1. /\ under \in Tenants \X {"domain", "name"}
          /\ key \in Relative => under = <<tasks[k].tenant, "name">>
          /\ key \notin Relative => under = <<Owner[item], "domain">>
      BY <1>2, ModuleConstants DEF ListedUnder
    <2>2. modules' = [modules EXCEPT ![key] = module] /\ listed' = [listed EXCEPT ![under] = @ \cup {key}]
          /\ UNCHANGED <<floors, shared>>
      BY DEF KeepCode
    <2> HIDE DEF module, under
    <2>3. /\ modules' \in [Keys -> [of : Items \cup {None}, version : -1..MaxEdits]]
          /\ listed' \in [Tenants \X {"domain", "name"} -> SUBSET Keys]
      BY <1>2, <1>3, <2>1, <2>2 DEF IInv, CodeInv
    <2>4. modules'[key] = module /\ \A q \in Keys \ {key} : modules'[q] = modules[q]
      BY <1>2, <2>2 DEF IInv, CodeInv
    <2>5. /\ listed'[under] = listed[under] \cup {key}
          /\ \A d \in (Tenants \X {"domain", "name"}) \ {under} : listed'[d] = listed[d]
      BY <2>1, <2>2 DEF IInv, CodeInv
    <2>6. \A d \in Tenants \X {"domain", "name"} : \A q \in listed'[d] : HasCode(modules', q)
      <3> SUFFICES ASSUME NEW d \in Tenants \X {"domain", "name"}, NEW q \in listed'[d]
                   PROVE  HasCode(modules', q)
        OBVIOUS
      <3>1. q \in Keys
        BY <2>3
      <3>2. CASE q = key
        BY <1>3, <2>4, <3>2 DEF HasCode
      <3>3. CASE q # key
        <4>1. q \in listed[d]
          BY <2>5, <3>3
        <4>2. QED
          BY <2>4, <3>1, <3>3, <4>1 DEF HasCode, IInv, CodeInv
      <3>4. QED
        BY <3>2, <3>3
    <2>7. \A t \in Tenants : listed'[<<t, "name">>] \subseteq Relative
      BY <2>1, <2>5 DEF IInv, CodeInv
    <2>8. \A t \in Tenants : \A i \in Items : Key[i] \in listed'[<<t, "domain">>] =>
            Key[i] \notin Relative /\ Owner[i] = t
      <3> SUFFICES ASSUME NEW t \in Tenants, NEW i \in Items, Key[i] \in listed'[<<t, "domain">>]
                   PROVE  Key[i] \notin Relative /\ Owner[i] = t
        OBVIOUS
      <3>1. CASE Key[i] \in listed[<<t, "domain">>]
        BY <3>1 DEF IInv, CodeInv
      <3>2. CASE Key[i] \notin listed[<<t, "domain">>]
        <4>1. <<t, "domain">> = under /\ Key[i] = key
          BY <2>5, <3>2
        <4>2. key \notin Relative /\ Owner[item] = t
          BY <2>1, <4>1
        <4>3. i = item
          BY <1>2, <4>1, <4>2, ModuleConstants
        <4>4. QED
          BY <4>1, <4>2, <4>3
      <3>3. QED
        BY <3>1, <3>2
    <2>9. \A q \in Keys : HasCode(modules', q) \/ modules'[q] = NoModule
      BY <1>3, <2>4 DEF HasCode, IInv, CodeInv
    <2>10. ASSUME NEW i \in Items, Key[i] \notin Relative, HasCode(modules', Key[i])
           PROVE  /\ Key[i] \in listed'[<<Owner[i], "domain">>]
                  /\ i \notin shared => modules'[Key[i]].version >= floors[i]
      <3>1. CASE i = item
        BY <1>2, <1>4, <2>1, <2>4, <2>5, <2>10, <3>1
      <3>2. CASE i # item
        <4>1. Key[i] # key /\ Key[i] \in Keys
          BY <1>2, <2>10, <3>2, ModuleConstants DEF Keys
        <4>2. HasCode(modules, Key[i]) /\ modules'[Key[i]] = modules[Key[i]]
          BY <2>4, <2>10, <4>1 DEF HasCode
        <4>3. Key[i] \in listed[<<Owner[i], "domain">>] /\ (i \notin shared => modules[Key[i]].version >= floors[i])
          BY <2>10, <4>2 DEF IInv, CodeInv
        <4>4. <<Owner[i], "domain">> \in Tenants \X {"domain", "name"}
          BY ModuleConstants
        <4>5. QED
          BY <2>5, <4>2, <4>3, <4>4
      <3>3. QED
        BY <3>1, <3>2
    <2>11. QED
      BY <2>2, <2>3, <2>6, <2>7, <2>8, <2>9, <2>10 DEF CodeInv
  <1>7. QED
    BY <1>5, <1>6, Unchanged DEF IInv, KeepCode, catalogueVars, castVars

\* A purge drops what is listed under the tenant; what another load works on then is shared.
LEMMA RebuildStep ==
    ASSUME IInv, NEW k \in Tasks, NEW t \in Tenants, Rebuild(k, t)
    PROVE  IInv'
  <1> DEFINE D == <<t, "domain">>
  <1>1. /\ modules' = [key \in Keys |-> IF key \in listed[D] THEN NoModule ELSE modules[key]]
        /\ listed' = [listed EXCEPT ![D] = {}] /\ D \in Tenants \X {"domain", "name"}
    BY DEF Rebuild, Purged
  <1>2. /\ floors' = [i \in Items |-> IF Owner[i] = t THEN stored[i].code ELSE floors[i]]
        /\ shared' = {i \in Items : IF Owner[i] = t THEN Loading(i) ELSE i \in shared}
        /\ UNCHANGED <<stored, imported, seen, refused, manifests>>
    BY DEF Rebuild, Started
  <1>3. /\ \A key \in Keys : key \in listed[D] => modules'[key] = NoModule
        /\ \A key \in Keys : key \notin listed[D] => modules'[key] = modules[key]
        /\ listed'[D] = {} /\ \A d \in (Tenants \X {"domain", "name"}) \ {D} : listed'[d] = listed[d]
    BY <1>1 DEF IInv, CodeInv
  <1>4. SourceInv'
    <2>1. floors' \in [Items -> Versions] /\ \A i \in Items : floors'[i] <= stored[i].code
      <3>1. \A i \in Items : stored[i].code \in Versions /\ floors[i] \in Versions /\ floors[i] <= stored[i].code
        BY DEF IInv, SourceInv
      <3>2. QED
        BY <1>2, <3>1, ModuleConstants DEF Versions
    <2>2. QED
      BY <1>2, <2>1 DEF IInv, SourceInv
  <1>5. CodeInv'
    <2>1. NoModule \in [of : Items \cup {None}, version : -1..MaxEdits]
      <3>1. -1 \in -1..MaxEdits
        BY ModuleConstants
      <3>2. QED
        BY <3>1 DEF NoModule
    <2>2. modules' \in [Keys -> [of : Items \cup {None}, version : -1..MaxEdits]]
      BY <1>1, <2>1 DEF IInv, CodeInv
    <2>3. listed' \in [Tenants \X {"domain", "name"} -> SUBSET Keys]
      BY <1>1 DEF IInv, CodeInv
    <2>4. \A d \in Tenants \X {"domain", "name"} : \A key \in listed'[d] : HasCode(modules', key)
      <3> SUFFICES ASSUME NEW d \in Tenants \X {"domain", "name"}, NEW key \in listed'[d]
                   PROVE  HasCode(modules', key)
        OBVIOUS
      <3>1. d # D /\ key \in listed[d] /\ key \in Keys /\ HasCode(modules, key)
        BY <1>3 DEF IInv, CodeInv
      <3>2. key \notin listed[D]
        <4> SUFFICES ASSUME key \in listed[D] PROVE FALSE
          OBVIOUS
        <4>1. PICK i \in Items : key = Key[i]
          BY <3>1 DEF Keys
        <4>2. key \notin Relative /\ Owner[i] = t
          BY <4>1 DEF IInv, CodeInv
        <4>3. PICK u \in Tenants, kind \in {"domain", "name"} : d = <<u, kind>>
          OBVIOUS
        <4>4. CASE kind = "name"
          BY <3>1, <4>2, <4>3, <4>4 DEF IInv, CodeInv
        <4>5. CASE kind = "domain"
          BY <3>1, <4>1, <4>2, <4>3, <4>5 DEF IInv, CodeInv
        <4>6. QED
          BY <4>4, <4>5
      <3>3. QED
        BY <1>3, <3>1, <3>2 DEF HasCode
    <2>5. \A u \in Tenants : listed'[<<u, "name">>] \subseteq Relative
      <3>1. \A u \in Tenants : <<u, "name">> # D /\ <<u, "name">> \in Tenants \X {"domain", "name"}
        OBVIOUS
      <3>2. QED
        BY <1>3, <3>1 DEF IInv, CodeInv
    <2>6. \A u \in Tenants : \A i \in Items : Key[i] \in listed'[<<u, "domain">>] =>
            Key[i] \notin Relative /\ Owner[i] = u
      <3> SUFFICES ASSUME NEW u \in Tenants, NEW i \in Items, Key[i] \in listed'[<<u, "domain">>]
                   PROVE  Key[i] \notin Relative /\ Owner[i] = u
        OBVIOUS
      <3>1. Key[i] \in listed[<<u, "domain">>]
        BY <1>3
      <3>2. QED
        BY <3>1 DEF IInv, CodeInv
    <2>7. \A key \in Keys : HasCode(modules', key) \/ modules'[key] = NoModule
      BY <1>3 DEF IInv, CodeInv, HasCode
    <2>8. ASSUME NEW i \in Items, Key[i] \notin Relative, HasCode(modules', Key[i])
          PROVE  /\ Key[i] \in listed'[<<Owner[i], "domain">>]
                 /\ i \notin shared' => modules'[Key[i]].version >= floors'[i]
      <3>1. Key[i] \in Keys
        BY DEF Keys
      <3>2. Key[i] \notin listed[D]
        <4>1. NoModule.version = -1 /\ ~(-1 >= 0)
          BY DEF NoModule
        <4>2. QED
          BY <1>3, <2>8, <3>1, <4>1 DEF HasCode
      <3>3. modules'[Key[i]] = modules[Key[i]] /\ HasCode(modules, Key[i])
        BY <1>3, <2>8, <3>1, <3>2 DEF HasCode
      <3>4. Key[i] \in listed[<<Owner[i], "domain">>] /\ (i \notin shared => modules[Key[i]].version >= floors[i])
        BY <2>8, <3>3 DEF IInv, CodeInv
      <3>5. Owner[i] # t
        BY <3>2, <3>4
      <3>6. <<Owner[i], "domain">> \in (Tenants \X {"domain", "name"}) \ {D}
        BY <3>5, ModuleConstants
      <3>7. QED
        BY <1>2, <1>3, <3>3, <3>4, <3>5, <3>6
    <2>9. QED
      BY <2>2, <2>3, <2>4, <2>5, <2>6, <2>7, <2>8 DEF CodeInv
  <1>6. LoadsInv' /\ HadInv'
    <2>1. floors \in [Items -> Versions] /\ floors' \in [Items -> Versions]
      BY <1>4 DEF IInv, SourceInv
    <2>2. \A i \in Items : floors[i] <= floors'[i]
      <3>1. \A i \in Items : stored[i].code \in Versions /\ floors[i] \in Versions /\ floors[i] <= stored[i].code
        BY DEF IInv, SourceInv
      <3>2. QED
        BY <1>2, <3>1, ModuleConstants DEF Versions
    <2>3. ASSUME NEW j \in Tasks
          PROVE  Load(tasks[j], floors', shared')
      <3>1. Load(tasks[j], floors, shared)
        BY DEF IInv, LoadsInv
      <3>2. ASSUME tasks[j].pc \in {"import", "read"}, tasks[j].item \notin shared'
            PROVE  tasks[j].item \notin shared /\ floors'[tasks[j].item] = floors[tasks[j].item]
        <4>1. tasks[j].item \in Items
          BY <3>1, <3>2 DEF Load
        <4>2. Loading(tasks[j].item)
          BY <3>2 DEF Loading
        <4>3. Owner[tasks[j].item] # t
          BY <1>2, <3>2, <4>1, <4>2
        <4>4. QED
          BY <1>2, <3>2, <4>1, <4>3
      <3>3. QED
        BY <2>1, <2>2, <3>1, <3>2, LoadKept
    <2> DEFINE w == Layer(Config[t])
               e == [NoTask EXCEPT !.pc = "manifests", !.kind = "build", !.tenant = t, !.want = w, !.have = Config[t]]
               f == [NoTask EXCEPT !.pc = "manifests", !.kind = "build", !.tenant = t, !.item = None, !.want = w,
                                   !.have = Config[t], !.rest = {}, !.floor = 0]
    <2>4. w \in SUBSET Items /\ Config[t] \in SUBSET Items /\ 0 \in Versions
      BY LayerIsItems, ModuleConstants DEF Versions
    <2>5. tasks' = [tasks EXCEPT ![k] = e]
      BY DEF Rebuild, Started
    <2> HIDE DEF w
    <2>6. Load(f, floors', shared')
      BY <2>1, <2>4, StartedIsLoad DEF Calls
    <2>7. e = f
      BY NoTaskIsTask, EmptyTask DEF Task
    <2>8. e.kind \notin Calls
      BY DEF NoTask, Calls
    <2> HIDE DEF e, f
    <2>9. QED
      BY <1>2, <2>3, <2>5, <2>6, <2>7, <2>8, TaskStep, HadOther DEF IInv
  <1>7. CastInv'
    BY StartedCalls DEF IInv, Rebuild
  <1>8. QED
    BY <1>4, <1>5, <1>6, <1>7, Unchanged DEF IInv, Rebuild, Started, catalogueVars

-----------------------------------------------------------------------------
(* The stored manifests and the catalogue *)

\* An item that is always valid is so after the step only if it was before.
LEMMA AlwaysValidFalls ==
    ASSUME NEW d, NEW sn, NEW sn2, \A i \in Items : sn[i] # {} /\ sn[i] \subseteq sn2[i],
           UNION Stores[d] \subseteq Items
    PROVE  AlwaysValid(d, sn2) \subseteq AlwaysValid(d, sn)
  BY DEF AlwaysValid

LEMMA StoresOfItems ==
    ASSUME NEW d \in Tenants
    PROVE  Stores[d] \subseteq SUBSET Items /\ UNION Stores[d] \subseteq Items
  BY ModuleConstants

\* A manifest and its code are edited: what is cached stays, and may now be old.
LEMMA EditStep ==
    ASSUME IInv, NEW i \in Items, NEW valid \in BOOLEAN, Edit(i, valid)
    PROVE  IInv'
  <1> DEFINE n == stored[i].code + 1
  <1>1. stored' = [stored EXCEPT ![i] = [valid |-> valid, code |-> n]]
        /\ seen' = [seen EXCEPT ![i] = @ \cup {valid}]
    BY DEF Edit
  <1>2. n \in Versions /\ stored[i].code <= n
    <2>1. stored[i].code \in 0..MaxEdits /\ stored[i].code < MaxEdits
      BY DEF Edit, IInv, SourceInv, Versions
    <2>2. QED
      BY <2>1, ModuleConstants DEF Versions
  <1> HIDE DEF n
  <1>3. stored' \in [Items -> [valid : BOOLEAN, code : Versions]]
        /\ stored'[i] = [valid |-> valid, code |-> n] /\ \A j \in Items \ {i} : stored'[j] = stored[j]
    BY <1>1, <1>2 DEF IInv, SourceInv
  <1>4. seen' \in [Items -> SUBSET BOOLEAN] /\ seen'[i] = seen[i] \cup {valid}
        /\ \A j \in Items \ {i} : seen'[j] = seen[j]
    BY <1>1 DEF IInv, ManifestsInv
  <1>5. SourceInv'
    <2>1. floors[i] <= n
      <3>1. floors[i] <= stored[i].code /\ floors[i] \in 0..MaxEdits /\ stored[i].code \in 0..MaxEdits
            /\ n \in 0..MaxEdits
        BY <1>2 DEF IInv, SourceInv, Versions
      <3>2. QED
        BY <1>2, <3>1, ModuleConstants
    <2>2. \A j \in Items : floors[j] <= stored'[j].code
      BY <1>3, <2>1 DEF IInv, SourceInv
    <2>3. QED
      BY <1>3, <2>2 DEF IInv, SourceInv, Edit, codeVars, castVars
  <1>6. ManifestsInv'
    BY <1>3, <1>4 DEF IInv, ManifestsInv, Edit, codeVars, castVars
  <1>7. LoadsInv'
    <2>1. floors \in [Items -> Versions]
      BY DEF IInv, SourceInv
    <2>2. \A j \in Items : floors[j] <= floors[j]
      BY <1>4, <2>1, ModuleConstants DEF Versions
    <2>3. \A k \in Tasks : Load(tasks[k], floors, shared)
      BY <2>1, <2>2, LoadKept DEF IInv, LoadsInv
    <2>4. QED
      BY <2>3 DEF IInv, LoadsInv, Edit, codeVars, castVars
  <1>8. CatalogueInv'
    <2>1. \A d \in Tenants : AlwaysValid(d, seen') \subseteq AlwaysValid(d, seen)
      <3>1. \A j \in Items : seen[j] # {} /\ seen[j] \subseteq seen'[j]
        BY <1>4 DEF IInv, ManifestsInv
      <3>2. QED
        BY <3>1, AlwaysValidFalls, StoresOfItems
    <2>2. UNCHANGED <<maps, broken, catalogue, readers>>
      BY DEF Edit, catalogueVars
    <2>3. \A d \in Tenants : \A r \in Readers : Filling(readers[r], d, maps, seen) => Filling(readers[r], d, maps, seen')
      BY <2>1 DEF Filling
    <2>4. QED
      BY <2>1, <2>2, <2>3 DEF IInv, CatalogueInv
  <1>9. CodeInv' /\ CastInv' /\ InitsInv'
    BY Unchanged DEF IInv, Edit, codeVars, castVars
  <1>10. HadInv'
    <2>1. \A j \in Items : seen[j] \subseteq seen'[j]
      BY <1>4
    <2>2. \A k \in Tasks : tasks[k].kind \in Calls /\ tasks[k].pc # "idle" => tasks[k].item \in Items
      BY DEF IInv, LoadsInv, Load
    <2>3. \A k \in Tasks : Told(tasks[k], seen, refused) => Told(tasks[k], seen', refused)
      BY <2>1, <2>2 DEF Told
    <2>4. QED
      BY <2>3 DEF IInv, HadInv, Edit
  <1>11. QED
    BY <1>5, <1>6, <1>7, <1>8, <1>9, <1>10 DEF IInv

\* One reader takes a step.
LEMMA ReaderStep ==
    ASSUME CatalogueInv, NEW r \in Readers, NEW e \in Reader, e.todo \subseteq SUBSET Items,
           readers' = [readers EXCEPT ![r] = e]
    PROVE  /\ readers' \in [Readers -> Reader] /\ readers'[r] = e
           /\ \A q \in Readers \ {r} : readers'[q] = readers[q]
           /\ \A q \in Readers : readers'[q].todo \subseteq SUBSET Items
  <1>1. readers' \in [Readers -> Reader] /\ readers'[r] = e /\ \A q \in Readers \ {r} : readers'[q] = readers[q]
    BY DEF CatalogueInv
  <1>2. \A q \in Readers : readers'[q].todo \subseteq SUBSET Items
    BY <1>1 DEF CatalogueInv
  <1>3. QED
    BY <1>1, <1>2

LEMMA EnsureStep ==
    ASSUME IInv, NEW r \in Readers, NEW d \in Tenants, Ensure(r, d)
    PROVE  IInv'
  <1> DEFINE e == [pc |-> "list", domain |-> d, todo |-> {}]
  <1>1. e \in Reader /\ e.todo \subseteq SUBSET Items /\ e.pc = "list"
    BY DEF Reader
  <1>2. readers' = [readers EXCEPT ![r] = e] /\ UNCHANGED <<maps, broken, catalogue, seen>>
        /\ readers[r].pc \notin {"stores", "list"}
    BY DEF Ensure, castVars
  <1> HIDE DEF e
  <1>3. /\ readers' \in [Readers -> Reader] /\ readers'[r] = e
        /\ \A q \in Readers \ {r} : readers'[q] = readers[q]
        /\ \A q \in Readers : readers'[q].todo \subseteq SUBSET Items
    BY <1>1, <1>2, ReaderStep DEF IInv
  <1>4. \A q \in Readers : readers'[q].pc = "stores" => readers'[q] = readers[q]
    BY <1>1, <1>3
  <1>5. \A q \in Readers : readers[q].pc \in {"stores", "list"} => readers'[q] = readers[q]
    BY <1>2, <1>3
  <1>6. CatalogueInv'
    BY <1>2, <1>3, <1>4, <1>5 DEF IInv, CatalogueInv, Filling, Busy
  <1>7. QED
    BY <1>6, Unchanged DEF IInv, Ensure, codeVars, castVars

\* The reader that fails leaves its domain broken; those of other domains go on.
LEMMA LoadFailsStep ==
    ASSUME IInv, NEW r \in Readers, LoadFails(r)
    PROVE  IInv'
  <1> DEFINE e == [readers[r] EXCEPT !.pc = "over"]
             d == readers[r].domain
  <1>1. e \in Reader /\ e.todo \subseteq SUBSET Items /\ e.pc = "over" /\ d \in Tenants
    BY DEF Reader, IInv, CatalogueInv
  <1>2. readers' = [readers EXCEPT ![r] = e] /\ UNCHANGED <<catalogue, seen>> /\ broken' = broken \cup {d}
    BY DEF LoadFails, ReaderAt, Broken, castVars
  <1> HIDE DEF e
  <1>3. /\ readers' \in [Readers -> Reader] /\ readers'[r] = e
        /\ \A q \in Readers \ {r} : readers'[q] = readers[q]
        /\ \A q \in Readers : readers'[q].todo \subseteq SUBSET Items
    BY <1>1, <1>2, ReaderStep DEF IInv
  <1>4. \A c \in Tenants \ broken' : \A q \in Readers : readers[q].domain = c => readers'[q] = readers[q]
    BY <1>2, <1>3
  <1>5. \A q \in Readers : readers'[q].pc = "stores" => readers'[q] = readers[q]
    BY <1>1, <1>3
  <1>6. maps' \in [Tenants -> SUBSET Items] /\ \A c \in Tenants \ broken' : maps'[c] = maps[c]
    BY <1>1, <1>2 DEF LoadFails, Emptied, IInv, CatalogueInv
  <1>7. CatalogueInv'
    <2>1. ASSUME NEW c \in Tenants \ broken',
                 catalogue[c].known \/ (\E q \in Readers : readers'[q].pc = "stores" /\ readers'[q].domain = c)
          PROVE  \/ AlwaysValid(c, seen) \subseteq maps'[c]
                 \/ \E q \in Readers : Filling(readers'[q], c, maps', seen)
      <3>1. catalogue[c].known \/ (\E q \in Readers : readers[q].pc = "stores" /\ readers[q].domain = c)
        BY <1>5, <2>1
      <3>2. AlwaysValid(c, seen) \subseteq maps[c] \/ \E q \in Readers : Filling(readers[q], c, maps, seen)
        BY <1>2, <3>1 DEF IInv, CatalogueInv
      <3>3. maps'[c] = maps[c]
        BY <1>6
      <3>4. \A q \in Readers : Filling(readers[q], c, maps, seen) => Filling(readers'[q], c, maps', seen)
        BY <1>4, <3>3 DEF Filling
      <3>5. QED
        BY <3>2, <3>3, <3>4
    <2>2. ASSUME NEW c \in Tenants \ broken', catalogue[c].known
          PROVE  \/ AlwaysValid(c, seen) \subseteq catalogue[c].items
                 \/ \E q \in Readers : Busy(readers'[q], c)
      <3>1. AlwaysValid(c, seen) \subseteq catalogue[c].items \/ \E q \in Readers : Busy(readers[q], c)
        BY <1>2, <2>2 DEF IInv, CatalogueInv
      <3>2. QED
        BY <1>4, <3>1 DEF Busy
    <2>3. broken' \subseteq Tenants /\ catalogue \in [Tenants -> [known : BOOLEAN, items : SUBSET Items]]
      BY <1>1, <1>2 DEF IInv, CatalogueInv
    <2>4. QED
      BY <1>2, <1>3, <1>6, <2>1, <2>2, <2>3, ZenonT(30) DEF CatalogueInv
  <1>8. QED
    BY <1>7, Unchanged DEF IInv, LoadFails, codeVars, castVars

\* The reader that empties the map has everything still to do, or leaves its domain broken.
LEMMA ListStoresStep ==
    ASSUME IInv, NEW r \in Readers, NEW ok \in BOOLEAN, ListStores(r, ok)
    PROVE  IInv'
  <1> DEFINE d == readers[r].domain
             s == IF ok THEN Stores[d] ELSE {}
             e == [readers[r] EXCEPT !.pc = "stores", !.todo = s]
  <1>1. readers[r] \in Reader /\ d \in Tenants
    BY DEF Reader, IInv, CatalogueInv
  <1>2. s \in SUBSET UNION {Stores[t] : t \in Tenants} /\ s \subseteq SUBSET Items
    BY <1>1, StoresOfItems
  <1>3. readers' = [readers EXCEPT ![r].pc = "stores", ![r].todo = s] /\ maps' = [maps EXCEPT ![d] = {}]
        /\ UNCHANGED <<catalogue, seen>> /\ readers[r].pc = "list"
        /\ broken' = IF ok THEN broken ELSE broken \cup {d}
    BY DEF ListStores, Emptied, Broken, castVars
  <1>4. \A c \in Tenants : AlwaysValid(c, seen) \ UNION Stores[c] = {}
    BY DEF AlwaysValid
  <1>5. ok => AlwaysValid(d, seen) \ UNION s = {}
    BY <1>1, <1>4
  <1> HIDE DEF s
  <1>6. e \in Reader /\ e.todo = s /\ e.pc = "stores" /\ e.domain = d
    BY <1>1, <1>2 DEF Reader
  <1>7. readers' = [readers EXCEPT ![r] = e]
    BY <1>3
  <1> HIDE DEF e
  <1>8. /\ readers' \in [Readers -> Reader] /\ readers'[r] = e
        /\ \A q \in Readers \ {r} : readers'[q] = readers[q]
        /\ \A q \in Readers : readers'[q].todo \subseteq SUBSET Items
    BY <1>2, <1>6, <1>7, ReaderStep DEF IInv
  <1>9. maps' \in [Tenants -> SUBSET Items] /\ \A c \in Tenants \ {d} : maps'[c] = maps[c]
    BY <1>1, <1>3 DEF IInv, CatalogueInv
  <1>10. ok => Filling(readers'[r], d, maps', seen)
    BY <1>5, <1>6, <1>8 DEF Filling
  <1>11. ASSUME NEW c \in Tenants \ broken',
                catalogue[c].known \/ (\E q \in Readers : readers'[q].pc = "stores" /\ readers'[q].domain = c)
         PROVE  \/ AlwaysValid(c, seen) \subseteq maps'[c]
                \/ \E q \in Readers : Filling(readers'[q], c, maps', seen)
    <2>1. CASE c = d
      BY <1>1, <1>3, <1>10, <2>1
    <2>2. CASE c # d
      <3>1. catalogue[c].known \/ (\E q \in Readers : readers[q].pc = "stores" /\ readers[q].domain = c)
        BY <1>6, <1>8, <1>11, <2>2
      <3>2. AlwaysValid(c, seen) \subseteq maps[c] \/ \E q \in Readers : Filling(readers[q], c, maps, seen)
        BY <1>3, <3>1 DEF IInv, CatalogueInv
      <3>3. maps'[c] = maps[c]
        BY <1>9, <2>2
      <3>4. \A q \in Readers : Filling(readers[q], c, maps, seen) => readers'[q] = readers[q]
        BY <1>8, <2>2 DEF Filling
      <3>5. \A q \in Readers : Filling(readers[q], c, maps, seen) => Filling(readers'[q], c, maps', seen)
        BY <3>3, <3>4 DEF Filling
      <3>6. QED
        BY <3>2, <3>3, <3>5
    <2>3. QED
      BY <2>1, <2>2
  <1>12. ASSUME NEW c \in Tenants, NEW q \in Readers, Busy(readers[q], c)
         PROVE  Busy(readers'[q], c)
    BY <1>6, <1>8, <1>12 DEF Busy
  <1>13. CatalogueInv'
    <2>1. ASSUME NEW c \in Tenants \ broken', catalogue[c].known
          PROVE  \/ AlwaysValid(c, seen) \subseteq catalogue[c].items
                 \/ \E q \in Readers : Busy(readers'[q], c)
      <3>1. AlwaysValid(c, seen) \subseteq catalogue[c].items \/ \E q \in Readers : Busy(readers[q], c)
        BY <1>3, <2>1 DEF IInv, CatalogueInv
      <3>2. QED
        BY <1>12, <3>1
    <2>2. broken' \subseteq Tenants /\ catalogue \in [Tenants -> [known : BOOLEAN, items : SUBSET Items]]
      BY <1>1, <1>3 DEF IInv, CatalogueInv
    <2>3. QED
      BY <1>3, <1>8, <1>9, <1>11, <2>1, <2>2, ZenonT(30) DEF CatalogueInv
  <1>14. QED
    BY <1>13, Unchanged DEF IInv, ListStores, codeVars, castVars

\* A store is loaded: all of it that is always valid is entered.
LEMMA LoadStoreStep ==
    ASSUME IInv, NEW r \in Readers, NEW store \in readers[r].todo, NEW ok \in BOOLEAN,
           LoadStore(r, store, ok)
    PROVE  IInv'
  <1> DEFINE d == readers[r].domain
             good == {i \in store : ok /\ stored[i].valid}
             left == readers[r].todo \ {store}
             e == [readers[r] EXCEPT !.todo = left]
  <1>1. readers[r] \in Reader /\ d \in Tenants /\ store \subseteq Items
    BY DEF Reader, IInv, CatalogueInv
  <1>2. good \subseteq Items
    BY <1>1
  <1>3. /\ manifests' = [i \in Items |-> IF i \in good THEN "good" ELSE manifests[i]]
        /\ validators' = validators \cup good
        /\ maps' = [maps EXCEPT ![d] = maps[d] \cup good]
        /\ readers' = [readers EXCEPT ![r].todo = left] /\ readers[r].pc = "stores"
        /\ UNCHANGED <<catalogue, seen, refused, stored, tasks>>
        /\ broken' = IF ok THEN broken ELSE broken \cup {d}
    BY DEF LoadStore, Entered, Broken, castVars
  <1>4. \A i \in good : stored[i].valid = TRUE
    BY <1>2 DEF IInv, SourceInv
  <1>5. ok => \A i \in AlwaysValid(d, seen) \cap store : i \in good
    BY <1>1 DEF AlwaysValid, IInv, ManifestsInv
  <1>6. left \in SUBSET UNION {Stores[t] : t \in Tenants} /\ left \subseteq SUBSET Items
    BY DEF IInv, CatalogueInv, Reader
  <1>7. ManifestsInv'
    <2>1. manifests' \in [Items -> {"none", "good", "bad"}]
      BY <1>3 DEF IInv, ManifestsInv
    <2>2. \A i \in validators' : TRUE \in seen[i]
      BY <1>2, <1>3, <1>4 DEF IInv, ManifestsInv
    <2>3. \A i \in Items : (manifests'[i] = "good" => TRUE \in seen[i]) /\ (manifests'[i] = "bad" => i \in refused)
      BY <1>2, <1>3, <1>4 DEF IInv, ManifestsInv
    <2>4. QED
      BY <1>2, <1>3, <2>1, <2>2, <2>3 DEF IInv, ManifestsInv
  <1>8. ok => AlwaysValid(d, seen) \ UNION left \subseteq (AlwaysValid(d, seen) \ UNION readers[r].todo) \cup good
    BY <1>5
  <1> HIDE DEF good, left
  <1>9. e \in Reader /\ e.todo = left /\ e.pc = "stores" /\ e.domain = d
    BY <1>1, <1>3, <1>6 DEF Reader
  <1>10. readers' = [readers EXCEPT ![r] = e]
    BY <1>3
  <1> HIDE DEF e
  <1>11. /\ readers' \in [Readers -> Reader] /\ readers'[r] = e
         /\ \A q \in Readers \ {r} : readers'[q] = readers[q]
         /\ \A q \in Readers : readers'[q].todo \subseteq SUBSET Items
    BY <1>6, <1>9, <1>10, ReaderStep DEF IInv
  <1>12. maps' \in [Tenants -> SUBSET Items] /\ maps'[d] = maps[d] \cup good
         /\ \A c \in Tenants : maps[c] \subseteq maps'[c]
    BY <1>1, <1>2, <1>3 DEF IInv, CatalogueInv
  <1>13. ASSUME NEW c \in Tenants \ broken', NEW q \in Readers, Filling(readers[q], c, maps, seen)
         PROVE  Filling(readers'[q], c, maps', seen)
    <2>1. CASE q = r
      <3>1. c = d
        BY <1>13, <2>1 DEF Filling
      <3>2. AlwaysValid(d, seen) \ UNION readers[r].todo \subseteq maps[d]
        BY <1>13, <2>1, <3>1 DEF Filling
      <3>3. AlwaysValid(d, seen) \ UNION left \subseteq maps'[d]
        BY <1>1, <1>3, <1>8, <1>12, <1>13, <3>1, <3>2
      <3>4. QED
        BY <1>9, <1>11, <2>1, <3>1, <3>3 DEF Filling
    <2>2. CASE q # r
      BY <1>11, <1>12, <1>13, <2>2 DEF Filling
    <2>3. QED
      BY <2>1, <2>2
  <1>14. \A c \in Tenants : \A q \in Readers :
           /\ readers'[q].pc = readers[q].pc /\ readers'[q].domain = readers[q].domain
           /\ Busy(readers[q], c) => Busy(readers'[q], c)
    BY <1>3, <1>9, <1>11 DEF Busy
  <1>15. CatalogueInv'
    <2>1. ASSUME NEW c \in Tenants \ broken',
                 catalogue[c].known \/ (\E q \in Readers : readers'[q].pc = "stores" /\ readers'[q].domain = c)
          PROVE  \/ AlwaysValid(c, seen) \subseteq maps'[c]
                 \/ \E q \in Readers : Filling(readers'[q], c, maps', seen)
      <3>1. catalogue[c].known \/ (\E q \in Readers : readers[q].pc = "stores" /\ readers[q].domain = c)
        BY <1>14, <2>1
      <3>2. AlwaysValid(c, seen) \subseteq maps[c] \/ \E q \in Readers : Filling(readers[q], c, maps, seen)
        BY <1>3, <3>1 DEF IInv, CatalogueInv
      <3>3. QED
        BY <1>12, <1>13, <3>2
    <2>2. ASSUME NEW c \in Tenants \ broken', catalogue[c].known
          PROVE  \/ AlwaysValid(c, seen) \subseteq catalogue[c].items
                 \/ \E q \in Readers : Busy(readers'[q], c)
      <3>1. AlwaysValid(c, seen) \subseteq catalogue[c].items \/ \E q \in Readers : Busy(readers[q], c)
        BY <1>3, <2>2 DEF IInv, CatalogueInv
      <3>2. QED
        BY <1>14, <3>1
    <2>3. broken' \subseteq Tenants /\ catalogue \in [Tenants -> [known : BOOLEAN, items : SUBSET Items]]
      BY <1>1, <1>3 DEF IInv, CatalogueInv
    <2>4. QED
      BY <1>3, <1>11, <1>12, <2>1, <2>2, <2>3, ZenonT(30) DEF CatalogueInv
  <1>16. LoadsInv' /\ SourceInv' /\ CodeInv' /\ CastInv' /\ InitsInv'
    BY Unchanged DEF IInv, LoadStore, castVars
  <1>17. HadInv'
    <2>1. \A i \in Items : manifests[i] # "none" => manifests'[i] # "none"
      BY <1>3
    <2>2. \A k \in Tasks : tasks[k].kind \in Calls /\ tasks[k].pc # "idle" => tasks[k].item \in Items
      BY DEF IInv, LoadsInv, Load
    <2>3. \A k \in Tasks : Had(tasks[k], manifests) => Had(tasks[k], manifests')
      BY <2>1, <2>2 DEF Had
    <2>4. QED
      BY <1>3, <2>3 DEF IInv, HadInv
  <1>18. QED
    BY <1>7, <1>15, <1>16, <1>17 DEF IInv

\* The catalogue is what the maps hold: all of it, or another reader is still at work.
LEMMA KeepCatalogueStep ==
    ASSUME IInv, NEW r \in Readers, KeepCatalogue(r)
    PROVE  IInv'
  <1> DEFINE d == readers[r].domain
             e == [readers[r] EXCEPT !.pc = "over"]
             got == [known |-> TRUE, items |-> maps[d]]
  <1>1. readers[r] \in Reader /\ d \in Tenants /\ readers[r].todo = {} /\ readers[r].pc = "stores"
    BY DEF Reader, IInv, CatalogueInv, KeepCatalogue
  <1>2. e \in Reader /\ e.todo \subseteq SUBSET Items /\ e.pc = "over" /\ e.domain = d
    BY <1>1 DEF Reader
  <1>3. readers' = [readers EXCEPT ![r] = e] /\ catalogue' = [catalogue EXCEPT ![d] = got]
        /\ UNCHANGED <<maps, broken, seen>>
    BY DEF KeepCatalogue, ReaderAt, castVars
  <1>4. got \in [known : BOOLEAN, items : SUBSET Items] /\ got.items = maps[d]
    BY <1>1 DEF IInv, CatalogueInv
  <1> HIDE DEF e, got
  <1>5. /\ readers' \in [Readers -> Reader] /\ readers'[r] = e
        /\ \A q \in Readers \ {r} : readers'[q] = readers[q]
        /\ \A q \in Readers : readers'[q].todo \subseteq SUBSET Items
    BY <1>2, <1>3, ReaderStep DEF IInv
  <1>6. /\ catalogue' \in [Tenants -> [known : BOOLEAN, items : SUBSET Items]]
        /\ catalogue'[d] = got /\ \A c \in Tenants \ {d} : catalogue'[c] = catalogue[c]
    BY <1>1, <1>3, <1>4 DEF IInv, CatalogueInv
  <1>7. \A c \in Tenants \ {d} : \A q \in Readers : readers[q].domain = c => readers'[q] = readers[q]
    BY <1>5
  <1>8. \A q \in Readers : readers'[q].pc = "stores" => readers'[q] = readers[q]
    BY <1>2, <1>5
  <1>9. ASSUME d \notin broken
        PROVE  \/ AlwaysValid(d, seen) \subseteq maps[d]
               \/ \E q \in Readers : Filling(readers'[q], d, maps, seen) /\ Busy(readers'[q], d)
    <2>1. AlwaysValid(d, seen) \subseteq maps[d] \/ \E q \in Readers : Filling(readers[q], d, maps, seen)
      BY <1>1, <1>9 DEF IInv, CatalogueInv
    <2>2. Filling(readers[r], d, maps, seen) => AlwaysValid(d, seen) \subseteq maps[d]
      BY <1>1 DEF Filling
    <2>3. \A q \in Readers \ {r} : Filling(readers[q], d, maps, seen) =>
            Filling(readers'[q], d, maps, seen) /\ Busy(readers'[q], d)
      BY <1>5 DEF Filling, Busy
    <2>4. QED
      BY <2>1, <2>2, <2>3
  <1>10. \A c \in Tenants \ broken :
           catalogue'[c].known \/ (\E q \in Readers : readers'[q].pc = "stores" /\ readers'[q].domain = c) =>
             \/ AlwaysValid(c, seen) \subseteq maps[c]
             \/ \E q \in Readers : Filling(readers'[q], c, maps, seen)
    <2> SUFFICES ASSUME NEW c \in Tenants \ broken,
                        catalogue'[c].known \/ (\E q \in Readers : readers'[q].pc = "stores" /\ readers'[q].domain = c)
                 PROVE  \/ AlwaysValid(c, seen) \subseteq maps[c]
                        \/ \E q \in Readers : Filling(readers'[q], c, maps, seen)
      OBVIOUS
    <2>1. CASE c = d
      BY <1>9, <2>1
    <2>2. CASE c # d
      <3>1. catalogue[c].known \/ (\E q \in Readers : readers[q].pc = "stores" /\ readers[q].domain = c)
        BY <1>6, <1>8, <2>2
      <3>2. AlwaysValid(c, seen) \subseteq maps[c] \/ \E q \in Readers : Filling(readers[q], c, maps, seen)
        BY <3>1 DEF IInv, CatalogueInv
      <3>3. \A q \in Readers : Filling(readers[q], c, maps, seen) => readers'[q] = readers[q]
        BY <1>7, <2>2 DEF Filling
      <3>4. QED
        BY <3>2, <3>3
    <2>3. QED
      BY <2>1, <2>2
  <1>11. \A c \in Tenants \ broken :
           catalogue'[c].known =>
             \/ AlwaysValid(c, seen) \subseteq catalogue'[c].items
             \/ \E q \in Readers : Busy(readers'[q], c)
    <2> SUFFICES ASSUME NEW c \in Tenants \ broken, catalogue'[c].known
                 PROVE  \/ AlwaysValid(c, seen) \subseteq catalogue'[c].items
                        \/ \E q \in Readers : Busy(readers'[q], c)
      OBVIOUS
    <2>1. CASE c = d
      BY <1>4, <1>6, <1>9, <2>1
    <2>2. CASE c # d
      <3>1. AlwaysValid(c, seen) \subseteq catalogue[c].items \/ \E q \in Readers : Busy(readers[q], c)
        BY <1>6, <2>2 DEF IInv, CatalogueInv
      <3>2. \A q \in Readers : Busy(readers[q], c) => readers'[q] = readers[q]
        BY <1>7, <2>2 DEF Busy
      <3>3. QED
        BY <1>6, <2>2, <3>1, <3>2
    <2>3. QED
      BY <2>1, <2>2
  <1>12. CatalogueInv'
    BY <1>3, <1>5, <1>6, <1>10, <1>11 DEF IInv, CatalogueInv
  <1>13. QED
    BY <1>12, Unchanged DEF IInv, KeepCatalogue, codeVars, castVars
-----------------------------------------------------------------------------
(* The invariant *)

LEMMA InvInit ==
    Init => IInv
  <1> SUFFICES ASSUME Init PROVE IInv
    OBVIOUS
  <1>1. 0 \in Versions /\ -1 \in -1..MaxEdits /\ 0 \in 0..MaxCalls
    BY ModuleConstants DEF Versions
  <1>2. PICK bad \in SUBSET cast.edits : stored = [i \in Items |-> [valid |-> i \notin bad, code |-> 0]]
    BY DEF Init
  <1>3. SourceInv
    BY <1>1, <1>2 DEF Init, SourceInv
  <1>4. ManifestsInv
    BY <1>2 DEF Init, ManifestsInv
  <1>5. CodeInv
    <2>1. NoModule \in [of : Items \cup {None}, version : -1..MaxEdits]
      BY <1>1 DEF NoModule
    <2>2. ~(NoModule.version >= 0)
      BY DEF NoModule
    <2>3. modules = [key \in Keys |-> NoModule] /\ listed = [d \in Tenants \X {"domain", "name"} |-> {}]
      BY DEF Init
    <2>4. \A key \in Keys : modules[key] = NoModule /\ ~HasCode(modules, key)
      BY <2>2, <2>3 DEF HasCode
    <2>5. \A i \in Items : Key[i] \in Keys
      BY DEF Keys
    <2>6. \A d \in Tenants \X {"domain", "name"} : listed[d] = {}
      BY <2>3
    <2>7. \A t \in Tenants : listed[<<t, "name">>] = {} /\ listed[<<t, "domain">>] = {}
      BY <2>6
    <2>8. modules \in [Keys -> [of : Items \cup {None}, version : -1..MaxEdits]]
          /\ listed \in [Tenants \X {"domain", "name"} -> SUBSET Keys]
      BY <2>1, <2>3
    <2>9. QED
      BY <2>4, <2>5, <2>6, <2>7, <2>8 DEF CodeInv
  <1>6. LoadsInv
    <2>1. Load(NoTask, floors, shared)
      BY NoTaskIsTask, EmptyTask DEF Load
    <2>2. QED
      BY <2>1 DEF Init, LoadsInv
  <1>7. CatalogueInv
    <2> DEFINE idle == [pc |-> "idle", domain |-> NoTask.tenant, todo |-> {}]
    <2>1. idle \in Reader /\ idle.todo = {} /\ idle.pc = "idle"
      BY NoTaskIsTask DEF Reader
    <2>2. readers = [r \in Readers |-> idle]
      BY DEF Init
    <2> HIDE DEF idle
    <2>3. readers \in [Readers -> Reader] /\ \A r \in Readers : readers[r].pc = "idle" /\ readers[r].todo = {}
      BY <2>1, <2>2
    <2>4. QED
      BY <2>3 DEF Init, CatalogueInv
  <1>8. CastInv
    BY <1>1 DEF Init, CastInv
  <1>9. InitsInv
    BY DEF Init, InitsInv
  <1>10. HadInv
    <2>1. Had(NoTask, manifests) /\ Told(NoTask, seen, refused)
      BY EmptyTask DEF Had, Told
    <2>2. QED
      BY <2>1 DEF Init, HadInv
  <1>11. QED
    BY <1>3, <1>4, <1>5, <1>6, <1>7, <1>8, <1>9, <1>10 DEF IInv

LEMMA InvNext ==
    IInv /\ [Next]_moduleVars => IInv'
  <1> SUFFICES ASSUME IInv, [Next]_moduleVars PROVE IInv'
    OBVIOUS
  <1>1. CASE UNCHANGED moduleVars
    BY <1>1, Unchanged DEF IInv, moduleVars, codeVars, castVars, catalogueVars
  <1>2. CASE Next
    BY <1>2, EditStep, RefusedStep, NextLayerStep, GetModuleStep, ReadCodeStep, KeepCodeStep, ManifestStep,
       NextOfReportStep, RebuildStep, ReportStep, RequestStep, InitialiseStep, ListStoresStep, KeepCatalogueStep, LoadFailsStep,
       EnsureStep, LoadStoreStep DEF Next
  <1>3. QED
    BY <1>1, <1>2

LEMMA InvHolds ==
    Spec => []IInv
  BY InvInit, InvNext, PTL DEF Spec
-----------------------------------------------------------------------------
(* Theorems *)

\* What the caches of Modules.ts hold is of its type, and every name that is listed has code.
THEOREM ModuleCacheType ==
    Spec => []TypeOK
  <1>1. IInv => TypeOK
    <2> SUFFICES ASSUME IInv PROVE TypeOK
      OBVIOUS
    <2>1. tasks \in [Tasks -> Task]
      BY DEF IInv, LoadsInv, Load
    <2>2. DOMAIN listed = Tenants \X {"domain", "name"}
      BY DEF IInv, CodeInv
    <2>3. \A d \in DOMAIN listed : \A key \in listed[d] : modules[key].version >= 0
      BY <2>2 DEF IInv, CodeInv, HasCode
    <2>4. QED
      BY <2>1, <2>3 DEF IInv, SourceInv, ManifestsInv, CodeInv, CatalogueInv, CastInv, InitsInv, TypeOK
  <1>2. QED
    BY <1>1, InvHolds, PTL

\* getServiceManifest caches a manifest before it validates it; without a validator of its
\* configuration the service is still sent no message.  initService looks at no validator: a
\* service that never was valid is initialised, but only after its manifest was refused to another.
THEOREM NeverValidIsNotServed ==
    Spec => []NeverValidNeverServed
  <1>1. IInv => NeverValidNeverServed
    BY DEF IInv, HadInv, Told, Calls, NeverValidNeverServed, Served
  <1>2. QED
    BY <1>1, InvHolds, PTL

\* purgeTenantModules and $no-cache give a tenant its own code as it was stored at the rebuild
\* or later, whatever order the purge and the loads come in.
THEOREM RebuildReloads ==
    Spec => []ReloadedUnlessShared
  <1>1. IInv => ReloadedUnlessShared
    BY DEF IInv, LoadsInv, Load, Calls, ReloadedUnlessShared, Served
  <1>2. QED
    BY <1>1, InvHolds, PTL

\* However many calls of ensureAllManifests empty and fill the maps of a domain at once, the
\* last of them leaves a catalogue that is complete.
THEOREM CataloguesAreComplete ==
    Spec => []CatalogueIsComplete
  <1>1. IInv => CatalogueIsComplete
    <2> SUFFICES ASSUME IInv, NEW d \in Tenants, catalogue[d].known, d \notin broken,
                        \A r \in Readers : readers[r].domain = d => readers[r].pc \in {"idle", "over"}
                 PROVE  {i \in UNION Stores[d] : seen[i] = {TRUE}} \subseteq catalogue[d].items
      BY DEF CatalogueIsComplete
    <2>1. ~\E r \in Readers : Busy(readers[r], d)
      BY DEF Busy
    <2>2. AlwaysValid(d, seen) \subseteq catalogue[d].items
      BY <2>1 DEF IInv, CatalogueInv
    <2>3. QED
      BY <2>2 DEF AlwaysValid
  <1>2. QED
    BY <1>1, InvHolds, PTL
=============================================================================
