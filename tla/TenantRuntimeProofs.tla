------------------------ MODULE TenantRuntimeProofs ------------------------
(***************************************************************************)
(* Proofs about TenantRuntime: its type, and its safety properties, for    *)
(* any rebuilds, requests and services.                                    *)
(*                                                                         *)
(* The argument rests on who may make the state of a service.  A request   *)
(* is routed to a tenant only once that tenant serves (RequestsInv), and   *)
(* then the states its initialisers make are all there (BuiltInv): so an   *)
(* initialiser's state is made by its initialiser alone, and never         *)
(* replaced (InitialisersInv).  Emptying and serving only ever go one way, *)
(* which is what the rest needs.                                           *)
(***************************************************************************)
EXTENDS TenantRuntime, TLAPS

\* The tenant answers requests, or did.
Served(t) == t = First \/ (t \in Rebuilds /\ rebuilds[t].pc = "done")

\* A configuration has been put for every rebuild that began.
RawInv ==
    /\ raw[First] \in Config
    /\ \A r \in Rebuilds : rebuilds[r].pc # "idle" => raw[r] \in Config

\* A request's tenant serves, and a request makes no state that initialisers make.
RequestInv(q) ==
    /\ calls[q].pc # "idle" => /\ calls[q].tenant \in Tenants /\ Served(calls[q].tenant)
                               /\ calls[q].service \in raw[calls[q].tenant].services
    /\ calls[q].service \in Eager => calls[q].pc \in {"called", "done"} /\ ~calls[q].made
    /\ calls[q].pc \in {"idle", "called", "adapter"} => ~calls[q].made

RequestsInv == \A q \in Requests : RequestInv(q)

\* How far an initialiser's call has come shows in its tenant's map.
InitialiserInv(t, s) ==
    /\ calls[<<t, s>>].pc # "idle" =>
         /\ calls[<<t, s>>].tenant = t /\ calls[<<t, s>>].service = s
         /\ t = First \/ (rebuilds[t].pc \notin {"idle", "manifests"} /\ s \in raw[t].services)
    /\ calls[<<t, s>>].pc \notin {"idle", "done"} =>
         t # First /\ rebuilds[t].pc \in {"initialising", "failed"}
    /\ calls[<<t, s>>].pc \in {"idle", "called", "adapter"} =>
         states[t][s] = None /\ ~calls[<<t, s>>].made
    /\ calls[<<t, s>>].pc = "failed" =>
         /\ rebuilds[t].pc = "failed"
         /\ calls[<<t, s>>].made => states[t][s] = <<t, s>>
    /\ calls[<<t, s>>].pc \in {"loading", "done"} =>
         states[t][s] = <<t, s>> /\ calls[<<t, s>>].made
    /\ calls[<<t, s>>].pc = "done" => <<t, s>> \in loaded

InitialisersInv == \A t \in Tenants, s \in Eager : InitialiserInv(t, s)

\* A tenant that serves, or is about to, has all its initialisers' states.
BuiltInv ==
    \A t \in Tenants : (Served(t) \/ rebuilds[t].pc = "swap") =>
        \A s \in Eager \cap raw[t].services : calls[<<t, s>>].pc = "done"

\* What a map refers to was made for that place.
MapInv ==
    \A t \in Tenants, s \in Services : states[t][s] # None =>
        /\ calls[states[t][s]].tenant = t /\ calls[states[t][s]].service = s
        /\ calls[states[t][s]].made

\* What a rebuild has unloaded and replaced.
RebuildsInv ==
    /\ Served(current)
    /\ \A r \in Rebuilds :
         /\ rebuilds[r].pc \in {"swap", "done"} <=> rebuilds[r].emptied # None
         /\ rebuilds[r].emptied # None => Served(rebuilds[r].emptied)
         /\ rebuilds[r].pc = "done" => rebuilds[r].emptied # current

\* Only states of tenants that were unloaded are unloaded.
UnloadInv ==
    \A c \in unloading \cup unloaded : calls[c].made /\ Emptied(calls[c].tenant)

\* Without an overlap every tenant but the present one was unloaded.
EmptiedInv ==
    ~Overlapped =>
        /\ \A t \in Tenants : Served(t) /\ t # current => Emptied(t)
        /\ \A r \in Rebuilds : rebuilds[r].pc = "swap" => rebuilds[r].emptied = current

\* What a tenant that was unloaded has made is unloaded, late, or replaced.
LateInv ==
    /\ \A c \in late : c \in Requests /\ calls[c].made
    /\ \A c \in Calls : calls[c].made /\ Emptied(calls[c].tenant) =>
          c \in unloading \cup unloaded \cup late \/ Replaced(c)

\* A configuration with a rebuild's chord has the chords that rebuild read.
ChordsInv ==
    \A r \in Rebuilds : rebuilds[r].pc # "idle" =>
        /\ rebuilds[r].base \in Tenants /\ Served(rebuilds[r].base)
        /\ PutsChords(r) => raw[r].chords = raw[rebuilds[r].base].chords \cup {r}

\* Only a rebuild that replaced a tenant writes.
WritesInv == \A r \in writes : Finished(r)

CoreInv ==
    /\ TypeOK /\ RawInv /\ RequestsInv /\ InitialisersInv /\ BuiltInv /\ MapInv
    /\ RebuildsInv /\ WritesInv

-----------------------------------------------------------------------------
(* What every step needs *)

\* A call is a request's or an initialiser's, never both.
LEMMA WhoseCall ==
    /\ \A c \in Calls : c \in Requests \/ \E t \in Tenants, s \in Eager : c = <<t, s>>
    /\ \A t \in Tenants, s \in Eager : <<t, s>> \in Calls /\ <<t, s>> \notin Requests
  BY RuntimeConstants DEF Calls, Initialisers

\* A call that has begun knows its tenant and its service.
LEMMA CallPlace ==
    ASSUME CoreInv, NEW c \in Calls, calls[c].pc # "idle"
    PROVE  calls[c].tenant \in Tenants /\ calls[c].service \in Services
<1>1. CASE c \in Requests
  <2>1. /\ calls[c].tenant \in Tenants /\ Served(calls[c].tenant)
        /\ calls[c].service \in raw[calls[c].tenant].services
    BY <1>1 DEF CoreInv, RequestsInv, RequestInv
  <2>2. raw[calls[c].tenant] \in Config
    BY <2>1 DEF CoreInv, RawInv, Served
  <2>. QED
    BY <2>1, <2>2 DEF Config
<1>2. CASE c \notin Requests
  <2>1. PICK t \in Tenants, s \in Eager : c = <<t, s>>
    BY <1>2, WhoseCall
  <2>2. InitialiserInv(t, s)
    BY DEF CoreInv, InitialisersInv
  <2>. QED
    BY <2>1, <2>2 DEF InitialiserInv, Services
<1>. QED
  BY <1>1, <1>2

\* An initialiser fails only while its tenant is not serving.
LEMMA FailsUnserved ==
    ASSUME CoreInv, NEW c \in Calls, StateFails(c)
    PROVE  \A r \in Rebuilds :
             \/ rebuilds'[r] = rebuilds[r]
             \/ /\ rebuilds[r].pc \in {"initialising", "failed"}
                /\ rebuilds'[r] = [rebuilds[r] EXCEPT !.pc = "failed"]
<1>. SUFFICES ASSUME NEW r \in Rebuilds, rebuilds'[r] # rebuilds[r]
              PROVE  /\ rebuilds[r].pc \in {"initialising", "failed"}
                     /\ rebuilds'[r] = [rebuilds[r] EXCEPT !.pc = "failed"]
  OBVIOUS
<1>1. c \in {r} \X Eager /\ rebuilds'[r] = [rebuilds[r] EXCEPT !.pc = "failed"]
  BY DEF StateFails
<1>2. PICK s \in Eager : c = <<r, s>>
  BY <1>1
<1>3. InitialiserInv(r, s)
  BY DEF CoreInv, InitialisersInv, Tenants
<1>4. calls[<<r, s>>].pc \in {"adapter", "loading"}
  BY <1>2 DEF StateFails
<1>. QED
  BY <1>1, <1>3, <1>4 DEF InitialiserInv

\* How far a rebuild gets in a step.
RebuildStep(r) ==
    \/ rebuilds'[r] = rebuilds[r] /\ raw'[r] = raw[r]
    \/ /\ rebuilds[r].pc = "idle" /\ raw'[r] \in Config
       /\ rebuilds'[r] = [rebuilds[r] EXCEPT !.pc = "manifests", !.base = current]
       /\ PutsChords(r)' => raw'[r].chords = raw[current].chords \cup {r}
       /\ current' = current
    \/ /\ raw'[r] = raw[r] /\ current' = current
       /\ \/ /\ rebuilds[r].pc = "manifests"
             /\ rebuilds'[r] = [rebuilds[r] EXCEPT !.pc = "initialising"]
          \/ /\ rebuilds[r].pc \in {"manifests", "initialising", "failed"}
             /\ rebuilds'[r] = [rebuilds[r] EXCEPT !.pc = "failed"]
          \/ /\ rebuilds[r].pc = "initialising" /\ AllInitialised(r)
             /\ rebuilds'[r] = [rebuilds[r] EXCEPT !.pc = "swap", !.emptied = current]
    \/ /\ raw'[r] = raw[r] /\ current' = r /\ rebuilds[r].pc = "swap"
       /\ rebuilds'[r] = [rebuilds[r] EXCEPT !.pc = "done", !.replaced = current]

\* A step takes each rebuild no further than that; only Swap changes the tenant.
LEMMA RebuildSteps ==
    ASSUME CoreInv, [Next]_vars
    PROVE  /\ \A r \in Rebuilds : RebuildStep(r)
           /\ raw'[First] = raw[First]
           /\ current' = current \/ \E r \in Rebuilds : Swap(r)
<1>. USE DEF RebuildStep
<1>0. /\ First \notin Rebuilds /\ rebuilds \in [Rebuilds -> Rebuild]
      /\ raw \in [Tenants -> Config \cup {None}] /\ Tenants = Rebuilds \cup {First}
  BY RuntimeConstants DEF CoreInv, TypeOK, Tenants
<1>1. CASE UNCHANGED <<rebuilds, raw, current>>
  BY <1>1
<1>2. CASE \E c \in Calls : StateFails(c)
  <2>1. PICK c \in Calls : StateFails(c)
    BY <1>2
  <2>2. raw' = raw /\ current' = current
    BY <2>1 DEF StateFails
  <2>. QED
    BY <2>1, <2>2, FailsUnserved
<1>3. ASSUME NEW r \in Rebuilds, NEW offer \in Offers, PutRaw(r, offer)
      PROVE  /\ \A x \in Rebuilds : RebuildStep(x)
             /\ raw'[First] = raw[First] /\ current' = current
  <2>1. [by |-> r, services |-> offer, chords |-> {}] \in Config
    BY <1>0, RuntimeConstants DEF Config
  <2>. QED
    BY <1>0, <1>3, <2>1 DEF PutRaw, BeginRebuild, PutsChords
<1>4. ASSUME NEW r \in Rebuilds, PutChords(r)
      PROVE  /\ \A x \in Rebuilds : RebuildStep(x)
             /\ raw'[First] = raw[First] /\ current' = current
  <2>1. raw[current] \in Config
    BY DEF CoreInv, RebuildsInv, RawInv, Served
  <2>2. [raw[current] EXCEPT !.by = r, !.chords = @ \cup {r}] \in Config
    BY <1>0, <2>1 DEF Config
  <2>3. [raw[current] EXCEPT !.by = r, !.chords = @ \cup {r}].chords = raw[current].chords \cup {r}
    BY <2>1 DEF Config
  <2>. QED
    BY <1>0, <1>4, <2>2, <2>3 DEF PutChords, BeginRebuild, PutsChords
<1>5. ASSUME NEW r \in Rebuilds, Initialise(r) \/ RebuildFails(r) \/ UnloadCurrent(r) \/ Swap(r)
      PROVE  /\ \A x \in Rebuilds : RebuildStep(x)
             /\ raw'[First] = raw[First] /\ (current' = current \/ Swap(r))
  BY <1>0, <1>5 DEF Initialise, RebuildFails, UnloadCurrent, Swap
<1>6. CASE \E q \in Requests, s \in Services : Dispatch(q, s)
  BY <1>1, <1>6 DEF Dispatch
<1>7. CASE \E c \in Calls : \/ FindState(c) \/ GetAdapter(c) \/ MakeState(c)
                            \/ StateLoaded(c) \/ UnloadReturns(c)
  BY <1>1, <1>7 DEF FindState, GetAdapter, MakeState, StateLoaded, UnloadReturns
<1>8. CASE \E r \in Rebuilds : Write(r) \/ WriteFails(r)
  BY <1>1, <1>8 DEF Write, WriteFails
<1>9. CASE UNCHANGED vars
  BY <1>1, <1>9 DEF vars
<1>. QED
  BY <1>2, <1>3, <1>4, <1>5, <1>6, <1>7, <1>8, <1>9 DEF Next

\* A tenant that serves goes on to.
LEMMA ServedStays ==
    ASSUME CoreInv, [Next]_vars
    PROVE  /\ \A t \in Tenants : Served(t) => Served(t)' /\ raw'[t] = raw[t]
           /\ \A r \in Rebuilds : rebuilds[r].pc = "done" => rebuilds'[r] = rebuilds[r]
  BY RebuildSteps DEF Served, RebuildStep, Tenants, CoreInv, TypeOK, Rebuild

-----------------------------------------------------------------------------
(* The calls *)

\* A call goes on, with its tenant and its service, to made or not made.
Goes(c, from, to, made) ==
    /\ calls[c].pc \in from /\ calls'[c].pc = to /\ calls'[c].made = made
    /\ calls'[c].tenant = calls[c].tenant /\ calls'[c].service = calls[c].service

\* A call is made for a tenant and a service.
Begins(c, t, s) ==
    /\ calls'[c].pc = "called" /\ calls'[c].made = FALSE
    /\ calls'[c].tenant = t /\ calls'[c].service = s

\* How far a call gets in a step.
CallStep(c) ==
    \/ calls'[c] = calls[c]
    \/ /\ c \in Requests /\ calls[c].pc = "idle"
       /\ \E s \in Services : s \in raw[current].services /\ Begins(c, current, s)
    \/ \E r \in Rebuilds, s \in Eager :
          /\ c = <<r, s>> /\ s \in raw[r].services
          /\ rebuilds[r].pc = "manifests" /\ rebuilds'[r].pc = "initialising"
          /\ Begins(c, r, s)
    \/ InMap(c) # None /\ Goes(c, {"called"}, "done", calls[c].made)
    \/ InMap(c) = None /\ Goes(c, {"called"}, "adapter", calls[c].made)
    \/ MakeState(c) /\ Goes(c, {"adapter"}, "loading", TRUE)
    \/ c \in loaded' /\ Goes(c, {"loading"}, "done", calls[c].made)
    \/ /\ c \in Initialisers => rebuilds'[c[1]].pc = "failed"
       /\ Goes(c, {"adapter", "loading"}, "failed", calls[c].made)

\* A step takes each call no further than that; only MakeState changes a map.
LEMMA CallSteps ==
    ASSUME CoreInv, [Next]_vars
    PROVE  /\ \A c \in Calls : CallStep(c)
           /\ states' = states \/ \E c \in Calls : MakeState(c)
           /\ loaded \subseteq loaded'
<1>0. calls \in [Calls -> Call] /\ rebuilds \in [Rebuilds -> Rebuild]
  BY DEF CoreInv, TypeOK
<1>1. CASE UNCHANGED <<calls, states, loaded>>
  BY <1>1 DEF CallStep
<1>2. ASSUME NEW q \in Requests, NEW s \in Services, Dispatch(q, s)
      PROVE  (\A c \in Calls : CallStep(c)) /\ states' = states /\ loaded' = loaded
  <2>1. /\ calls[q].pc = "idle" /\ s \in raw[current].services
        /\ calls' = [calls EXCEPT ![q] = Called(current, s)]
        /\ states' = states /\ loaded' = loaded
    BY <1>2 DEF Dispatch
  <2>. QED
    BY <1>0, <2>1 DEF CallStep, Calls, Begins, Called
<1>3. ASSUME NEW r \in Rebuilds, Initialise(r)
      PROVE  (\A c \in Calls : CallStep(c)) /\ states' = states /\ loaded' = loaded
  <2>1. /\ rebuilds[r].pc = "manifests" /\ rebuilds'[r].pc = "initialising"
        /\ states' = states /\ loaded' = loaded
    BY <1>0, <1>3 DEF Initialise, Rebuild
  <2>2. ASSUME NEW c \in Calls, calls'[c] # calls[c]
        PROVE  \E s \in Eager :
                 /\ c = <<r, s>> /\ s \in raw[r].services
                 /\ Begins(c, r, s)
    <3>1. /\ c \in {r} \X (Eager \cap raw[r].services)
          /\ calls'[c] = Called(r, c[2])
      BY <1>3, <2>2 DEF Initialise
    <3>2. PICK s \in Eager : c = <<r, s>> /\ s \in raw[r].services
      BY <3>1
    <3>. QED
      BY <3>1, <3>2 DEF Begins, Called
  <2>. QED
    BY <2>1, <2>2 DEF CallStep
<1>4. ASSUME NEW x \in Calls, FindState(x) \/ GetAdapter(x)
      PROVE  (\A c \in Calls : CallStep(c)) /\ states' = states /\ loaded' = loaded
  BY <1>0, <1>4 DEF FindState, GetAdapter, CallStep, Goes, Call
<1>5. ASSUME NEW x \in Calls, MakeState(x)
      PROVE  (\A c \in Calls : CallStep(c)) /\ loaded' = loaded
  <2>1. /\ calls[x].pc = "adapter" /\ loaded' = loaded
        /\ calls' = [calls EXCEPT ![x].pc = "loading", ![x].made = TRUE]
    BY <1>5 DEF MakeState
  <2>. QED
    BY <1>0, <1>5, <2>1 DEF CallStep, Goes, Call
<1>6. ASSUME NEW x \in Calls, StateLoaded(x)
      PROVE  (\A c \in Calls : CallStep(c)) /\ states' = states /\ loaded \subseteq loaded'
  BY <1>0, <1>6 DEF StateLoaded, CallStep, Goes, Call
<1>7. ASSUME NEW x \in Calls, StateFails(x)
      PROVE  (\A c \in Calls : CallStep(c)) /\ states' = states /\ loaded' = loaded
  <2>1. /\ calls[x].pc \in {"adapter", "loading"} /\ states' = states /\ loaded' = loaded
        /\ calls' = [calls EXCEPT ![x].pc = "failed"]
    BY <1>7 DEF StateFails
  <2>2. x \in Initialisers => rebuilds'[x[1]].pc = "failed"
    <3>. SUFFICES ASSUME x \in Initialisers PROVE rebuilds'[x[1]].pc = "failed"
      OBVIOUS
    <3>1. PICK t \in Tenants, s \in Eager : x = <<t, s>>
      BY DEF Initialisers
    <3>2. t \in Rebuilds
      BY <2>1, <3>1 DEF CoreInv, InitialisersInv, InitialiserInv, Tenants
    <3>3. x \in {t} \X Eager /\ x[1] = t
      BY <3>1
    <3>. QED
      BY <1>0, <1>7, <3>2, <3>3 DEF StateFails, Rebuild
  <2>. QED
    BY <1>0, <2>1, <2>2 DEF CallStep, Goes, Call
<1>8. ASSUME NEW x \in Calls, UnloadReturns(x)
      PROVE  UNCHANGED <<calls, states, loaded>>
  BY <1>8 DEF UnloadReturns
<1>9. CASE \/ \E r \in Rebuilds, offer \in Offers : PutRaw(r, offer)
           \/ \E r \in Rebuilds : \/ PutChords(r) \/ RebuildFails(r) \/ UnloadCurrent(r)
                                  \/ Swap(r) \/ Write(r) \/ WriteFails(r)
  BY <1>1, <1>9 DEF PutRaw, PutChords, BeginRebuild, RebuildFails, UnloadCurrent, Swap, Write, WriteFails
<1>10. CASE UNCHANGED vars
  BY <1>1, <1>10 DEF vars
<1>. QED
  BY <1>1, <1>2, <1>3, <1>4, <1>5, <1>6, <1>7, <1>8, <1>9, <1>10 DEF Next

\* A request never goes on to make a state that initialisers make: its tenant has it.
LEMMA FoundByRequests ==
    ASSUME CoreInv, NEW q \in Requests, calls[q].pc = "called", calls[q].service \in Eager
    PROVE  InMap(q) # None
<1> DEFINE t == calls[q].tenant  s == calls[q].service
<1>1. t \in Tenants /\ Served(t) /\ s \in Eager \cap raw[t].services
  BY DEF CoreInv, RequestsInv, RequestInv
<1>2. calls[<<t, s>>].pc = "done"
  BY <1>1 DEF CoreInv, BuiltInv
<1>3. states[t][s] = <<t, s>>
  BY <1>1, <1>2 DEF CoreInv, InitialisersInv, InitialiserInv
<1>4. <<t, s>> # None
  BY <1>1, WhoseCall, RuntimeConstants
<1>. QED
  BY <1>3, <1>4 DEF InMap

\* The state of a service that has an initialiser is made by that initialiser.
LEMMA MadeByInitialiser ==
    ASSUME CoreInv, NEW c \in Calls, MakeState(c), calls[c].service \in Eager
    PROVE  calls[c].tenant \in Tenants /\ c = <<calls[c].tenant, calls[c].service>>
<1>1. calls[c].pc = "adapter"
  BY DEF MakeState
<1>2. c \notin Requests
  BY <1>1 DEF CoreInv, RequestsInv, RequestInv
<1>3. PICK t \in Tenants, s \in Eager : c = <<t, s>>
  BY <1>2, WhoseCall
<1>. QED
  BY <1>1, <1>3 DEF CoreInv, InitialisersInv, InitialiserInv

-----------------------------------------------------------------------------
(* The parts of CoreInv, each preserved by a step *)

\* The configurations that were put stay.
LEMMA RawStep == CoreInv /\ [Next]_vars => RawInv'
<1>. SUFFICES ASSUME CoreInv, [Next]_vars PROVE RawInv'
  OBVIOUS
<1>1. RawInv /\ rebuilds \in [Rebuilds -> Rebuild]
  BY DEF CoreInv, TypeOK
<1>2. raw'[First] \in Config
  BY <1>1, RebuildSteps DEF RawInv
<1>3. ASSUME NEW r \in Rebuilds, rebuilds'[r].pc # "idle"
      PROVE  raw'[r] \in Config
  BY <1>1, <1>3, RebuildSteps DEF RawInv, RebuildStep
<1>. QED
  BY <1>2, <1>3 DEF RawInv

\* A request stays with the tenant it was routed to.
LEMMA RequestsStep == CoreInv /\ [Next]_vars => RequestsInv'
<1>. SUFFICES ASSUME CoreInv, [Next]_vars, NEW q \in Requests
              PROVE  RequestInv(q)'
  BY DEF RequestsInv
<1>1. /\ q \in Calls /\ q \notin Initialisers /\ calls[q] \in Call
      /\ \A r \in Rebuilds, s \in Eager : q # <<r, s>>
  BY RuntimeConstants DEF CoreInv, TypeOK, Calls, Initialisers, Tenants
<1>2. RequestInv(q)
  BY DEF CoreInv, RequestsInv
<1>3. current \in Tenants /\ Served(current)
  BY DEF CoreInv, TypeOK, RebuildsInv
<1>4. \A t \in Tenants : Served(t) => Served(t)' /\ raw'[t] = raw[t]
  BY ServedStays
<1>5. CallStep(q)
  BY <1>1, CallSteps
<1>6. calls[q].pc = "called" /\ calls[q].service \in Eager => InMap(q) # None
  BY FoundByRequests
<1>7. calls'[q].service \in Eager => calls'[q].pc \in {"called", "done"} /\ ~calls'[q].made
  BY <1>1, <1>2, <1>5, <1>6 DEF RequestInv, CallStep, Goes, Begins
<1>8. calls'[q].pc \in {"idle", "called", "adapter"} => ~calls'[q].made
  BY <1>1, <1>2, <1>5 DEF RequestInv, CallStep, Goes, Begins
<1>9. ASSUME calls'[q].pc # "idle"
      PROVE  /\ calls'[q].tenant \in Tenants /\ Served(calls'[q].tenant)
             /\ calls'[q].service \in raw[calls'[q].tenant].services
  BY <1>1, <1>2, <1>3, <1>5, <1>9 DEF RequestInv, CallStep, Goes, Begins
<1>. QED
  BY <1>4, <1>7, <1>8, <1>9 DEF RequestInv, Served

\* An initialiser's call and its tenant's map go on together.
LEMMA InitialisersStep == CoreInv /\ [Next]_vars => InitialisersInv'
<1>. SUFFICES ASSUME CoreInv, [Next]_vars, NEW t \in Tenants, NEW s \in Eager
              PROVE  InitialiserInv(t, s)'
  BY DEF InitialisersInv
<1> DEFINE c == <<t, s>>
<1>1. /\ c \in Calls /\ c \notin Requests /\ c \in Initialisers /\ c[1] = t
      /\ s \in Services /\ s # None /\ c # None /\ calls[c] \in Call
      /\ \A r \in Rebuilds, x \in Eager : c = <<r, x>> => r = t /\ x = s
  BY WhoseCall, RuntimeConstants DEF CoreInv, TypeOK, Initialisers, Services
<1>2. InitialiserInv(t, s)
  BY DEF CoreInv, InitialisersInv
<1>3. CallStep(c) /\ (c \in loaded => c \in loaded')
  BY <1>1, CallSteps
<1>4. states'[t][s] = states[t][s] \/ (MakeState(c) /\ states'[t][s] = c)
  <2>1. CASE states' = states
    BY <2>1
  <2>2. CASE \E x \in Calls : MakeState(x)
    <3>1. PICK x \in Calls : MakeState(x)
      BY <2>2
    <3>2. calls[x].tenant \in Tenants /\ calls[x].service \in Services
      BY <3>1, CallPlace DEF MakeState
    <3>3. states \in [Tenants -> [Services -> Calls \cup {None}]]
      BY DEF CoreInv, TypeOK
    <3>4. /\ calls[x].tenant = t /\ calls[x].service = s => states'[t][s] = x
          /\ calls[x].tenant # t \/ calls[x].service # s => states'[t][s] = states[t][s]
      BY <1>1, <3>1, <3>2, <3>3 DEF MakeState
    <3>. QED
      BY <3>1, <3>4, MadeByInitialiser
  <2>. QED
    BY <2>1, <2>2, CallSteps
<1>5. MakeState(c) => calls[c].pc = "adapter" /\ calls'[c].pc = "loading" /\ states'[t][s] = c
  <2>. SUFFICES ASSUME MakeState(c) PROVE calls[c].pc = "adapter" /\ calls'[c].pc = "loading" /\ states'[t][s] = c
    OBVIOUS
  <2>1. calls[c].pc = "adapter"
    BY DEF MakeState
  <2>2. calls[c].tenant = t /\ calls[c].service = s
    BY <1>2, <2>1 DEF InitialiserInv
  <2>3. states \in [Tenants -> [Services -> Calls \cup {None}]] /\ calls \in [Calls -> Call]
    BY DEF CoreInv, TypeOK
  <2>. QED
    BY <1>1, <2>1, <2>2, <2>3 DEF MakeState, Call
<1>6. t = First \/ (t \in Rebuilds /\ RebuildStep(t) /\ rebuilds[t] \in Rebuild /\ t # First)
  BY RebuildSteps, RuntimeConstants DEF Tenants, CoreInv, TypeOK
<1>7. AllInitialised(t) /\ s \in raw[t].services => calls[c].pc = "done"
  BY DEF AllInitialised
<1>8. InMap(c) = states[calls[c].tenant][calls[c].service]
  BY DEF InMap
<1>. HIDE DEF c
<1>9. /\ calls[c].pc # "idle" =>
           /\ calls[c].tenant = t /\ calls[c].service = s
           /\ t = First \/ (rebuilds[t].pc \notin {"idle", "manifests"} /\ s \in raw[t].services)
      /\ calls[c].pc \notin {"idle", "done"} =>
           t # First /\ rebuilds[t].pc \in {"initialising", "failed"}
      /\ calls[c].pc \in {"idle", "called", "adapter"} => states[t][s] = None /\ ~calls[c].made
      /\ calls[c].pc = "failed" => rebuilds[t].pc = "failed" /\ (calls[c].made => states[t][s] = c)
      /\ calls[c].pc \in {"loading", "done"} => states[t][s] = c /\ calls[c].made
      /\ calls[c].pc = "done" => c \in loaded
  BY <1>2 DEF InitialiserInv, c
<1>10. \/ calls'[c] = calls[c]
       \/ /\ t \in Rebuilds /\ s \in raw[t].services /\ calls[c].pc = "idle"
          /\ rebuilds[t].pc = "manifests" /\ rebuilds'[t].pc = "initialising" /\ Begins(c, t, s)
       \/ InMap(c) # None /\ Goes(c, {"called"}, "done", calls[c].made)
       \/ InMap(c) = None /\ Goes(c, {"called"}, "adapter", calls[c].made)
       \/ MakeState(c) /\ Goes(c, {"adapter"}, "loading", TRUE)
       \/ c \in loaded' /\ Goes(c, {"loading"}, "done", calls[c].made)
       \/ /\ rebuilds'[t].pc = "failed"
          /\ Goes(c, {"adapter", "loading"}, "failed", calls[c].made)
  <2>1. ASSUME NEW r \in Rebuilds, NEW x \in Eager, c = <<r, x>>, x \in raw[r].services,
               rebuilds[r].pc = "manifests", rebuilds'[r].pc = "initialising", Begins(c, r, x)
        PROVE  /\ t \in Rebuilds /\ s \in raw[t].services /\ calls[c].pc = "idle"
               /\ rebuilds[t].pc = "manifests" /\ rebuilds'[t].pc = "initialising" /\ Begins(c, t, s)
    BY <1>1, <1>9, <2>1, RuntimeConstants
  <2>. QED
    BY <1>1, <1>3, <2>1 DEF CallStep
<1>11. /\ calls'[c].pc # "idle" =>
           /\ calls'[c].tenant = t /\ calls'[c].service = s
           /\ t = First \/ (rebuilds'[t].pc \notin {"idle", "manifests"} /\ s \in raw'[t].services)
       /\ calls'[c].pc \notin {"idle", "done"} =>
           t # First /\ rebuilds'[t].pc \in {"initialising", "failed"}
       /\ calls'[c].pc = "failed" => rebuilds'[t].pc = "failed"
  <2>1. CASE t = First
    BY <1>9, <1>10, <2>1, RuntimeConstants DEF Goes
  <2>2. CASE t # First
    <3>1. /\ calls'[c].pc # "idle" => calls'[c].tenant = t /\ calls'[c].service = s
          /\ calls[c].pc = "idle" /\ calls'[c].pc # "idle" =>
               /\ calls'[c].pc = "called" /\ s \in raw[t].services
               /\ rebuilds[t].pc = "manifests" /\ rebuilds'[t].pc = "initialising"
          /\ calls'[c].pc \notin {"idle", "called", "done"} => calls[c].pc \notin {"idle", "done"}
          /\ calls'[c].pc = "called" => calls[c].pc \in {"idle", "called"}
          /\ calls'[c].pc = "failed" => calls[c].pc = "failed" \/ rebuilds'[t].pc = "failed"
          /\ calls[c].pc = "done" => calls'[c].pc = "done"
      BY <1>9, <1>10 DEF Goes, Begins
    <3>2. /\ rebuilds[t].pc # "idle" => raw'[t] = raw[t]
          /\ rebuilds[t].pc \notin {"idle", "manifests"} => rebuilds'[t].pc \notin {"idle", "manifests"}
          /\ rebuilds[t].pc = "initialising" =>
               rebuilds'[t].pc \in {"initialising", "failed"} \/ AllInitialised(t)
          /\ rebuilds[t].pc = "failed" => rebuilds'[t].pc = "failed"
      BY <1>6, <2>2 DEF RebuildStep, Rebuild
    <3>. QED
      BY <1>7, <1>9, <2>2, <3>1, <3>2
  <2>. QED
    BY <2>1, <2>2
<1>12. calls'[c].pc \in {"idle", "called", "adapter"} => states'[t][s] = None /\ ~calls'[c].made
  BY <1>1, <1>4, <1>5, <1>9, <1>10 DEF Goes, Begins
<1>13. calls'[c].pc = "failed" => (calls'[c].made => states'[t][s] = c)
  BY <1>1, <1>4, <1>5, <1>9, <1>10 DEF Goes, Begins
<1>14. calls'[c].pc \in {"loading", "done"} => states'[t][s] = c /\ calls'[c].made
  BY <1>1, <1>4, <1>5, <1>8, <1>9, <1>10 DEF Goes, Begins
<1>15. calls'[c].pc = "done" => c \in loaded'
  BY <1>1, <1>3, <1>8, <1>9, <1>10 DEF Goes, Begins
<1>. QED
  BY <1>11, <1>12, <1>13, <1>14, <1>15 DEF InitialiserInv, c

\* A tenant's initialisers have all returned before it serves.
LEMMA BuiltStep == CoreInv /\ [Next]_vars => BuiltInv'
<1>. SUFFICES ASSUME CoreInv, [Next]_vars, NEW t \in Tenants, (Served(t) \/ rebuilds[t].pc = "swap")',
                     NEW s \in Eager \cap raw'[t].services
              PROVE  calls'[<<t, s>>].pc = "done"
  BY DEF BuiltInv
<1>1. /\ <<t, s>> \in Calls /\ <<t, s>> \notin Requests /\ calls[<<t, s>>] \in Call
  BY WhoseCall DEF CoreInv, TypeOK
<1>2. raw'[t] = raw[t] /\ calls[<<t, s>>].pc = "done"
  <2>1. CASE Served(t) \/ rebuilds[t].pc = "swap"
    <3>1. raw'[t] = raw[t]
      BY <2>1, RebuildSteps, ServedStays, RuntimeConstants
         DEF Served, RebuildStep, Tenants, CoreInv, TypeOK, Rebuild
    <3>. QED
      BY <2>1, <3>1 DEF CoreInv, BuiltInv
  <2>2. CASE ~(Served(t) \/ rebuilds[t].pc = "swap")
    <3>1. t \in Rebuilds /\ rebuilds[t] \in Rebuild /\ rebuilds[t].pc \notin {"swap", "done"}
          /\ rebuilds'[t].pc \in {"swap", "done"}
      BY <2>2 DEF Served, Tenants, CoreInv, TypeOK
    <3>2. raw'[t] = raw[t] /\ AllInitialised(t)
      BY <3>1, RebuildSteps DEF RebuildStep, Rebuild
    <3>. QED
      BY <3>2 DEF AllInitialised
  <2>. QED
    BY <2>1, <2>2
<1>3. CallStep(<<t, s>>)
  BY <1>1, CallSteps
<1>4. InitialiserInv(t, s)
  BY DEF CoreInv, InitialisersInv
<1>5. \A r \in Rebuilds, x \in Eager : <<t, s>> = <<r, x>> => rebuilds[r].pc # "manifests"
  BY <1>2, <1>4, RuntimeConstants DEF InitialiserInv
<1>. QED
  BY <1>1, <1>2, <1>3, <1>5 DEF CallStep, Goes, Begins

\* A state object stays that of the place it was made for.
LEMMA MapStep == CoreInv /\ [Next]_vars => MapInv'
<1>. SUFFICES ASSUME CoreInv, [Next]_vars, NEW t \in Tenants, NEW s \in Services, states'[t][s] # None
              PROVE  /\ calls'[states'[t][s]].tenant = t /\ calls'[states'[t][s]].service = s
                     /\ calls'[states'[t][s]].made
  BY DEF MapInv
<1>0. calls \in [Calls -> Call] /\ states \in [Tenants -> [Services -> Calls \cup {None}]]
  BY DEF CoreInv, TypeOK
<1>1. CASE states'[t][s] = states[t][s]
  <2> DEFINE c == states[t][s]
  <2>1. c \in Calls /\ calls[c] \in Call
    BY <1>0, <1>1
  <2>2. calls[c].tenant = t /\ calls[c].service = s /\ calls[c].made
    BY <1>1 DEF CoreInv, MapInv
  <2>3. CallStep(c)
    BY <2>1, CallSteps
  <2>4. calls[c].pc # "idle"
    <3>1. CASE c \in Requests
      BY <2>2, <3>1 DEF CoreInv, RequestsInv, RequestInv
    <3>2. CASE c \notin Requests
      BY <2>1, <2>2, <3>2, WhoseCall DEF CoreInv, InitialisersInv, InitialiserInv
    <3>. QED
      BY <3>1, <3>2
  <2>5. \A r \in Rebuilds, x \in Eager : c = <<r, x>> => rebuilds[r].pc # "manifests"
    BY <2>4, RuntimeConstants DEF CoreInv, InitialisersInv, InitialiserInv, Tenants
  <2>. HIDE DEF c
  <2>6. calls'[c].tenant = t /\ calls'[c].service = s /\ calls'[c].made
    BY <2>1, <2>2, <2>3, <2>4, <2>5 DEF CallStep, Goes, Begins
  <2>. QED
    BY <1>1, <2>6 DEF c
<1>2. CASE states'[t][s] # states[t][s]
  <2>1. PICK x \in Calls : MakeState(x)
    BY <1>2, CallSteps
  <2>2. calls[x].tenant \in Tenants /\ calls[x].service \in Services
    BY <2>1, CallPlace DEF MakeState
  <2>3. calls[x].tenant = t /\ calls[x].service = s /\ states'[t][s] = x
    BY <1>0, <1>2, <2>1, <2>2 DEF MakeState
  <2>4. calls'[x].tenant = t /\ calls'[x].service = s /\ calls'[x].made
    BY <1>0, <2>1, <2>3 DEF MakeState, Call
  <2>. QED
    BY <2>3, <2>4
<1>. QED
  BY <1>1, <1>2

\* The tenant that serves has not been replaced.
LEMMA RebuildsStepInv == CoreInv /\ [Next]_vars => RebuildsInv'
<1>. SUFFICES ASSUME CoreInv, [Next]_vars PROVE RebuildsInv'
  OBVIOUS
<1>0. /\ First \notin Rebuilds /\ None \notin Tenants /\ current \in Tenants /\ Tenants = Rebuilds \cup {First}
      /\ rebuilds \in [Rebuilds -> Rebuild] /\ Served(current)
  BY RuntimeConstants DEF CoreInv, TypeOK, Tenants, RebuildsInv
<1>1. Served(current)'
  <2>1. CASE current' = current
    BY <1>0, <2>1, ServedStays DEF Served
  <2>2. CASE \E r \in Rebuilds : Swap(r)
    BY <1>0, <2>2 DEF Swap, Served, Rebuild
  <2>. QED
    BY <2>1, <2>2, RebuildSteps
<1>2. ASSUME NEW r \in Rebuilds
      PROVE  (/\ rebuilds[r].pc \in {"swap", "done"} <=> rebuilds[r].emptied # None
              /\ rebuilds[r].emptied # None => Served(rebuilds[r].emptied)
              /\ rebuilds[r].pc = "done" => rebuilds[r].emptied # current)'
  <2>1. /\ rebuilds[r].pc \in {"swap", "done"} <=> rebuilds[r].emptied # None
        /\ rebuilds[r].emptied # None => Served(rebuilds[r].emptied)
        /\ rebuilds[r].pc = "done" => rebuilds[r].emptied # current
    BY DEF CoreInv, RebuildsInv
  <2>2. RebuildStep(r) /\ rebuilds[r] \in Rebuild
    BY <1>0, RebuildSteps
  <2>3. \A t \in Tenants : Served(t) => Served(t)'
    BY ServedStays
  <2>4. current' = current \/ ~Served(current')
    BY <1>0, RebuildSteps DEF Swap, Served, Rebuild
  <2>5. rebuilds'[r].pc \in {"swap", "done"} <=> rebuilds'[r].emptied # None
    BY <1>0, <2>1, <2>2 DEF RebuildStep, Rebuild
  <2>6. rebuilds'[r].emptied # None => rebuilds'[r].emptied \in Tenants /\ Served(rebuilds'[r].emptied)
    <3>1. rebuilds'[r].emptied \in {rebuilds[r].emptied, current}
      BY <2>2 DEF RebuildStep, Rebuild
    <3>2. rebuilds[r].emptied \in Tenants \cup {None}
      BY <2>2 DEF Rebuild
    <3>. QED
      BY <1>0, <2>1, <3>1, <3>2
  <2>7. rebuilds'[r].pc = "done" => rebuilds'[r].emptied # current'
    <3>1. CASE rebuilds[r].pc = "done"
      BY <2>1, <2>4, <2>6, <3>1, ServedStays, <2>5
    <3>2. CASE rebuilds[r].pc # "done"
      <4>1. rebuilds'[r].pc = "done" => /\ current' = r /\ rebuilds[r].pc = "swap"
                                        /\ rebuilds'[r].emptied = rebuilds[r].emptied
        BY <2>2, <3>2 DEF RebuildStep, Rebuild
      <4>2. ~Served(r)
        BY <1>0, <3>2 DEF Served
      <4>. QED
        BY <2>1, <4>1, <4>2
    <3>. QED
      BY <3>1, <3>2
  <2>. QED
    BY <2>3, <2>5, <2>6, <2>7 DEF Served
<1>. QED
  BY <1>1, <1>2 DEF RebuildsInv, Served

\* Every variable keeps its type.
LEMMA TypeStep == CoreInv /\ [Next]_vars => TypeOK'
<1>. SUFFICES ASSUME CoreInv, [Next]_vars PROVE TypeOK'
  OBVIOUS
<1>0. TypeOK
  BY DEF CoreInv
<1>1. CASE \E q \in Requests, s \in Services : Dispatch(q, s)
  <2>1. PICK q \in Requests, s \in Services : Dispatch(q, s)
    BY <1>1
  <2>2. Called(current, s) \in Call /\ q \in Calls
    BY <1>0 DEF TypeOK, Called, Call, Calls
  <2>3. calls' \in [Calls -> Call]
    BY <1>0, <2>1, <2>2 DEF TypeOK, Dispatch
  <2>. QED
    BY <1>0, <2>1, <2>3 DEF TypeOK, Dispatch
<1>2. ASSUME NEW c \in Calls, FindState(c) \/ GetAdapter(c) \/ StateLoaded(c) \/ UnloadReturns(c)
      PROVE  TypeOK'
  <2>1. calls' \in [Calls -> Call]
    <3>1. \/ calls' = calls \/ calls' = [calls EXCEPT ![c].pc = "done"]
          \/ calls' = [calls EXCEPT ![c].pc = "adapter"]
      BY <1>2 DEF FindState, GetAdapter, StateLoaded, UnloadReturns
    <3>2. \A pc \in {"done", "adapter"} : [calls EXCEPT ![c].pc = pc] \in [Calls -> Call]
      BY <1>0 DEF TypeOK, Call
    <3>. QED
      BY <1>0, <3>1, <3>2 DEF TypeOK
  <2>2. loaded' \subseteq Calls /\ unloading' \subseteq Calls /\ unloaded' \subseteq Calls
    BY <1>0, <1>2 DEF TypeOK, FindState, GetAdapter, StateLoaded, UnloadReturns
  <2>3. UNCHANGED <<current, raw, states, late, rebuilds, file, writes, unsure>>
    BY <1>2 DEF FindState, GetAdapter, StateLoaded, UnloadReturns
  <2>. QED
    BY <1>0, <2>1, <2>2, <2>3 DEF TypeOK
<1>3. ASSUME NEW c \in Calls, MakeState(c)
      PROVE  TypeOK'
  <2>1. calls' \in [Calls -> Call]
    BY <1>0, <1>3, ZenonT(30) DEF TypeOK, MakeState, Call
  <2>2. states' \in [Tenants -> [Services -> Calls \cup {None}]]
    BY <1>0, <1>3 DEF TypeOK, MakeState
  <2>3. late' \subseteq Calls
    BY <1>0, <1>3 DEF TypeOK, MakeState
  <2>. QED
    BY <1>0, <1>3, <2>1, <2>2, <2>3 DEF TypeOK, MakeState
<1>4. ASSUME NEW c \in Calls, StateFails(c)
      PROVE  TypeOK'
  <2>1. calls' \in [Calls -> Call]
    BY <1>0, <1>4 DEF TypeOK, StateFails, Call
  <2>2. rebuilds' \in [Rebuilds -> Rebuild]
    <3>1. \A r \in Rebuilds : rebuilds'[r] \in Rebuild
      <4>. SUFFICES ASSUME NEW r \in Rebuilds PROVE rebuilds'[r] \in Rebuild
        OBVIOUS
      <4>1. rebuilds[r] \in Rebuild
        BY <1>0 DEF TypeOK
      <4>2. rebuilds'[r] = rebuilds[r] \/ rebuilds'[r] = [rebuilds[r] EXCEPT !.pc = "failed"]
        BY <1>4, FailsUnserved
      <4>. QED
        BY <4>1, <4>2 DEF Rebuild
    <3>. QED
      BY <1>4, <3>1 DEF StateFails
  <2>. QED
    BY <1>0, <1>4, <2>1, <2>2 DEF TypeOK, StateFails
<1>5. ASSUME NEW r \in Rebuilds, \/ \E offer \in Offers : PutRaw(r, offer)
                                 \/ PutChords(r)
      PROVE  TypeOK'
  <2>1. PICK config : BeginRebuild(r, config)
    BY <1>5 DEF PutRaw, PutChords
  <2>2. rebuilds' \in [Rebuilds -> Rebuild]
    BY <1>0, <2>1, ZenonT(30) DEF TypeOK, BeginRebuild, Rebuild
  <2>3. raw' \in [Tenants -> Config \cup {None}]
    <3>1. \A t \in Tenants : raw'[t] \in Config \cup {None}
      BY <1>0, RebuildSteps DEF TypeOK, RebuildStep, Tenants
    <3>. QED
      BY <1>0, <2>1, <3>1 DEF TypeOK, BeginRebuild
  <2>. QED
    BY <1>0, <2>1, <2>2, <2>3 DEF TypeOK, BeginRebuild
<1>6. ASSUME NEW r \in Rebuilds, Initialise(r)
      PROVE  TypeOK'
  <2>1. \A c \in Initialisers : c[2] \in Services
    BY DEF Initialisers, Services
  <2>2. \A s \in Services : Called(r, s) \in Call
    BY DEF Called, Call, Tenants
  <2>3. \A c \in {r} \X (Eager \cap raw[r].services) : c \in Initialisers
    BY DEF Initialisers, Tenants
  <2>4. calls' \in [Calls -> Call]
    BY <1>0, <1>6, <2>1, <2>2, <2>3 DEF TypeOK, Initialise
  <2>5. rebuilds' \in [Rebuilds -> Rebuild]
    BY <1>0, <1>6 DEF TypeOK, Initialise, Rebuild
  <2>. QED
    BY <1>0, <1>6, <2>4, <2>5 DEF TypeOK, Initialise
<1>7. ASSUME NEW r \in Rebuilds, RebuildFails(r) \/ UnloadCurrent(r) \/ Swap(r)
      PROVE  TypeOK'
  <2>1. rebuilds' \in [Rebuilds -> Rebuild]
    BY <1>0, <1>7 DEF TypeOK, RebuildFails, UnloadCurrent, Swap, Rebuild
  <2>2. unloading' \subseteq Calls
    BY <1>0, <1>7 DEF TypeOK, RebuildFails, UnloadCurrent, Swap, StatesOf
  <2>3. current' \in Tenants /\ writes' \subseteq Rebuilds /\ unsure' \in BOOLEAN
    BY <1>0, <1>7 DEF TypeOK, RebuildFails, UnloadCurrent, Swap, Tenants
  <2>4. UNCHANGED <<raw, states, calls, loaded, unloaded, late, file>>
    BY <1>7 DEF RebuildFails, UnloadCurrent, Swap
  <2>. QED
    BY <1>0, <2>1, <2>2, <2>3, <2>4 DEF TypeOK
<1>8. ASSUME NEW r \in Rebuilds, r \in writes => raw[r] \in Config, Write(r) \/ WriteFails(r)
      PROVE  TypeOK'
  BY <1>0, <1>8 DEF TypeOK, Write, WriteFails
<1>9. \A r \in Rebuilds : r \in writes => raw[r] \in Config
  BY DEF CoreInv, WritesInv, Finished, RawInv
<1>10. CASE UNCHANGED vars
  BY <1>0, <1>10 DEF TypeOK, vars
<1>. QED
  BY <1>1, <1>2, <1>3, <1>4, <1>5, <1>6, <1>7, <1>8, <1>9, <1>10 DEF Next

\* A rebuild that writes has replaced a tenant, and stays so.
LEMMA WritesStep == CoreInv /\ [Next]_vars => WritesInv'
<1>. SUFFICES ASSUME CoreInv, [Next]_vars, NEW r \in writes'
              PROVE  rebuilds'[r].pc = "done"
  BY DEF WritesInv, Finished
<1>0. WritesInv /\ writes \subseteq Rebuilds /\ rebuilds \in [Rebuilds -> Rebuild]
  BY DEF CoreInv, TypeOK
<1>1. CASE r \in writes
  BY <1>0, <1>1, ServedStays DEF WritesInv, Finished
<1>2. CASE r \notin writes
  <2>1. r \in Rebuilds /\ Swap(r)
    BY <1>2 DEF Next, vars, Dispatch, FindState, GetAdapter, MakeState, StateLoaded, StateFails,
                UnloadReturns, PutRaw, PutChords, BeginRebuild, Initialise, RebuildFails,
                UnloadCurrent, Swap, Write, WriteFails
  <2>. QED
    BY <1>0, <2>1 DEF Swap, Rebuild
<1>. QED
  BY <1>1, <1>2

\* The first tenant is there, with the states of all its initialisers.
LEMMA InitCore == Init => CoreInv
<1>. SUFFICES ASSUME Init PROVE CoreInv
  OBVIOUS
<1> USE DEF Init
<1>0. First \in Tenants /\ First \notin Rebuilds /\ None \notin Tenants \cup Services \cup Calls
  BY RuntimeConstants DEF Tenants
<1>1. FirstConfig \in Config /\ raw[First] = FirstConfig
  BY <1>0 DEF FirstConfig, Config
<1>2. \A t \in Tenants, s \in Eager :
        /\ <<t, s>> \in Calls /\ (<<t, s>> \in {First} \X Eager <=> t = First)
        /\ states[t][s] = IF t = First THEN <<t, s>> ELSE None
        /\ calls[<<t, s>>] = IF t = First THEN [pc |-> "done", tenant |-> First,
                                                service |-> s, made |-> TRUE] ELSE Unborn
  BY WhoseCall DEF Services
<1>3. \A q \in Requests : calls[q] = Unborn
  BY <1>0, WhoseCall DEF Calls
<1>4. TypeOK
  <2>1. states \in [Tenants -> [Services -> Calls \cup {None}]]
    BY <1>0, WhoseCall
  <2>2. \A c \in Calls : calls[c] \in Call
    <3>1. Unborn \in Call
      BY DEF Unborn, Call
    <3>2. \A s \in Eager : [pc |-> "done", tenant |-> First, service |-> s, made |-> TRUE] \in Call
      BY <1>0 DEF Call, Services
    <3>. QED
      BY <1>2, <1>3, <3>1, <3>2, WhoseCall
  <2>3. calls \in [Calls -> Call]
    BY <2>2
  <2>4. loaded \subseteq Calls
    BY <1>0, WhoseCall
  <2>5. rebuilds \in [Rebuilds -> Rebuild]
    BY DEF Rebuild
  <2>6. raw \in [Tenants -> Config \cup {None}]
    BY <1>1
  <2>. QED
    BY <1>0, <1>1, <2>1, <2>3, <2>4, <2>5, <2>6 DEF TypeOK
<1>5. RawInv
  BY <1>1 DEF RawInv
<1>6. RequestsInv
  <2>1. Unborn.pc = "idle" /\ ~Unborn.made /\ Unborn.service \notin Eager
    BY <1>0 DEF Unborn, Services
  <2>. QED
    BY <1>3, <2>1 DEF RequestsInv, RequestInv
<1>7. InitialisersInv
  <2>. SUFFICES ASSUME NEW t \in Tenants, NEW s \in Eager PROVE InitialiserInv(t, s)
    BY DEF InitialisersInv
  <2>1. CASE t = First
    <3>1. <<t, s>> \in loaded
      BY <2>1
    <3>2. /\ calls[<<t, s>>].pc = "done" /\ calls[<<t, s>>].tenant = t
          /\ calls[<<t, s>>].service = s /\ calls[<<t, s>>].made = TRUE
      BY <1>2, <2>1
    <3>3. states[t][s] = <<t, s>>
      BY <1>2, <2>1
    <3>. QED
      BY <2>1, <3>1, <3>2, <3>3 DEF InitialiserInv
  <2>2. CASE t # First
    BY <1>2, <2>2 DEF InitialiserInv, Unborn
  <2>. QED
    BY <2>1, <2>2
<1>8. BuiltInv
  BY <1>0, <1>2 DEF BuiltInv, Served, Tenants
<1>9. MapInv
  <2>. SUFFICES ASSUME NEW t \in Tenants, NEW s \in Services, states[t][s] # None
                PROVE  /\ calls[states[t][s]].tenant = t /\ calls[states[t][s]].service = s
                       /\ calls[states[t][s]].made
    BY DEF MapInv
  <2>1. t = First /\ s \in Eager
    OBVIOUS
  <2>. QED
    BY <1>0, <1>2, <2>1
<1>10. RebuildsInv
  BY DEF RebuildsInv, Served
<1>11. WritesInv
  BY DEF WritesInv
<1>. QED
  BY <1>4, <1>5, <1>6, <1>7, <1>8, <1>9, <1>10, <1>11 DEF CoreInv

\* CoreInv is an invariant.
THEOREM RuntimeInvariance == Spec => []CoreInv
<1>1. CoreInv /\ [Next]_vars => CoreInv'
  BY TypeStep, RawStep, RequestsStep, InitialisersStep, BuiltStep, MapStep, RebuildsStepInv,
     WritesStep DEF CoreInv
<1>. QED
  BY InitCore, <1>1, PTL DEF Spec

\* Every variable of the runtime has its type.
THEOREM RuntimeTypeCorrect == Spec => []TypeOK
  BY RuntimeInvariance, PTL DEF CoreInv

-----------------------------------------------------------------------------
(* The safety properties *)

\* What was emptied stays emptied; emptied anew is only the tenant that serves.
LEMMA EmptiedStays ==
    ASSUME CoreInv, [Next]_vars
    PROVE  /\ \A r \in Rebuilds : rebuilds[r].emptied # None =>
                                    rebuilds'[r].emptied = rebuilds[r].emptied
           /\ \A t \in Tenants : Emptied(t) => Emptied(t)'
           /\ Overlapped => Overlapped'
<1>1. ASSUME NEW r \in Rebuilds, rebuilds[r].emptied # None
      PROVE  rebuilds'[r].emptied = rebuilds[r].emptied
  <2>1. rebuilds[r].pc \in {"swap", "done"} /\ rebuilds[r] \in Rebuild
    BY <1>1 DEF CoreInv, RebuildsInv, TypeOK
  <2>. QED
    BY <2>1, RebuildSteps DEF RebuildStep, Rebuild
<1>2. None \notin Tenants
  BY RuntimeConstants
<1>3. \A t \in Tenants : Emptied(t) => Emptied(t)'
  BY <1>1, <1>2 DEF Emptied
<1>4. Overlapped => Overlapped'
  BY <1>1 DEF Overlapped
<1>. QED
  BY <1>1, <1>3, <1>4

\* A state object was made by a call that knows its tenant and service.
LEMMA MadePlace ==
    ASSUME CoreInv, NEW c \in Calls, calls[c].made
    PROVE  /\ calls[c].tenant \in Tenants /\ calls[c].service \in Services
           /\ calls[c].pc \notin {"idle", "called", "adapter"}
<1>1. calls[c].pc \notin {"idle", "called", "adapter"}
  <2>1. CASE c \in Requests
    BY <2>1 DEF CoreInv, RequestsInv, RequestInv, Services
  <2>2. CASE c \notin Requests
    BY <2>2, WhoseCall DEF CoreInv, InitialisersInv, InitialiserInv
  <2>. QED
    BY <2>1, <2>2
<1>. QED
  BY <1>1, CallPlace

\* A state object is made once and for all, for a tenant and a service.
LEMMA MadeStays ==
    ASSUME CoreInv, [Next]_vars, NEW c \in Calls, calls[c].made
    PROVE  /\ calls'[c].made /\ calls'[c].tenant = calls[c].tenant
           /\ calls'[c].service = calls[c].service
<1>1. calls[c].pc \notin {"idle", "called", "adapter"}
  BY MadePlace
<1>2. \A r \in Rebuilds, s \in Eager : c = <<r, s>> => rebuilds[r].pc # "manifests"
  BY <1>1, RuntimeConstants DEF CoreInv, InitialisersInv, InitialiserInv, Tenants
<1>3. CallStep(c)
  BY CallSteps
<1>. QED
  BY <1>1, <1>2, <1>3 DEF CallStep, Goes

\* Only UnloadCurrent empties a tenant or unloads its states.
LEMMA UnloadSteps ==
    ASSUME CoreInv, [Next]_vars
    PROVE  /\ unloading \cup unloaded \subseteq (unloading \cup unloaded)'
           /\ \/ \E r \in Rebuilds : UnloadCurrent(r)
              \/ /\ (unloading \cup unloaded)' = unloading \cup unloaded
                 /\ \A r \in Rebuilds : rebuilds'[r].emptied = rebuilds[r].emptied
<1>0. TypeOK
  BY DEF CoreInv
<1>1. CASE \E r \in Rebuilds : UnloadCurrent(r)
  BY <1>1 DEF UnloadCurrent
<1>2. ASSUME NEW c \in Calls, UnloadReturns(c)
      PROVE  (unloading \cup unloaded)' = unloading \cup unloaded /\ rebuilds' = rebuilds
  BY <1>2 DEF UnloadReturns
<1>3. ASSUME NEW c \in Calls, StateFails(c)
      PROVE  /\ (unloading \cup unloaded)' = unloading \cup unloaded
             /\ \A r \in Rebuilds : rebuilds'[r].emptied = rebuilds[r].emptied
  <2>1. \A r \in Rebuilds : rebuilds[r] \in Rebuild
    BY <1>0 DEF TypeOK
  <2>. QED
    BY <1>3, <2>1, FailsUnserved DEF StateFails, Rebuild
<1>4. ASSUME NEW r \in Rebuilds, \/ \E offer \in Offers : PutRaw(r, offer)
                                 \/ PutChords(r) \/ Initialise(r) \/ RebuildFails(r) \/ Swap(r)
      PROVE  /\ (unloading \cup unloaded)' = unloading \cup unloaded
             /\ \A x \in Rebuilds : rebuilds'[x].emptied = rebuilds[x].emptied
  <2>1. (unloading \cup unloaded)' = unloading \cup unloaded
    BY <1>4 DEF PutRaw, PutChords, BeginRebuild, Initialise, RebuildFails, Swap
  <2>2. CASE Initialise(r) \/ RebuildFails(r)
    BY <1>0, <2>1, <2>2 DEF TypeOK, Rebuild, Initialise, RebuildFails
  <2>3. CASE Swap(r)
    BY <1>0, <2>1, <2>3 DEF TypeOK, Rebuild, Swap
  <2>4. CASE \E config : BeginRebuild(r, config)
    BY <1>0, <2>1, <2>4 DEF TypeOK, Rebuild, BeginRebuild
  <2>. QED
    BY <1>4, <2>2, <2>3, <2>4 DEF PutRaw, PutChords
<1>5. CASE \/ \E q \in Requests, s \in Services : Dispatch(q, s)
           \/ \E c \in Calls : FindState(c) \/ GetAdapter(c) \/ MakeState(c) \/ StateLoaded(c)
           \/ \E r \in Rebuilds : Write(r) \/ WriteFails(r)
           \/ UNCHANGED vars
  BY <1>5 DEF Dispatch, FindState, GetAdapter, MakeState, StateLoaded, Write, WriteFails, vars
<1>. QED
  BY <1>1, <1>2, <1>3, <1>4, <1>5 DEF Next

\* Only states of a tenant that was emptied are ever unloaded.
LEMMA UnloadStep == CoreInv /\ UnloadInv /\ [Next]_vars => UnloadInv'
<1>. SUFFICES ASSUME CoreInv, UnloadInv, [Next]_vars, NEW c \in (unloading \cup unloaded)'
              PROVE  (calls[c].made /\ Emptied(calls[c].tenant))'
  BY DEF UnloadInv
<1>1. CASE c \in unloading \cup unloaded
  <2>1. calls[c].made /\ Emptied(calls[c].tenant) /\ c \in Calls
    BY <1>1 DEF UnloadInv, CoreInv, TypeOK
  <2>. QED
    BY <2>1, MadeStays, MadePlace, EmptiedStays DEF Emptied
<1>2. CASE c \notin unloading \cup unloaded
  <2>1. PICK r \in Rebuilds : UnloadCurrent(r)
    BY <1>2, UnloadSteps
  <2>2. c \in StatesOf(current)
    BY <1>2, <2>1 DEF UnloadCurrent
  <2>3. calls[c].made /\ calls[c].tenant = current /\ current \in Tenants
    BY <2>2 DEF StatesOf, CoreInv, MapInv, TypeOK
  <2>4. rebuilds'[r].emptied = current /\ calls' = calls
    BY <2>1 DEF UnloadCurrent, CoreInv, TypeOK, Rebuild
  <2>. QED
    BY <2>3, <2>4 DEF Emptied
<1>. QED
  BY <1>1, <1>2

\* The initialised states are there, and unloaded only when the tenant is emptied.
THEOREM RuntimeInitialised == Spec => []CurrentIsInitialised
<1>1. Init => UnloadInv
  BY DEF Init, UnloadInv
<1>2. CoreInv /\ UnloadInv => CurrentIsInitialised
  <2>. SUFFICES ASSUME CoreInv, UnloadInv, NEW s \in Eager \cap raw[current].services
                PROVE  /\ states[current][s] \in loaded
                       /\ Live(states[current][s]) \/ \E r \in Rebuilds : rebuilds[r].pc = "swap"
    BY DEF CurrentIsInitialised
  <2>1. current \in Tenants /\ Served(current)
    BY DEF CoreInv, TypeOK, RebuildsInv
  <2>2. calls[<<current, s>>].pc = "done"
    BY <2>1 DEF CoreInv, BuiltInv
  <2>3. /\ states[current][s] = <<current, s>> /\ <<current, s>> \in loaded
        /\ calls[<<current, s>>].made /\ calls[<<current, s>>].tenant = current
    BY <2>1, <2>2 DEF CoreInv, InitialisersInv, InitialiserInv
  <2>4. ASSUME <<current, s>> \in unloading \cup unloaded
        PROVE  \E r \in Rebuilds : rebuilds[r].pc = "swap"
    <3>1. PICK r \in Rebuilds : rebuilds[r].emptied = current
      BY <2>3, <2>4 DEF UnloadInv, Emptied
    <3>2. current # None
      BY <2>1, RuntimeConstants
    <3>. QED
      BY <3>1, <3>2 DEF CoreInv, RebuildsInv
  <2>. QED
    BY <2>3, <2>4 DEF Live
<1>3. CoreInv /\ UnloadInv /\ [Next]_vars => UnloadInv'
  BY UnloadStep
<1>. QED
  BY <1>1, <1>2, <1>3, RuntimeInvariance, PTL DEF Spec


\* Unless two rebuilds overlap, a tenant is emptied by the one that replaces it.
LEMMA EmptiedStep == CoreInv /\ EmptiedInv /\ [Next]_vars => EmptiedInv'
<1>. SUFFICES ASSUME CoreInv, EmptiedInv, [Next]_vars, ~Overlapped'
              PROVE  (/\ \A t \in Tenants : Served(t) /\ t # current => Emptied(t)
                      /\ \A r \in Rebuilds : rebuilds[r].pc = "swap" => rebuilds[r].emptied = current)'
  BY DEF EmptiedInv
<1>1. /\ \A t \in Tenants : Served(t) /\ t # current => Emptied(t)
      /\ \A r \in Rebuilds : rebuilds[r].pc = "swap" => rebuilds[r].emptied = current
  BY EmptiedStays DEF EmptiedInv
<1>2. /\ current \in Tenants /\ Served(current) /\ None \notin Tenants /\ First \notin Rebuilds
      /\ rebuilds \in [Rebuilds -> Rebuild] /\ Tenants = Rebuilds \cup {First}
  BY RuntimeConstants DEF CoreInv, TypeOK, RebuildsInv, Tenants
<1>3. CASE \E r \in Rebuilds : Swap(r)
  <2>1. PICK r \in Rebuilds : Swap(r)
    BY <1>3
  <2>2. /\ rebuilds[r].pc = "swap" /\ current' = r /\ rebuilds'[r].pc = "done"
        /\ \A x \in Rebuilds : x # r => rebuilds'[x] = rebuilds[x]
        /\ rebuilds'[r].emptied = current
    BY <1>1, <1>2, <2>1 DEF Swap, Rebuild
  <2>3. ASSUME NEW t \in Tenants, Served(t)', t # r
        PROVE  Emptied(t)'
    <3>1. Served(t)
      BY <1>2, <2>2, <2>3 DEF Served
    <3>2. CASE t = current
      BY <2>2, <3>2 DEF Emptied
    <3>3. CASE t # current
      BY <1>1, <3>1, <3>3, EmptiedStays
    <3>. QED
      BY <3>2, <3>3
  <2>4. ASSUME NEW x \in Rebuilds, rebuilds'[x].pc = "swap"
        PROVE  FALSE
    <3>1. x # r /\ rebuilds'[x].emptied = current
      BY <1>1, <2>2, <2>4
    <3>. QED
      BY <1>2, <2>2, <3>1 DEF Overlapped
  <2>. QED
    BY <2>2, <2>3, <2>4
<1>4. CASE ~\E r \in Rebuilds : Swap(r)
  <2>1. current' = current
    BY <1>4, RebuildSteps
  <2>2. ASSUME NEW r \in Rebuilds
        PROVE  /\ rebuilds'[r].pc = "done" => rebuilds[r].pc = "done"
               /\ rebuilds'[r].pc = "swap" => rebuilds'[r].emptied = current
    <3>1. current = r => rebuilds[r].pc = "done"
      BY <1>2 DEF Served
    <3>2. RebuildStep(r) /\ rebuilds[r] \in Rebuild
      BY <1>2, RebuildSteps
    <3>3. rebuilds'[r].pc = "done" => rebuilds[r].pc = "done"
      BY <2>1, <3>1, <3>2 DEF RebuildStep, Rebuild
    <3>4. rebuilds[r].pc = "swap" => rebuilds'[r].emptied = current
      BY <1>1, <3>2 DEF RebuildStep, Rebuild
    <3>5. rebuilds[r].pc # "swap" /\ rebuilds'[r].pc = "swap" => rebuilds'[r].emptied = current
      BY <3>2 DEF RebuildStep, Rebuild
    <3>. QED
      BY <3>3, <3>4, <3>5
  <2>3. ASSUME NEW t \in Tenants, Served(t)', t # current
        PROVE  Emptied(t)'
    <3>1. Served(t)
      BY <1>2, <2>2, <2>3 DEF Served
    <3>. QED
      BY <1>1, <2>3, <3>1, EmptiedStays
  <2>. QED
    BY <2>1, <2>2, <2>3
<1>. QED
  BY <1>3, <1>4

\* A tenant that was emptied served before, so its initialisers had returned.
LEMMA EmptiedServed ==
    ASSUME CoreInv, NEW c \in Calls, calls[c].pc = "adapter", Emptied(calls[c].tenant)
    PROVE  c \in Requests
<1>. SUFFICES ASSUME c \notin Requests PROVE FALSE
  OBVIOUS
<1>1. PICK t \in Tenants, s \in Eager : c = <<t, s>>
  BY WhoseCall
<1>2. InitialiserInv(t, s)
  BY DEF CoreInv, InitialisersInv
<1>3. calls[c].tenant = t /\ t # First /\ rebuilds[t].pc \in {"initialising", "failed"}
  BY <1>1, <1>2 DEF InitialiserInv
<1>4. PICK r \in Rebuilds : rebuilds[r].emptied = t
  BY <1>3 DEF Emptied
<1>5. Served(t)
  BY <1>4, RuntimeConstants DEF CoreInv, RebuildsInv
<1>. QED
  BY <1>3, <1>5 DEF Served

\* Only MakeState makes a state, and adds to those that are late.
LEMMA MakeSteps ==
    ASSUME CoreInv, [Next]_vars
    PROVE  /\ \A c \in Calls : calls'[c].made /\ ~calls[c].made => MakeState(c)
           /\ late \subseteq late' /\ \A c \in late' : c \in late \/ MakeState(c)
<1>1. \A c \in Calls : calls'[c].made /\ ~calls[c].made => MakeState(c)
  BY CallSteps DEF CallStep, Goes, Begins
<1>2. CASE \E c \in Calls : MakeState(c)
  <2>1. PICK c \in Calls : MakeState(c)
    BY <1>2
  <2>2. late' = late \/ late' = late \cup {c}
    BY <2>1 DEF MakeState
  <2>. QED
    BY <1>1, <2>1, <2>2
<1>3. CASE ~\E c \in Calls : MakeState(c)
  <2>1. late' = late
    BY <1>3 DEF Next, vars, Dispatch, FindState, GetAdapter, StateLoaded, StateFails,
                UnloadReturns, PutRaw, PutChords, BeginRebuild, Initialise, RebuildFails,
                UnloadCurrent, Swap, Write, WriteFails
  <2>. QED
    BY <1>1, <2>1
<1>. QED
  BY <1>2, <1>3

\* What an emptied tenant has made is unloaded, late, or no longer in its map.
LEMMA LateStep == CoreInv /\ LateInv /\ [Next]_vars => LateInv'
<1>. SUFFICES ASSUME CoreInv, LateInv, [Next]_vars
              PROVE  LateInv'
  OBVIOUS
<1>0. /\ calls \in [Calls -> Call] /\ states \in [Tenants -> [Services -> Calls \cup {None}]]
      /\ late \subseteq Calls
  BY DEF CoreInv, TypeOK
<1>1. ASSUME NEW c \in late'
      PROVE  c \in Requests /\ calls'[c].made
  <2>1. CASE c \in late
    BY <1>0, <2>1, MadeStays DEF LateInv
  <2>2. CASE c \notin late /\ MakeState(c)
    <3>1. late' = IF Emptied(calls[c].tenant) THEN late \cup {c} ELSE late
      BY <2>2 DEF MakeState
    <3>2. c \in Calls
      BY TypeStep DEF TypeOK
    <3>3. calls[c].pc = "adapter" /\ calls'[c].made
      BY <1>0, <2>2, <3>2 DEF MakeState, Call
    <3>. QED
      BY <1>1, <2>2, <3>1, <3>2, <3>3, EmptiedServed
  <2>. QED
    BY <1>1, <2>1, <2>2, MakeSteps
<1>2. ASSUME NEW c \in Calls, (calls[c].made /\ Emptied(calls[c].tenant))'
      PROVE  (c \in unloading \cup unloaded \cup late \/ Replaced(c))'
  <2>1. CASE ~calls[c].made
    <3>1. MakeState(c)
      BY <1>2, <2>1, MakeSteps
    <3>2. calls'[c].tenant = calls[c].tenant /\ rebuilds' = rebuilds
      BY <1>0, <3>1 DEF MakeState, Call
    <3>3. Emptied(calls[c].tenant)
      BY <1>2, <3>2 DEF Emptied
    <3>. QED
      BY <3>1, <3>3 DEF MakeState
  <2>2. CASE calls[c].made
    <3> DEFINE t == calls[c].tenant  s == calls[c].service
    <3>1. /\ calls'[c].tenant = t /\ calls'[c].service = s /\ t \in Tenants /\ s \in Services
          /\ calls[c].pc # "adapter"
      BY <2>2, MadeStays, MadePlace
    <3>2. states[t][s] # c => states'[t][s] # c
      <4>1. CASE states' = states
        BY <4>1
      <4>2. CASE \E x \in Calls : MakeState(x)
        <5>1. PICK x \in Calls : MakeState(x)
          BY <4>2
        <5>2. x # c
          BY <3>1, <5>1 DEF MakeState
        <5>3. states' = [states EXCEPT ![calls[x].tenant][calls[x].service] = x]
          BY <5>1 DEF MakeState
        <5>. QED
          BY <1>0, <3>1, <5>2, <5>3
      <4>. QED
        BY <4>1, <4>2, CallSteps
    <3>3. Replaced(c) => Replaced(c)'
      BY <3>1, <3>2 DEF Replaced, InMap
    <3>4. CASE Emptied(t)
      BY <2>2, <3>3, <3>4, UnloadSteps, MakeSteps DEF LateInv
    <3>5. CASE ~Emptied(t)
      <4>1. PICK r \in Rebuilds : UnloadCurrent(r)
        BY <1>2, <3>1, <3>5, UnloadSteps DEF Emptied
      <4>2. rebuilds' = [rebuilds EXCEPT ![r].pc = "swap", ![r].emptied = current]
        BY <4>1 DEF UnloadCurrent
      <4>3. t = current
        BY <1>2, <3>1, <3>5, <4>2 DEF Emptied, CoreInv, TypeOK, Rebuild
      <4>4. CASE Replaced(c)
        BY <3>3, <4>4
      <4>5. CASE ~Replaced(c)
        <5>1. c \in StatesOf(current)
          <6>1. c = states[current][s]
            BY <4>3, <4>5 DEF Replaced, InMap
          <6>2. c # None
            BY RuntimeConstants
          <6>. QED
            BY <3>1, <6>1, <6>2 DEF StatesOf
        <5>. QED
          BY <4>1, <5>1 DEF UnloadCurrent
      <4>. QED
        BY <4>4, <4>5
    <3>. QED
      BY <3>4, <3>5
  <2>. QED
    BY <2>1, <2>2
<1>. QED
  BY <1>1, <1>2 DEF LateInv

\* Every state that is neither referred to nor unloaded leaked for a known reason.
THEOREM RuntimeLeaks == Spec => []LeaksHaveACause
<1>1. Init => EmptiedInv /\ LateInv
  <2>. SUFFICES ASSUME Init PROVE EmptiedInv /\ LateInv
    OBVIOUS
  <2>1. None \notin Tenants /\ \A r \in Rebuilds : rebuilds[r].emptied = None /\ rebuilds[r].pc = "idle"
    BY RuntimeConstants DEF Init
  <2>2. \A t \in Tenants : ~Emptied(t)
    BY <2>1 DEF Emptied
  <2>3. EmptiedInv
    BY <2>1 DEF EmptiedInv, Served, Init
  <2>4. \A c \in Calls : calls[c].made => calls[c].tenant \in Tenants
    BY InitCore, MadePlace
  <2>. QED
    BY <2>2, <2>3, <2>4 DEF LateInv, Init
<1>2. CoreInv /\ EmptiedInv /\ LateInv => LeaksHaveACause
  <2>. SUFFICES ASSUME CoreInv, EmptiedInv, LateInv, NEW c \in Calls, Live(c)
                PROVE  LET t == calls[c].tenant IN
                         \/ t = current /\ ~Replaced(c)
                         \/ t # First /\ rebuilds[t].pc \in {"initialising", "swap", "failed"}
                         \/ Replaced(c) /\ calls[c].service \in Lazy
                         \/ c \in late /\ c \in Requests /\ calls[c].service \in Lazy
                         \/ Overlapped /\ ~Emptied(t)
    BY DEF LeaksHaveACause
  <2> DEFINE t == calls[c].tenant
  <2>1. /\ calls[c].made /\ c \notin unloading \cup unloaded
        /\ t \in Tenants /\ calls[c].service \in Services
        /\ calls[c].pc \notin {"idle", "called", "adapter"}
    BY MadePlace DEF Live
  <2>2. c \in Requests => calls[c].service \in Lazy /\ Served(t)
    BY <2>1 DEF CoreInv, RequestsInv, RequestInv, Services
  <2>3. c \notin Requests =>
          /\ ~Replaced(c)
          /\ t = First \/ rebuilds[t].pc \in {"initialising", "swap", "failed"} \/ Served(t)
    <3>. SUFFICES ASSUME c \notin Requests
                  PROVE  /\ ~Replaced(c)
                         /\ t = First \/ rebuilds[t].pc \in {"initialising", "swap", "failed"} \/ Served(t)
      OBVIOUS
    <3>1. PICK x \in Tenants, s \in Eager : c = <<x, s>>
      BY WhoseCall
    <3>2. InitialiserInv(x, s)
      BY DEF CoreInv, InitialisersInv
    <3>3. t = x /\ calls[c].service = s /\ states[x][s] = c
      BY <2>1, <3>1, <3>2 DEF InitialiserInv, CoreInv, TypeOK, Call
    <3>4. t = First \/ (t \in Rebuilds /\ rebuilds[t].pc \notin {"idle", "manifests"} /\ rebuilds[t] \in Rebuild)
      BY <2>1, <3>1, <3>2, <3>3 DEF InitialiserInv, Tenants, CoreInv, TypeOK
    <3>. QED
      BY <3>3, <3>4 DEF Replaced, InMap, Rebuild, Served
  <2>4. Served(First)
    BY DEF Served
  <2>5. CASE ~Served(t)
    BY <2>2, <2>3, <2>4, <2>5
  <2>6. CASE Served(t) /\ Emptied(t)
    BY <2>1, <2>2, <2>3, <2>6 DEF LateInv
  <2>7. CASE Served(t) /\ ~Emptied(t)
    <3>1. t # current => Overlapped
      BY <2>1, <2>7 DEF EmptiedInv
    <3>. QED
      BY <2>2, <2>3, <2>7, <3>1
  <2>. QED
    BY <2>5, <2>6, <2>7
<1>3. CoreInv /\ EmptiedInv /\ LateInv /\ [Next]_vars => (EmptiedInv /\ LateInv)'
  BY EmptiedStep, LateStep
<1>. QED
  BY <1>1, <1>2, <1>3, RuntimeInvariance, PTL DEF Spec

\* A rebuild's configuration has the chords of the one it read, and its own.
LEMMA ChordsStep == CoreInv /\ ChordsInv /\ [Next]_vars => ChordsInv'
<1>. SUFFICES ASSUME CoreInv, ChordsInv, [Next]_vars, NEW r \in Rebuilds, rebuilds'[r].pc # "idle"
              PROVE  (/\ rebuilds[r].base \in Tenants /\ Served(rebuilds[r].base)
                      /\ PutsChords(r) => raw[r].chords = raw[rebuilds[r].base].chords \cup {r})'
  BY DEF ChordsInv
<1>1. /\ rebuilds[r] \in Rebuild /\ current \in Tenants /\ Served(current) /\ RebuildStep(r)
  BY RebuildSteps DEF CoreInv, TypeOK, RebuildsInv
<1>2. CASE rebuilds[r].pc = "idle"
  <2>1. rebuilds'[r].base = current /\ (PutsChords(r)' => raw'[r].chords = raw[current].chords \cup {r})
    BY <1>1, <1>2 DEF RebuildStep, Rebuild
  <2>2. Served(current') /\ raw'[current] = raw[current] /\ \A t \in Tenants : Served(t) => Served(t)'
    BY <1>1, <1>2, ServedStays DEF RebuildStep, Rebuild
  <2>. QED
    BY <1>1, <2>1, <2>2 DEF Served
<1>3. CASE rebuilds[r].pc # "idle"
  <2>1. /\ rebuilds[r].base \in Tenants /\ Served(rebuilds[r].base)
        /\ PutsChords(r) => raw[r].chords = raw[rebuilds[r].base].chords \cup {r}
    BY <1>3 DEF ChordsInv
  <2>2. rebuilds'[r].base = rebuilds[r].base /\ raw'[r] = raw[r]
    BY <1>1, <1>3 DEF RebuildStep, Rebuild
  <2>3. raw'[rebuilds[r].base] = raw[rebuilds[r].base]
        /\ \A t \in Tenants : Served(t) => Served(t)'
    BY <2>1, ServedStays
  <2>. QED
    BY <2>1, <2>2, <2>3 DEF PutsChords, Served
<1>. QED
  BY <1>2, <1>3

\* A chord that was acknowledged stays unless a raw configuration or an overlap drops it.
LEMMA KeptStep == CoreInv /\ ChordsInv /\ ChordsAreKept /\ [Next]_vars => ChordsAreKept'
<1>. SUFFICES ASSUME CoreInv, ChordsInv, ChordsAreKept, [Next]_vars, NEW r \in Rebuilds,
                     (Finished(r) /\ PutsChords(r))'
              PROVE  (\/ r \in raw[current].chords
                      \/ \E r2 \in Rebuilds \ {r} :
                           /\ Finished(r2)
                           /\ PutsChords(r2) => rebuilds[r2].base # rebuilds[r2].replaced)'
  BY DEF ChordsAreKept
<1>0. current \in Tenants /\ Served(current) /\ rebuilds \in [Rebuilds -> Rebuild] /\ Rebuilds \subseteq Tenants
  BY DEF CoreInv, TypeOK, RebuildsInv, Tenants
<1>1. \A x \in Rebuilds : Finished(x) => rebuilds'[x] = rebuilds[x] /\ raw'[x] = raw[x]
  BY <1>0, ServedStays DEF Finished, Served
<1>2. CASE \E x \in Rebuilds : Swap(x)
  <2>1. PICK x \in Rebuilds : Swap(x)
    BY <1>2
  <2>2. /\ current' = x /\ rebuilds[x].pc = "swap" /\ raw' = raw
        /\ rebuilds'[x].pc = "done" /\ rebuilds'[x].replaced = current
        /\ rebuilds'[x].base = rebuilds[x].base
        /\ \A y \in Rebuilds : y # x => rebuilds'[y] = rebuilds[y]
    BY <1>0, <2>1 DEF Swap, Rebuild
  <2>3. CASE r = x
    BY <2>2, <2>3 DEF PutsChords
  <2>4. CASE r # x /\ PutsChords(x) /\ rebuilds[x].base = current /\ r \in raw[current].chords
    <3>1. raw[x].chords = raw[current].chords \cup {x}
      BY <2>2, <2>4 DEF ChordsInv
    <3>. QED
      BY <2>2, <2>4, <3>1
  <2>5. CASE r # x /\ (PutsChords(x) => rebuilds[x].base # current)
    BY <2>2, <2>5 DEF Finished, PutsChords
  <2>6. CASE r # x /\ r \notin raw[current].chords
    <3>1. Finished(r) /\ PutsChords(r)
      BY <2>2, <2>6 DEF Finished, PutsChords
    <3>2. PICK r2 \in Rebuilds \ {r} :
            Finished(r2) /\ (PutsChords(r2) => rebuilds[r2].base # rebuilds[r2].replaced)
      BY <2>6, <3>1 DEF ChordsAreKept
    <3>. QED
      BY <1>1, <2>2, <3>2 DEF Finished, PutsChords
  <2>. QED
    BY <2>3, <2>4, <2>5, <2>6
<1>3. CASE ~\E x \in Rebuilds : Swap(x)
  <2>1. current' = current /\ raw'[current] = raw[current]
    BY <1>0, <1>3, RebuildSteps, ServedStays
  <2>2. Finished(r)
    <3>1. current = r => rebuilds[r].pc = "done"
      BY <1>0, RuntimeConstants DEF Served
    <3>. QED
      BY <1>0, <2>1, <3>1, RebuildSteps DEF RebuildStep, Rebuild, Finished
  <2>3. PutsChords(r)
    BY <1>1, <2>2 DEF PutsChords
  <2>4. CASE r \in raw[current].chords
    BY <2>1, <2>4
  <2>5. CASE r \notin raw[current].chords
    <3>1. PICK r2 \in Rebuilds \ {r} :
            Finished(r2) /\ (PutsChords(r2) => rebuilds[r2].base # rebuilds[r2].replaced)
      BY <2>2, <2>3, <2>5 DEF ChordsAreKept
    <3>. QED
      BY <1>1, <3>1 DEF Finished, PutsChords
  <2>. QED
    BY <2>4, <2>5
<1>. QED
  BY <1>2, <1>3

\* No acknowledged chord is lost without a raw configuration or an overlap.
THEOREM RuntimeKeepsChords == Spec => []ChordsAreKept
<1>1. Init => ChordsInv /\ ChordsAreKept
  BY DEF Init, ChordsInv, ChordsAreKept, Finished
<1>. QED
  BY <1>1, ChordsStep, KeptStep, RuntimeInvariance, PTL DEF Spec

\* The file and the writes under way follow the tenant that serves.
LEMMA FileStep == CoreInv /\ FileCatchesUp /\ [Next]_vars => FileCatchesUp'
<1>. SUFFICES ASSUME CoreInv, FileCatchesUp, [Next]_vars PROVE FileCatchesUp'
  OBVIOUS
<1>0. current \in Tenants /\ raw'[current] = raw[current]
  BY ServedStays DEF CoreInv, TypeOK, RebuildsInv
<1>1. ASSUME NEW r \in Rebuilds, Swap(r)
      PROVE  FileCatchesUp'
  BY <1>1 DEF Swap, FileCatchesUp
<1>2. ASSUME NEW r \in Rebuilds, Write(r)
      PROVE  FileCatchesUp'
  BY <1>2 DEF Write, FileCatchesUp
<1>3. ASSUME NEW r \in Rebuilds, WriteFails(r)
      PROVE  FileCatchesUp'
  BY <1>3 DEF WriteFails, FileCatchesUp
<1>4. CASE UNCHANGED <<current, file, writes, unsure>>
  BY <1>0, <1>4 DEF FileCatchesUp
<1>5. CASE \/ \E q \in Requests, s \in Services : Dispatch(q, s)
           \/ \E c \in Calls : \/ FindState(c) \/ GetAdapter(c) \/ MakeState(c)
                               \/ StateLoaded(c) \/ StateFails(c) \/ UnloadReturns(c)
           \/ \E r \in Rebuilds, offer \in Offers : PutRaw(r, offer)
           \/ \E r \in Rebuilds : \/ PutChords(r) \/ Initialise(r) \/ RebuildFails(r)
                                  \/ UnloadCurrent(r)
           \/ UNCHANGED vars
  BY <1>4, <1>5 DEF Dispatch, FindState, GetAdapter, MakeState, StateLoaded, StateFails,
       UnloadReturns, PutRaw, PutChords, BeginRebuild, Initialise, RebuildFails, UnloadCurrent, vars
<1>. QED
  BY <1>1, <1>2, <1>3, <1>5 DEF Next

\* services.json ends up as the configuration served, unless writes overlap or fail.
THEOREM RuntimeFileCatchesUp == Spec => []FileCatchesUp
<1>1. Init => FileCatchesUp
  BY DEF Init, FileCatchesUp, Tenants
<1>. QED
  BY <1>1, FileStep, RuntimeInvariance, PTL DEF Spec
=============================================================================
