---------------------------- MODULE StoresProofs ----------------------------
(***************************************************************************)
(* Proofs about Stores: the types and the safety properties of the three   *)
(* stores, for any number of adapters, users, requests and paths.          *)
(*                                                                         *)
(* They share nothing, so that each has an invariant of its own and a step *)
(* of one leaves those of the others alone.                                *)
(***************************************************************************)
EXTENDS Stores, TLAPS

(***************************************************************************)
(* MongoDB.  An index is promised to the operation that is to store a      *)
(* schema, from the moment it has made it (or has found the same ones      *)
(* stored) until the collection is dropped (Operation).                    *)
(***************************************************************************)
Pcs == {"idle", "connect", "connecting", "waiting", "ensure", "list", "create", "schema", "find", "update",
        "add", "remove", "look", "drop", "forget", "index", "store"}
AllIndexes == {"unique field", "two fields"}

Ensuring == {"read", "put", "insert", "list", "filter", "deleteDataset"} \cup SchemaKinds

\* Where which operation may be.
Place(pc, kind, connected, se) ==
    /\ pc \in {"ensure", "list", "create"} => kind \in Ensuring
    /\ pc \in {"connect", "connecting", "waiting"} /\ connected => kind \in Ensuring
    /\ pc = "schema" => kind \in Ensuring \ {"deleteDataset"}
    /\ pc \in {"look", "drop"} => kind = "deleteDataset"
    /\ pc \in {"index", "store"} => kind = "writeSchema"
    /\ pc \in {"schema", "forget", "index", "store"} => se

\* An operation e, when the schema collection is there or not (se) and the indexes are ix.
Operation(e, se, ix) ==
    /\ e \in [pc : Pcs, kind : Kinds \cup {"query", None}, on : Adapters \cup {None}, number : Nat,
              schema : Schemas \cup {None}, connected : BOOLEAN, left : SUBSET AllIndexes, tries : 0..Retries,
              calm : BOOLEAN]
    /\ e.pc # "idle" => e.kind \in Kinds \cup {"query"} /\ e.schema \in Schemas /\ e.on \in Adapters
    /\ Place(e.pc, e.kind, e.connected, se)
    /\ e.pc \in {"index", "store"} => e.schema.valid
    /\ e.pc = "index" /\ e.calm => Models(e.schema) \ e.left \subseteq ix
    /\ e.pc = "store" /\ e.calm => Models(e.schema) \subseteq ix

OpsInv == ops = [o \in Ops |-> ops[o]] /\ \A o \in Ops : Operation(ops[o], schemasExist, indexes)

CollectionInv ==
    /\ docs \subseteq [by : Nat, try : {0}] /\ exists \in BOOLEAN /\ indexes \subseteq AllIndexes
    /\ ~exists => docs = {} /\ indexes = {}
    /\ schemasExist \in BOOLEAN /\ dropped \in BOOLEAN /\ begun \in Nat
    /\ stored \in Schemas \cup {None}
    /\ stored # None => schemasExist /\ stored.valid

ClientInv ==
    /\ client \in [Adapters -> {"none", "connecting", "open"}]
    /\ \A a \in Adapters : client[a] = "connecting" => \E o \in Ops : Is(o, "connecting") /\ ops[o].on = a

MongoInv == OpsInv /\ CollectionInv /\ ClientInv /\ IndexesAreMade
-----------------------------------------------------------------------------
LEMMA ModelsAreIndexes == \A s \in Schemas : Models(s) \subseteq AllIndexes
  BY DEF Models, FieldIndexes, CompositeIndexes, AllIndexes, Schemas

LEMMA IdleIsOperation == ASSUME NEW se \in BOOLEAN, NEW ix PROVE Operation(Idle, se, ix)
<1>1. 0 \in 0..Retries
  BY RetriesConstant
<1> QED BY <1>1 DEF Operation, Idle, Pcs, Place

\* The schema collection stays, and what is promised of the indexes holds of more of them.
LEMMA OperationKept ==
    ASSUME NEW e, NEW se \in BOOLEAN, NEW ix, NEW se2 \in BOOLEAN, NEW ix2,
           Operation(e, se, ix), se => se2, ix \subseteq ix2
    PROVE  Operation(e, se2, ix2)
  BY DEF Operation, Place

\* What only says where an operation is.
LEMMA OperationGoes ==
    ASSUME NEW e, NEW se \in BOOLEAN, NEW ix, Operation(e, se, ix), e.pc # "idle",
           NEW pc \in Pcs \ {"index", "store"}, Place(pc, e.kind, e.connected, se)
    PROVE  Operation([e EXCEPT !.pc = pc], se, ix)
  BY DEF Operation

\* An operation whose call failed for a time is where it can be done again, or is no more.
LEMMA OperationRetries ==
    ASSUME NEW o \in Ops, NEW se \in BOOLEAN, NEW ix, Operation(ops[o], se, ix), ops[o].pc # "idle",
           ops[o].tries < Retries
    PROVE  Operation(Again(o), se, ix)
<1> DEFINE e == ops[o]
<1> DEFINE left == IF e.pc = "index" THEN Models(e.schema) ELSE e.left
<1> DEFINE new == [e EXCEPT !.pc = Section(o), !.tries = @ + 1, !.left = left]
<1>1. e.pc # "idle" /\ e.schema \in Schemas
  BY DEF Operation
<1>2. Section(o) \in Pcs /\ (Section(o) = "drop" \/ Section(o) = e.pc)
  BY DEF Section, Operation, Pcs
<1>6. Place(Section(o), e.kind, e.connected, se)
  BY <1>1 DEF Section, Operation, Place
<1>3. left \in SUBSET AllIndexes /\ (e.pc = "index" => left = Models(e.schema))
  BY <1>1, ModelsAreIndexes DEF Operation
<1>4. e.tries + 1 \in 0..Retries
  <2>1. e.tries \in 0..Retries
    BY DEF Operation
  <2> QED BY <2>1, RetriesConstant
<1>5. Operation(new, se, ix)
  <2> HIDE DEF left
  <2> QED BY <1>1, <1>2, <1>3, <1>4, <1>6 DEF Operation
<1> QED BY <1>5 DEF Again

-----------------------------------------------------------------------------
(* How one operation moves, and the others stay *)

Others(o) == \A p \in Ops \ {o} : ops'[p] = ops[p]
CollectionGrows == schemasExist' \in BOOLEAN /\ (schemasExist => schemasExist') /\ indexes \subseteq indexes'

LEMMA OpMoves ==
    ASSUME MongoInv, CollectionGrows, NEW o \in Ops, NEW e, ops' = [ops EXCEPT ![o] = e],
           Operation(e, schemasExist', indexes')
    PROVE  OpsInv' /\ Others(o)
<1>1. \A p \in Ops : Operation(ops[p], schemasExist', indexes')
  BY OperationKept DEF MongoInv, OpsInv, CollectionGrows, CollectionInv
<1> QED BY <1>1 DEF MongoInv, OpsInv, Others

LEMMA OpFails ==
    ASSUME MongoInv, CollectionGrows, NEW o \in Ops, ~Is(o, "idle"), FailsForATime(o) \/ FailsForGood(o)
    PROVE  OpsInv' /\ Others(o)
<1>1. Operation(ops[o], schemasExist', indexes')
  BY OperationKept DEF MongoInv, OpsInv, CollectionGrows, CollectionInv
<1>2. CASE Ends(o)
  BY <1>2, IdleIsOperation, OpMoves DEF Ends, CollectionGrows
<1>3. CASE ~Ends(o)
  <2>1. ops[o].tries < Retries /\ ops' = [ops EXCEPT ![o] = Again(o)]
    BY <1>3 DEF FailsForATime, FailsForGood
  <2>2. Operation(Again(o), schemasExist', indexes')
    BY <1>1, <2>1, OperationRetries DEF CollectionGrows, Is
  <2> QED BY <2>1, <2>2, OpMoves
<1> QED BY <1>2, <1>3

LEMMA OpGoes ==
    ASSUME MongoInv, CollectionGrows, NEW o \in Ops, ~Is(o, "idle"), NEW pc \in Pcs \ {"index", "store"}, Goes(o, pc),
           Place(pc, ops[o].kind, ops[o].connected, schemasExist')
    PROVE  OpsInv' /\ Others(o)
<1>1. Operation(ops[o], schemasExist', indexes')
  BY OperationKept DEF MongoInv, OpsInv, CollectionGrows, CollectionInv
<1> DEFINE new == [ops[o] EXCEPT !.pc = pc]
<1>2. Operation(new, schemasExist', indexes')
  BY <1>1, OperationGoes DEF CollectionGrows, Is
<1>3. ops' = [ops EXCEPT ![o] = new]
  BY DEF Goes
<1> HIDE DEF new
<1> QED BY <1>2, <1>3, OpMoves

LEMMA OpDone ==
    ASSUME MongoInv, CollectionGrows, NEW o \in Ops, ~Is(o, "idle"), NEW pc \in (Pcs \ {"index", "store"}) \cup {"end"},
           Done(o, pc), pc # "end" => Place(pc, ops[o].kind, ops[o].connected, schemasExist')
    PROVE  OpsInv' /\ Others(o)
<1>1. CASE FailsForATime(o)
  BY <1>1, OpFails
<1>2. CASE Ends(o)
  BY <1>2, IdleIsOperation, OpMoves DEF Ends, CollectionGrows
<1>3. CASE pc # "end" /\ Goes(o, pc)
  BY <1>3, OpGoes
<1> QED BY <1>1, <1>2, <1>3 DEF Done

LEMMA ClientKept ==
    ASSUME MongoInv, NEW o \in Ops, ~Is(o, "connecting"), Others(o), UNCHANGED client
    PROVE  ClientInv'
  BY DEF MongoInv, ClientInv, Others, Is

\* Most steps leave the collection alone.
LEMMA CollectionKept ==
    ASSUME MongoInv, UNCHANGED data, begun' \in Nat
    PROVE  CollectionGrows /\ CollectionInv' /\ IndexesAreMade'
  BY DEF MongoInv, CollectionGrows, CollectionInv, IndexesAreMade, data

LEMMA FailureKeeps ==
    ASSUME MongoInv, NEW o \in Ops, ~Is(o, "idle"), ~Is(o, "connecting"), NotDone(o), Rest
    PROVE  MongoInv'
<1>1. CollectionGrows /\ CollectionInv' /\ IndexesAreMade'
  BY CollectionKept DEF NotDone, Rest, MongoInv, CollectionInv
<1>2. OpsInv' /\ Others(o)
  BY <1>1, OpFails DEF NotDone
<1> QED BY <1>1, <1>2, ClientKept DEF MongoInv, Rest

\* A call that has worked and has changed nothing in the collection.
LEMMA AnswerKeeps ==
    ASSUME MongoInv, NEW o \in Ops, ~Is(o, "idle"), ~Is(o, "connecting"), UNCHANGED data, Rest,
           NEW pc \in (Pcs \ {"index", "store"}) \cup {"end"}, Done(o, pc),
           pc # "end" => Place(pc, ops[o].kind, ops[o].connected, schemasExist)
    PROVE  MongoInv'
<1>1. CollectionGrows /\ CollectionInv' /\ IndexesAreMade'
  BY CollectionKept DEF Rest, MongoInv, CollectionInv
<1>2. OpsInv' /\ Others(o)
  BY <1>1, OpDone DEF data
<1> QED BY <1>1, <1>2, ClientKept DEF MongoInv, Rest

-----------------------------------------------------------------------------
(* The steps of MongoDB: those that reach a connection *)

LEMMA MongoInitially == Init => MongoInv
<1> SUFFICES ASSUME Init PROVE MongoInv
  OBVIOUS
<1>1. OpsInv
  BY IdleIsOperation DEF Init, OpsInv
<1>2. CollectionInv /\ IndexesAreMade
  BY DEF Init, CollectionInv, IndexesAreMade
<1>3. ClientInv
  BY DEF Init, ClientInv
<1> QED BY <1>1, <1>2, <1>3 DEF MongoInv

LEMMA BeginKeeps == ASSUME MongoInv, NEW o \in Ops, Begin(o) PROVE MongoInv'
<1>1. PICK a \in Adapters, kind \in Kinds \cup {"query"}, s \in Schemas :
        ops' = [ops EXCEPT ![o] = [Idle EXCEPT !.pc = "connect", !.kind = kind, !.on = a,
                                      !.number = IF kind = "insert" THEN begun + 1 ELSE 0, !.schema = s]]
  BY DEF Begin
<1>2. begun \in Nat /\ begun' \in Nat /\ (IF kind = "insert" THEN begun + 1 ELSE 0) \in Nat
  BY DEF MongoInv, CollectionInv, Begin
<1>3. CollectionGrows /\ CollectionInv' /\ IndexesAreMade'
  BY <1>2, CollectionKept DEF Begin
<1> DEFINE n == IF kind = "insert" THEN begun + 1 ELSE 0
<1> DEFINE new == [Idle EXCEPT !.pc = "connect", !.kind = kind, !.on = a, !.number = n, !.schema = s]
<1>4. Operation(new, schemasExist', indexes')
  <2>1. Operation(Idle, schemasExist', indexes')
    BY <1>3, IdleIsOperation DEF CollectionGrows
  <2>2. n \in Nat
    BY <1>2
  <2>3. Place("connect", kind, Idle.connected, schemasExist')
    BY DEF Place, Idle
  <2> HIDE DEF n
  <2> QED BY <2>1, <2>2, <2>3 DEF Operation, Pcs
<1>5. ops' = [ops EXCEPT ![o] = new]
  BY <1>1
<1>6. OpsInv' /\ Others(o)
  <2> HIDE DEF new
  <2> QED BY <1>3, <1>4, <1>5, OpMoves
<1> QED BY <1>3, <1>6, ClientKept DEF MongoInv, Begin, Is

LEMMA ConnectedOperation ==
    ASSUME MongoInv, NEW q \in Ops, ops[q].pc \in {"connect", "waiting", "connecting"}
    PROVE  Operation([ops[q] EXCEPT !.connected = TRUE, !.pc = IF ops[q].connected THEN "list" ELSE First(q)],
                     schemasExist, indexes)
<1>1. Operation(ops[q], schemasExist, indexes) /\ ops[q].kind \in Kinds \cup {"query"}
  BY DEF MongoInv, OpsInv, Operation
<1>2. First(q) \in Pcs \ {"idle", "index", "store"} /\ \A c : Place(First(q), ops[q].kind, c, schemasExist)
  BY <1>1 DEF First, Kinds, SchemaKinds, Pcs, Place, Ensuring
<1> DEFINE pc == IF ops[q].connected THEN "list" ELSE First(q)
<1>3. pc \in Pcs \ {"idle", "index", "store"} /\ Place(pc, ops[q].kind, TRUE, schemasExist)
  <2>1. CASE ops[q].connected
    <3>1. ops[q].kind \in Ensuring
      BY <1>1, <2>1 DEF Operation, Place
    <3> QED BY <2>1, <3>1 DEF Pcs, Place
  <2>2. CASE ~ops[q].connected
    BY <1>2, <2>2
  <2> QED BY <2>1, <2>2
<1> HIDE DEF pc
<1>4. Operation([ops[q] EXCEPT !.connected = TRUE, !.pc = pc], schemasExist, indexes)
  BY <1>1, <1>3 DEF Operation
<1> QED BY <1>4 DEF pc

LEMMA HasConnectionKeeps == ASSUME MongoInv, NEW o \in Ops, HasConnection(o) PROVE MongoInv'
<1>1. CollectionGrows /\ CollectionInv' /\ IndexesAreMade' /\ UNCHANGED <<schemasExist, indexes, client>>
  BY CollectionKept DEF HasConnection, MongoInv, CollectionInv, data
<1> DEFINE new == [ops[o] EXCEPT !.connected = TRUE, !.pc = IF ops[o].connected THEN "list" ELSE First(o)]
<1>2. Operation(new, schemasExist', indexes')
  BY <1>1, ConnectedOperation DEF HasConnection, Is
<1>3. ops' = [ops EXCEPT ![o] = new]
  BY DEF HasConnection, Resume
<1>4. OpsInv' /\ Others(o)
  <2> HIDE DEF new
  <2> QED BY <1>1, <1>2, <1>3, OpMoves
<1> QED BY <1>1, <1>4, ClientKept DEF MongoInv, HasConnection, Is

LEMMA ConnectsFirstKeeps == ASSUME MongoInv, NEW o \in Ops, ConnectsFirst(o) PROVE MongoInv'
<1>1. CollectionGrows /\ CollectionInv' /\ IndexesAreMade'
  BY CollectionKept DEF ConnectsFirst, MongoInv, CollectionInv
<1>2. OpsInv' /\ Others(o)
  <2>1. Operation(ops[o], schemasExist', indexes') /\ Is(o, "connect")
    BY DEF ConnectsFirst, data, MongoInv, OpsInv
  <2> QED BY <1>1, <2>1, OpGoes DEF ConnectsFirst, Is, Pcs, Operation, Place
<1>3. ops'[o].pc = "connecting" /\ ops'[o].on = ops[o].on /\ ops[o].on \in Adapters /\ Is(o, "connect")
  BY DEF ConnectsFirst, Goes, Is, MongoInv, OpsInv, Operation
<1>4. ClientInv'
  BY <1>2, <1>3 DEF MongoInv, ClientInv, Others, Is, ConnectsFirst
<1> QED BY <1>1, <1>2, <1>4 DEF MongoInv

LEMMA WaitKeeps == ASSUME MongoInv, NEW o \in Ops, Wait(o) PROVE MongoInv'
<1>1. CollectionGrows /\ CollectionInv' /\ IndexesAreMade'
  BY CollectionKept DEF Wait, MongoInv, CollectionInv
<1>2. OpsInv' /\ Others(o)
  <2>1. Operation(ops[o], schemasExist', indexes') /\ Is(o, "connect")
    BY DEF Wait, data, MongoInv, OpsInv
  <2> QED BY <1>1, <2>1, OpGoes DEF Wait, Is, Pcs, Operation, Place
<1> QED BY <1>1, <1>2, ClientKept DEF MongoInv, Wait, Is

\* Those who waited go on or have failed; whoever connects another adapter still does.
LEMMA ConnectingKeeps == ASSUME MongoInv, NEW o \in Ops, Connecting(o) PROVE MongoInv'
<1>1. CollectionGrows /\ CollectionInv' /\ IndexesAreMade' /\ UNCHANGED <<schemasExist, indexes>>
  BY CollectionKept DEF Connecting, MongoInv, CollectionInv, data
<1>2. \A q \in Ops : q \in Waiting(o) => ops[q].pc \in {"waiting", "connecting"} /\ (q = o \/ ops[q].pc = "waiting")
  BY DEF Waiting, Connecting, Running, Is
<1>3. \A q \in Ops : Operation(Idle, schemasExist', indexes') /\ Operation(ops[q], schemasExist', indexes')
  BY <1>1, IdleIsOperation DEF MongoInv, OpsInv, CollectionGrows
<1>4. OpsInv'
  <2>1. CASE ops' = [q \in Ops |-> IF q \in Waiting(o) THEN Idle ELSE ops[q]]
    BY <2>1, <1>3 DEF OpsInv
  <2>2. CASE ops' = [q \in Ops |-> IF q \in Waiting(o) THEN
                        [ops[q] EXCEPT !.connected = TRUE, !.pc = IF ops[q].connected THEN "list" ELSE First(q)]
                     ELSE ops[q]]
    <3>1. \A q \in Ops : q \in Waiting(o) => Operation([ops[q] EXCEPT !.connected = TRUE,
                            !.pc = IF ops[q].connected THEN "list" ELSE First(q)], schemasExist', indexes')
      BY <1>1, <1>2, ConnectedOperation
    <3>2. \A q \in Ops : Operation(ops'[q], schemasExist', indexes')
      BY <2>2, <3>1, <1>3, Zenon
    <3> QED BY <2>2, <3>2 DEF OpsInv
  <2> QED BY <2>1, <2>2 DEF Connecting
<1>5. ClientInv'
  <2>1. \A q \in Ops : q \notin Waiting(o) => ops'[q] = ops[q]
    BY DEF Connecting
  <2>3. ops[o].on \in Adapters
    BY DEF Connecting, MongoInv, OpsInv, Operation, Is
  <2>2. client' \in [Adapters -> {"none", "connecting", "open"}] /\ client'[ops[o].on] # "connecting"
        /\ \A a \in Adapters : a # ops[o].on => client'[a] = client[a]
    BY <2>3 DEF Connecting, MongoInv, ClientInv
  <2> QED BY <1>2, <2>1, <2>2 DEF MongoInv, ClientInv, Is
<1> QED BY <1>1, <1>4, <1>5 DEF MongoInv

LEMMA CloseKeeps == ASSUME MongoInv, NEW a \in Adapters, Close(a) PROVE MongoInv'
<1>1. CollectionGrows /\ CollectionInv' /\ IndexesAreMade'
  BY CollectionKept DEF Close, MongoInv, CollectionInv
<1> QED BY <1>1 DEF MongoInv, Close, OpsInv, ClientInv, data, Is

-----------------------------------------------------------------------------
(* The steps of MongoDB: calls that leave the collection as it is *)

LEMMA EnsureKeeps == ASSUME MongoInv, NEW o \in Ops, Ensure(o) PROVE MongoInv'
<1>1. CollectionGrows /\ CollectionInv' /\ IndexesAreMade'
  BY CollectionKept DEF Ensure, MongoInv, CollectionInv
<1>2. \E pc \in {"list", "connect"} : Goes(o, pc)
  BY DEF Ensure
<1>3. OpsInv' /\ Others(o)
  <2>1. Operation(ops[o], schemasExist', indexes')
    BY DEF Ensure, data, MongoInv, OpsInv
  <2>2. Is(o, "ensure")
    BY DEF Ensure
  <2> QED BY <1>1, <1>2, <2>1, <2>2, OpGoes DEF Is, Pcs, Operation, Place
<1> QED BY <1>1, <1>3, ClientKept DEF MongoInv, Ensure, Is

\* Where an operation goes once the schema collection is there.
LEMMA ThenIsNext ==
    ASSUME NEW o, ops[o].kind \in Ensuring
    PROVE  Then(o) \in {"forget", "schema"} /\ Place(Then(o), ops[o].kind, ops[o].connected, TRUE)
  BY DEF Then, Place, Ensuring

LEMMA ListSchemasKeeps == ASSUME MongoInv, NEW o \in Ops, ListSchemas(o) PROVE MongoInv'
<1>1. Rest /\ ~Is(o, "idle") /\ ~Is(o, "connecting")
  BY DEF ListSchemas, Is
<1>5. ops[o].kind \in Ensuring
  BY DEF ListSchemas, Is, MongoInv, OpsInv, Operation, Place
<1>2. CASE NotDone(o)
  BY <1>1, <1>2, FailureKeeps
<1>3. CASE UNCHANGED data /\ schemasExist /\ Done(o, Then(o))
  BY <1>1, <1>3, <1>5, ThenIsNext, AnswerKeeps DEF Pcs
<1>4. CASE UNCHANGED data /\ Done(o, "create")
  BY <1>1, <1>4, <1>5, AnswerKeeps DEF Pcs, Place
<1> QED BY <1>2, <1>3, <1>4 DEF ListSchemas

LEMMA CreateSchemasKeeps == ASSUME MongoInv, NEW o \in Ops, CreateSchemas(o) PROVE MongoInv'
<1>1. Rest /\ ~Is(o, "idle") /\ ~Is(o, "connecting")
  BY DEF CreateSchemas, Is
<1>4. ops[o].kind \in Ensuring
  BY DEF CreateSchemas, Is, MongoInv, OpsInv, Operation, Place
<1>2. CASE NotDone(o)
  BY <1>1, <1>2, FailureKeeps
<1>3. CASE schemasExist' = TRUE /\ Done(o, Then(o)) /\ UNCHANGED <<docs, exists, indexes, stored, dropped>>
  <2>1. CollectionGrows /\ CollectionInv' /\ IndexesAreMade'
    BY <1>1, <1>3 DEF MongoInv, CollectionInv, CollectionGrows, IndexesAreMade, Rest
  <2>2. OpsInv' /\ Others(o)
    BY <1>1, <1>3, <1>4, <2>1, ThenIsNext, OpDone DEF Pcs
  <2> QED BY <1>1, <2>1, <2>2, ClientKept DEF MongoInv, Rest
<1> QED BY <1>2, <1>3 DEF CreateSchemas

LEMMA ReadSchemaKeeps == ASSUME MongoInv, NEW o \in Ops, ReadSchema(o) PROVE MongoInv'
<1>1. Rest /\ ~Is(o, "idle") /\ ~Is(o, "connecting")
  BY DEF ReadSchema, Is
<1>2. CASE NotDone(o)
  BY <1>1, <1>2, FailureKeeps
<1>3. CASE UNCHANGED <<data, faults>> /\ Ends(o)
  BY <1>1, <1>3, AnswerKeeps DEF Done
<1>4. CASE UNCHANGED data /\ \E pc \in {"end", "find", "update", "add"} : Done(o, pc)
  BY <1>1, <1>4, AnswerKeeps DEF Pcs, Place
<1>5. ops[o].kind \in Ensuring \ {"deleteDataset"}
  BY DEF ReadSchema, MongoInv, OpsInv, Operation, Is, Place
<1> QED BY <1>2, <1>3, <1>4, <1>5 DEF ReadSchema, Ensuring

LEMMA FindsKeeps ==
    ASSUME MongoInv, NEW o \in Ops, NEW kind, NEW pc \in {"end", "ensure"}, Finds(o, kind, pc),
           pc = "ensure" => kind \in Ensuring
    PROVE  MongoInv'
<1>1. Rest /\ ~Is(o, "idle") /\ ~Is(o, "connecting")
  BY DEF Finds, Is
<1>2. CASE NotDone(o)
  BY <1>1, <1>2, FailureKeeps
<1>3. CASE UNCHANGED data /\ Done(o, pc)
  BY <1>1, <1>3, AnswerKeeps DEF Pcs, Place, Finds
<1> QED BY <1>2, <1>3 DEF Finds

LEMMA LookKeeps == ASSUME MongoInv, NEW o \in Ops, Look(o) PROVE MongoInv'
<1>1. Rest /\ ~Is(o, "idle") /\ ~Is(o, "connecting")
  BY DEF Look, Is
<1>2. CASE NotDone(o)
  BY <1>1, <1>2, FailureKeeps
<1>3. CASE UNCHANGED data /\ \E pc \in {"drop", "end"} : Done(o, pc)
  <2>1. ops[o].kind = "deleteDataset"
    BY DEF Look, Is, MongoInv, OpsInv, Operation, Place
  <2> QED BY <1>1, <1>3, <2>1, AnswerKeeps DEF Pcs, Place
<1> QED BY <1>2, <1>3 DEF Look

-----------------------------------------------------------------------------
(* The steps of MongoDB: documents *)

\* An insertion that is tried again has the identity it had.
LEMMA AddsKeeps ==
    ASSUME MongoInv, NEW o \in Ops, Rest, ~Is(o, "idle"), ~Is(o, "connecting"), NEW d \in [by : Nat, try : {0}], Adds(o, d)
    PROVE  MongoInv'
<1>1. CollectionGrows /\ CollectionInv' /\ IndexesAreMade'
  BY DEF MongoInv, CollectionInv, CollectionGrows, IndexesAreMade, Rest, Adds
<1>2. OpsInv' /\ Others(o)
  BY <1>1, OpDone DEF Adds
<1> QED BY <1>1, <1>2, ClientKept DEF MongoInv, Rest

LEMMA UpdateKeeps == ASSUME MongoInv, NEW o \in Ops, Update(o) PROVE MongoInv'
<1>1. Rest /\ ~Is(o, "idle") /\ ~Is(o, "connecting")
  BY DEF Update, Is
<1>2. Key \in [by : Nat, try : {0}]
  BY DEF Key
<1> QED BY <1>1, <1>2, FailureKeeps, AddsKeeps DEF Update

LEMMA AddKeeps == ASSUME MongoInv, NEW o \in Ops, Add(o) PROVE MongoInv'
<1>1. Rest /\ ~Is(o, "idle") /\ ~Is(o, "connecting")
  BY DEF Add, Is
<1>2. Identity(o) \in [by : Nat, try : {0}]
  BY DEF Identity, MongoInv, OpsInv, Operation
<1> QED BY <1>1, <1>2, FailureKeeps, AddsKeeps DEF Add

LEMMA RemoveKeeps == ASSUME MongoInv, NEW o \in Ops, Remove(o) PROVE MongoInv'
<1>1. Rest /\ ~Is(o, "idle") /\ ~Is(o, "connecting")
  BY DEF Remove, Is
<1>2. CASE NotDone(o)
  BY <1>1, <1>2, FailureKeeps
<1>3. CASE docs' = docs \ {Key} /\ UNCHANGED <<exists, indexes, schemasExist, stored, dropped>> /\ Done(o, "end")
  <2>1. CollectionGrows /\ CollectionInv' /\ IndexesAreMade'
    BY <1>1, <1>3 DEF MongoInv, CollectionInv, CollectionGrows, IndexesAreMade, Rest
  <2>2. OpsInv' /\ Others(o)
    BY <1>1, <1>3, <2>1, OpDone
  <2> QED BY <1>1, <2>1, <2>2, ClientKept DEF MongoInv, Rest
<1> QED BY <1>2, <1>3 DEF Remove

-----------------------------------------------------------------------------
(* The steps of MongoDB: the collection is dropped, schemas come and go *)

\* Whoever has made indexes has made them for nothing.
LEMMA DropKeeps == ASSUME MongoInv, NEW o \in Ops, Drop(o) PROVE MongoInv'
<1>1. Rest /\ Is(o, "drop")
  BY DEF Drop
<1>2. CASE NotDone(o)
  BY <1>1, <1>2, FailureKeeps DEF Is
<1>3. CASE ~NotDone(o)
  <2>1. docs' = {} /\ exists' = FALSE /\ indexes' = {} /\ dropped' = TRUE /\ UNCHANGED <<schemasExist, stored>>
    BY <1>3 DEF Drop
  <2>2. CollectionInv' /\ IndexesAreMade' /\ schemasExist \in BOOLEAN
    BY <1>1, <2>1 DEF MongoInv, CollectionInv, IndexesAreMade, Rest
  <2>3. \A q \in Ops : Operation(ops[q], schemasExist, indexes)
    BY DEF MongoInv, OpsInv
  <2>4. \A q \in Ops : Operation([ops[q] EXCEPT !.calm = FALSE], schemasExist, {})
    BY <2>3 DEF Operation
  <2>5. Operation([ops[o] EXCEPT !.calm = FALSE, !.pc = "ensure"], schemasExist, {})
    <3>1. ops[o].kind = "deleteDataset"
      BY <1>1, <2>3 DEF Is, Operation, Place
    <3>2. Place("ensure", ops[o].kind, ops[o].connected, schemasExist)
      BY <3>1 DEF Place, Ensuring
    <3> QED BY <1>1, <2>3, <3>2 DEF Operation, Is, Pcs
  <2>6. Operation(Idle, schemasExist, {})
    BY <2>2, IdleIsOperation
  <2>7. ops[o].tries < Retries => Operation([ops[o] EXCEPT !.tries = @ + 1], schemasExist, {})
    <3>1. ops[o].tries < Retries => ops[o].tries + 1 \in 0..Retries
      <4>1. ops[o].tries \in 0..Retries
        BY <2>3 DEF Operation
      <4> QED BY <4>1, RetriesConstant
    <3> QED BY <1>1, <2>3, <3>1 DEF Operation, Is
  <2>8. CASE ops' = [q \in Ops |-> [ops[q] EXCEPT !.calm = FALSE, !.pc = IF q = o THEN "ensure" ELSE @]]
    <3>1. ops'[o] = [ops[o] EXCEPT !.calm = FALSE, !.pc = "ensure"]
      BY <2>8
    <3>2. \A q \in Ops \ {o} : ops'[q] = [ops[q] EXCEPT !.calm = FALSE]
      BY <2>8, <2>3 DEF Operation
    <3>3. \A q \in Ops : Operation(ops'[q], schemasExist, {})
      BY <2>4, <2>5, <3>1, <3>2
    <3>4. OpsInv'
      BY <2>1, <2>8, <3>3 DEF OpsInv
    <3>5. \A q \in Ops \ {o} : ops'[q].pc = ops[q].pc /\ ops'[q].on = ops[q].on
      BY <2>3, <3>2 DEF Operation
    <3> QED BY <1>1, <2>2, <3>4, <3>5 DEF MongoInv, ClientInv, Rest, Is
  <2>9. CASE ops' = [q \in Ops |-> IF q # o THEN [ops[q] EXCEPT !.calm = FALSE]
                                          ELSE IF ops[q].tries < Retries THEN [ops[q] EXCEPT !.tries = @ + 1] ELSE Idle]
    <3>1. \A q \in Ops : Operation(ops'[q], schemasExist, {})
      BY <2>4, <2>6, <2>7, <2>9, Zenon
    <3>2. \A q \in Ops \ {o} : ops'[q] = [ops[q] EXCEPT !.calm = FALSE]
      BY <2>9
    <3>4. OpsInv'
      BY <2>1, <2>9, <3>1 DEF OpsInv
    <3>5. \A q \in Ops \ {o} : ops'[q].pc = ops[q].pc /\ ops'[q].on = ops[q].on
      BY <2>3, <3>2 DEF Operation
    <3> QED BY <1>1, <2>2, <3>4, <3>5 DEF MongoInv, ClientInv, Rest, Is
  <2> QED BY <1>3, <2>8, <2>9 DEF Drop
<1> QED BY <1>2, <1>3

LEMMA ForgetKeeps == ASSUME MongoInv, NEW o \in Ops, Forget(o) PROVE MongoInv'
<1>1. Rest /\ ~Is(o, "idle") /\ ~Is(o, "connecting")
  BY DEF Forget, Is
<1>2. CASE NotDone(o)
  BY <1>1, <1>2, FailureKeeps
<1>3. CASE stored' = None /\ UNCHANGED <<docs, exists, indexes, schemasExist, dropped>> /\ Done(o, "end")
  <2>1. CollectionGrows /\ CollectionInv' /\ IndexesAreMade'
    BY <1>1, <1>3 DEF MongoInv, CollectionInv, CollectionGrows, IndexesAreMade, Rest
  <2>2. OpsInv' /\ Others(o)
    BY <1>1, <1>3, <2>1, OpDone
  <2> QED BY <1>1, <2>1, <2>2, ClientKept DEF MongoInv, Rest
<1> QED BY <1>2, <1>3 DEF Forget

\* Indexes that are those of the stored schema need not be made.
LEMMA SameHash ==
    ASSUME NEW s \in Schemas, stored \in Schemas \cup {None}, Hash(stored) = Hash(s)
    PROVE  stored # None /\ Models(stored) = Models(s)
  BY NoneConstant, ModelsAreIndexes DEF Hash, AllIndexes

LEMMA CompileKeeps == ASSUME MongoInv, NEW o \in Ops, Compile(o) PROVE MongoInv'
<1>1. Rest /\ Is(o, "schema") /\ ops[o].kind = "writeSchema"
  BY DEF Compile
<1>2. CASE NotDone(o)
  BY <1>1, <1>2, FailureKeeps DEF Is
<1>3. CASE UNCHANGED <<data, faults>> /\ Ends(o)
  BY <1>1, <1>3, AnswerKeeps DEF Done, Is
<1> DEFINE s == ops[o].schema
<1> DEFINE same == Hash(stored) = Hash(s)
<1> DEFINE calm == same => ~dropped
<1> DEFINE pc == IF same THEN "store" ELSE "index"
<1> DEFINE m == Models(s)
<1> DEFINE new == [ops[o] EXCEPT !.tries = 0, !.left = m, !.calm = calm, !.pc = pc]
<1>4. CASE UNCHANGED <<data, faults>> /\ ~Refused(o) /\ ops' = [ops EXCEPT ![o] = Compiled(o)]
  <2>1. CollectionGrows /\ CollectionInv' /\ IndexesAreMade' /\ UNCHANGED <<schemasExist, indexes, client>>
    BY <1>1, <1>4, CollectionKept DEF Rest, MongoInv, CollectionInv, data
  <2>2. Operation(ops[o], schemasExist, indexes) /\ schemasExist
    BY <1>1 DEF MongoInv, OpsInv, Operation, Place, Is
  <2>3. s \in Schemas /\ s.valid /\ Models(s) \subseteq AllIndexes
    BY <1>1, <1>4, <2>2, ModelsAreIndexes DEF Operation, Is, Refused
  <2>4. pc \in {"index", "store"} /\ calm \in BOOLEAN /\ 0 \in 0..Retries
    BY RetriesConstant
  <2>5. pc = "store" /\ calm => Models(s) \subseteq indexes
    BY <2>3, SameHash DEF MongoInv, CollectionInv, IndexesAreMade
  <2>6. Place(pc, ops[o].kind, ops[o].connected, schemasExist)
    BY <1>1, <2>2, <2>4 DEF Place
  <2>7. Operation(new, schemasExist', indexes')
    <3>1. new \in [pc : Pcs, kind : Kinds \cup {"query", None}, on : Adapters \cup {None}, number : Nat,
              schema : Schemas \cup {None}, connected : BOOLEAN, left : SUBSET AllIndexes, tries : 0..Retries,
              calm : BOOLEAN]
      <4>1. m \in SUBSET AllIndexes
        BY <2>3
      <4> HIDE DEF pc, calm, m
      <4> QED BY <2>2, <2>4, <4>1 DEF Operation, Pcs
    <3>2. /\ new.pc = pc /\ new.kind = ops[o].kind /\ new.on = ops[o].on /\ new.connected = ops[o].connected
          /\ new.schema = s /\ new.left = m /\ new.calm = calm
      <4> HIDE DEF pc, calm, m
      <4> QED BY <2>2 DEF Operation
    <3> HIDE DEF new, pc, calm
    <3> QED BY <1>1, <2>1, <2>2, <2>3, <2>4, <2>5, <2>6, <3>1, <3>2 DEF Operation, Is
  <2>8. OpsInv' /\ Others(o)
    <3>1. Operation(Compiled(o), schemasExist', indexes')
      BY <2>7 DEF Compiled
    <3> QED BY <1>4, <2>1, <3>1, OpMoves
  <2> QED BY <1>1, <2>1, <2>8, ClientKept DEF MongoInv, Is
<1> QED BY <1>2, <1>3, <1>4 DEF Compile

\* An index that is made stays made; whoever has made all stores the schema next.
LEMMA IndexKeeps == ASSUME MongoInv, NEW o \in Ops, Index(o) PROVE MongoInv'
<1>1. Rest /\ Is(o, "index") /\ ~Is(o, "idle") /\ ~Is(o, "connecting")
  BY DEF Index, Is
<1>2. Operation(ops[o], schemasExist, indexes) /\ schemasExist /\ ops[o].kind = "writeSchema" /\ ops[o].schema \in Schemas
  BY <1>1 DEF MongoInv, OpsInv, Operation, Place, Is
<1>3. CASE NotDone(o)
  BY <1>1, <1>3, FailureKeeps
<1>4. CASE ops[o].left = {} /\ UNCHANGED <<data, faults>>
           /\ ops' = [ops EXCEPT ![o] = [ops[o] EXCEPT !.pc = "store", !.tries = 0]]
  <2>1. CollectionGrows /\ CollectionInv' /\ IndexesAreMade' /\ UNCHANGED <<schemasExist, indexes>>
    BY <1>1, <1>4, CollectionKept DEF Rest, MongoInv, CollectionInv, data
  <2> DEFINE new == [ops[o] EXCEPT !.pc = "store", !.tries = 0]
  <2>2. 0 \in 0..Retries
    BY RetriesConstant
  <2>3. Place("store", ops[o].kind, ops[o].connected, schemasExist)
    BY <1>2 DEF Place
  <2>4. Operation(new, schemasExist, indexes)
    BY <1>1, <1>2, <1>4, <2>2, <2>3 DEF Operation, Pcs, Is
  <2>5. OpsInv' /\ Others(o)
    <3>1. ops' = [ops EXCEPT ![o] = new] /\ Operation(new, schemasExist', indexes')
      BY <1>4, <2>1, <2>4
    <3> HIDE DEF new
    <3> QED BY <2>1, <3>1, OpMoves
  <2> QED BY <1>1, <2>1, <2>5, ClientKept DEF MongoInv, Rest
<1>5. ASSUME NEW i \in ops[o].left, indexes' = indexes \cup {i}, exists' = TRUE,
             UNCHANGED <<docs, schemasExist, stored, dropped>>,
             FailsForATime(o) \/ ops' = [ops EXCEPT ![o].left = @ \ {i}]
      PROVE  MongoInv'
  <2>1. i \in AllIndexes
    BY <1>2 DEF Operation
  <2>2. CollectionGrows /\ CollectionInv' /\ IndexesAreMade'
    BY <1>1, <1>5, <2>1 DEF MongoInv, CollectionInv, CollectionGrows, IndexesAreMade, Rest
  <2>3. OpsInv' /\ Others(o)
    <3>1. CASE FailsForATime(o)
      BY <1>1, <2>2, <3>1, OpFails
    <3>2. CASE ops' = [ops EXCEPT ![o].left = @ \ {i}]
      <4> DEFINE new == [ops[o] EXCEPT !.left = @ \ {i}]
      <4>1. Operation(new, schemasExist', indexes')
        BY <1>1, <1>2, <1>5 DEF Operation, Is
      <4>2. ops' = [ops EXCEPT ![o] = new]
        BY <3>2
      <4> HIDE DEF new
      <4> QED BY <2>2, <4>1, <4>2, OpMoves
    <3> QED BY <1>5, <3>1, <3>2
  <2> QED BY <1>1, <2>2, <2>3, ClientKept DEF MongoInv, Rest
<1> QED BY <1>3, <1>4, <1>5 DEF Index

LEMMA StoreKeeps == ASSUME MongoInv, NEW o \in Ops, Store(o) PROVE MongoInv'
<1>1. Rest /\ Is(o, "store") /\ ~Is(o, "idle") /\ ~Is(o, "connecting")
  BY DEF Store, Is
<1>2. CASE NotDone(o)
  BY <1>1, <1>2, FailureKeeps
<1>3. CASE stored' = ops[o].schema /\ dropped' = ~ops[o].calm /\ Done(o, "end")
           /\ UNCHANGED <<docs, exists, indexes, schemasExist>>
  <2>1. Operation(ops[o], schemasExist, indexes) /\ schemasExist
    BY <1>1 DEF MongoInv, OpsInv, Operation, Place, Is
  <2>2. ops[o].schema \in Schemas /\ ops[o].schema.valid /\ ops[o].calm \in BOOLEAN
        /\ (ops[o].calm => Models(ops[o].schema) \subseteq indexes)
    BY <1>1, <2>1 DEF Operation, Is
  <2>3. CollectionGrows /\ CollectionInv' /\ IndexesAreMade'
    BY <1>1, <1>3, <2>1, <2>2 DEF MongoInv, CollectionInv, CollectionGrows, IndexesAreMade, Rest
  <2>4. OpsInv' /\ Others(o)
    BY <1>1, <1>3, <2>3, OpDone
  <2> QED BY <1>1, <2>3, <2>4, ClientKept DEF MongoInv, Rest
<1> QED BY <1>2, <1>3 DEF Store

LEMMA MongoStep == ASSUME MongoInv, Next PROVE MongoInv'
<1>1. ASSUME NEW a \in Adapters, Close(a) PROVE MongoInv'
  BY <1>1, CloseKeeps
<1>2. ASSUME NEW o \in Ops,
             \/ Begin(o) \/ HasConnection(o) \/ Connect(o) \/ ConnectQuery(o) \/ Wait(o) \/ Connecting(o) \/ Ensure(o)
             \/ ListSchemas(o) \/ CreateSchemas(o)
      PROVE  MongoInv'
  BY <1>2, BeginKeeps, HasConnectionKeeps, ConnectsFirstKeeps, WaitKeeps, ConnectingKeeps, EnsureKeeps, ListSchemasKeeps,
     CreateSchemasKeeps DEF Connect, ConnectQuery
<1>3. ASSUME NEW o \in Ops, FindKey(o) \/ CheckKey(o) \/ FindKeys(o) \/ FilterKeys(o) \/ Aggregate(o)
      PROVE  MongoInv'
  BY <1>3, FindsKeeps DEF FindKey, CheckKey, FindKeys, FilterKeys, Aggregate, Ensuring
<1>4. ASSUME NEW o \in Ops,
             \/ ReadSchema(o) \/ Update(o) \/ Add(o) \/ Remove(o) \/ Look(o) \/ Drop(o) \/ Forget(o) \/ Compile(o)
             \/ Index(o) \/ Store(o)
      PROVE  MongoInv'
  BY <1>4, ReadSchemaKeeps, UpdateKeeps, AddKeeps, RemoveKeeps, LookKeeps, DropKeeps, ForgetKeeps, CompileKeeps,
     IndexKeeps, StoreKeeps
<1> QED BY <1>1, <1>2, <1>3, <1>4 DEF Next

LEMMA MongoStutters == ASSUME MongoInv, UNCHANGED vars PROVE MongoInv'
  BY DEF vars, data, MongoInv, OpsInv, CollectionInv, ClientInv, IndexesAreMade, Is

LEMMA MongoImplies == MongoInv => TypeOK /\ InsertedOnce /\ IndexesAreMade
<1> SUFFICES ASSUME MongoInv PROVE TypeOK /\ InsertedOnce
  BY DEF MongoInv
<1>1. \A o \in Ops : ops[o].tries <= Retries
  <2>1. \A o \in Ops : ops[o].tries \in 0..Retries
    BY DEF MongoInv, OpsInv, Operation
  <2> QED BY <2>1, RetriesConstant
<1>2. \A a \in Adapters : client[a] = "connecting" => \E o \in Running(a) : Is(o, "connecting")
  BY DEF MongoInv, ClientInv, Running, Is
<1>3. TypeOK
  BY <1>1, <1>2 DEF MongoInv, CollectionInv, ClientInv, TypeOK
<1>4. InsertedOnce
  <2> SUFFICES ASSUME NEW d \in docs, NEW e \in docs, d.by = e.by PROVE d = e
    BY DEF InsertedOnce
  <2>1. d = [by |-> d.by, try |-> 0] /\ e = [by |-> e.by, try |-> 0]
    BY DEF MongoInv, CollectionInv
  <2> QED BY <2>1
<1> QED BY <1>3, <1>4

(***************************************************************************)
(* Elasticsearch.  An operation that waits has been done, unless another   *)
(* has undone it: what it wrote is there and, once searches see it, is     *)
(* shown, and what it deleted is neither (Use).  One that maps the index   *)
(* knows the type it has, until the index is deleted: nothing else takes   *)
(* away a type.                                                            *)
(***************************************************************************)
UsePcs == {"idle", "read", "write", "delete", "check", "map", "ensure", "create", "store", "wait"}
Mappers == {"check", "map", "ensure", "create", "store"}
KeysBy(op) == CASE op = "insert" -> {"undefined"} [] op = "deleteDataset" -> E!DocKeys
                [] op = "writeSchema" -> {} [] OTHER -> {"k"}
Writers == {"write", "insert"}

\* A use e of the index, when the field has type ty, these keys are found and those shown.
Use(e, ty, fo, sh) ==
    /\ e \in [pc : UsePcs, op : E!Operations, patient : BOOLEAN, field : E!Fields, there : BOOLEAN, calm : BOOLEAN,
              visible : BOOLEAN, undone : BOOLEAN]
    /\ e.pc # "wait" => ~e.visible
    /\ e.pc = "write" => e.op \in Writers
    /\ e.pc = "delete" => e.op \notin Writers
    /\ e.pc \in Mappers => e.op = "writeSchema"
    /\ e.pc = "wait" /\ ~e.undone /\ e.op \in Writers => KeysBy(e.op) \subseteq fo
    /\ e.pc = "wait" /\ ~e.undone /\ e.op \in Writers /\ e.visible => KeysBy(e.op) \subseteq sh
    /\ e.pc = "wait" /\ ~e.undone /\ e.op \notin Writers => KeysBy(e.op) \cap fo = {}
    /\ e.pc = "wait" /\ ~e.undone /\ e.op \notin Writers /\ e.visible => KeysBy(e.op) \cap sh = {}
    /\ e.pc \in {"ensure", "create", "store"} /\ e.calm => ty = E!Mapping(e.field)

UsesInv == uses = [u \in Users |-> uses[u]] /\ \A u \in Users : Use(uses[u], type, found, shown)

IndexInv ==
    /\ index \in BOOLEAN /\ type \in E!Types \cup {None} /\ found \subseteq E!DocKeys
    /\ ~index => found = {} /\ shown = {} /\ type = None
    /\ schemasIndex \in BOOLEAN /\ schema \in E!Fields \cup {None} /\ (schema # None => schemasIndex)
    /\ deleted \in BOOLEAN

ToldInv == told \subseteq found /\ told \subseteq shown /\ gone \cap found = {} /\ gone \cap shown = {}

ElasticInv == UsesInv /\ IndexInv /\ ToldInv /\ losses \in 0..MaxLosses /\ E!MappedAsStored
-----------------------------------------------------------------------------
LEMMA MappingIsType == \A f \in E!Fields : E!Mapping(f) \in E!Types /\ E!Mapping(f) # None
  BY NoFieldConstant DEF E!Types

LEMMA KeysAreBy == \A u : E!KeysOf(u) = KeysBy(uses[u].op) /\ (E!Writes(u) <=> uses[u].op \in Writers)
  BY Zenon DEF E!KeysOf, KeysBy, E!Writes, Writers

LEMMA KeysOfOperations == \A op : KeysBy(op) \subseteq E!DocKeys /\ (op \in Writers => KeysBy(op) # {})
  BY DEF KeysBy, E!DocKeys, Writers

LEMMA NoUseIsUse == \A ty, fo, sh : Use(E!NoUse, ty, fo, sh)
  BY DEF Use, E!NoUse, UsePcs, E!Operations, E!Reading, E!Fields, Mappers

LEMMA LossesKept == ASSUME ElasticInv, E!Loses \/ E!Keeps PROVE losses' \in 0..MaxLosses
<1>1. losses \in 0..MaxLosses
  BY DEF ElasticInv
<1> QED BY <1>1, LossesConstant DEF E!Loses, E!Keeps

\* A type that is there stays.
LEMMA UseKept ==
    ASSUME NEW e, NEW ty, NEW fo, NEW sh, NEW ty2, Use(e, ty, fo, sh), ty # None => ty2 = ty
    PROVE  Use(e, ty2, fo, sh)
  BY MappingIsType DEF Use

\* What uses one does undoes what waits and is contrary.
Undone(e, op, keys) ==
    IF e.pc = "wait" /\ KeysBy(e.op) \cap keys # {} /\ (op \in Writers) # (e.op \in Writers)
    THEN [e EXCEPT !.undone = TRUE] ELSE e

LEMMA UndoesIsUndone ==
    ASSUME NEW u \in Users, NEW keys, NEW next, NEW v \in Users
    PROVE  E!Undoes(u, keys, next)[v] = IF v = u THEN next ELSE Undone(uses[v], uses[u].op, keys)
  BY KeysAreBy, Zenon DEF E!Undoes, Undone, E!Is

LEMMA UndoneByWrite ==
    ASSUME NEW e, NEW ty, NEW fo, NEW sh, Use(e, ty, fo, sh), NEW op \in Writers, NEW keys
    PROVE  Use(Undone(e, op, keys), ty, fo \cup keys, sh)
<1>1. CASE e.pc = "wait" /\ KeysBy(e.op) \cap keys # {} /\ e.op \notin Writers
  BY <1>1 DEF Undone, Use, Mappers
<1>2. CASE ~(e.pc = "wait" /\ KeysBy(e.op) \cap keys # {} /\ e.op \notin Writers)
  <2>1. Undone(e, op, keys) = e
    BY <1>2 DEF Undone
  <2> QED BY <1>2, <2>1 DEF Use
<1> QED BY <1>1, <1>2

LEMMA UndoneByDelete ==
    ASSUME NEW e, NEW ty, NEW fo, NEW sh, Use(e, ty, fo, sh), NEW op, op \notin Writers, NEW keys
    PROVE  Use(Undone(e, op, keys), ty, fo \ keys, sh)
<1>1. CASE e.pc = "wait" /\ KeysBy(e.op) \cap keys # {} /\ e.op \in Writers
  BY <1>1 DEF Undone, Use, Mappers
<1>2. CASE ~(e.pc = "wait" /\ KeysBy(e.op) \cap keys # {} /\ e.op \in Writers)
  <2>1. Undone(e, op, keys) = e
    BY <1>2 DEF Undone
  <2> QED BY <1>2, <2>1 DEF Use
<1> QED BY <1>1, <1>2

-----------------------------------------------------------------------------
(* The steps of Elasticsearch *)

LEMMA ElasticInitially == E!Init => ElasticInv
<1> SUFFICES ASSUME E!Init PROVE ElasticInv
  OBVIOUS
<1>1. UsesInv
  BY NoUseIsUse DEF E!Init, UsesInv
<1>2. IndexInv /\ ToldInv /\ E!MappedAsStored
  BY DEF E!Init, IndexInv, ToldInv, E!MappedAsStored
<1>3. losses \in 0..MaxLosses
  BY LossesConstant DEF E!Init
<1> QED BY <1>1, <1>2, <1>3 DEF ElasticInv

\* One use moves, and the documents stay.
LEMMA UseMoves ==
    ASSUME ElasticInv, NEW u \in Users, NEW e, uses' = [uses EXCEPT ![u] = e], Use(e, type', found, shown),
           UNCHANGED <<found, shown>>, type # None => type' = type
    PROVE  UsesInv'
<1>1. \A v \in Users : Use(uses[v], type', found, shown)
  BY UseKept DEF ElasticInv, UsesInv
<1> QED BY <1>1 DEF ElasticInv, UsesInv

LEMMA UseEnds ==
    ASSUME ElasticInv, NEW u \in Users, E!Ends(u), UNCHANGED <<found, shown>>, type # None => type' = type
    PROVE  UsesInv'
  BY NoUseIsUse, UseMoves DEF E!Ends

LEMMA DatasetKept ==
    ASSUME ElasticInv, UNCHANGED E!dataset
    PROVE  IndexInv' /\ ToldInv' /\ E!MappedAsStored' /\ UNCHANGED <<type, found, shown>>
  BY DEF ElasticInv, IndexInv, ToldInv, E!MappedAsStored, E!dataset

LEMMA EBeginKeeps == ASSUME ElasticInv, NEW u \in Users, E!Begin(u) PROVE ElasticInv'
<1>1. PICK op \in E!Operations, field \in E!Fields, patient \in BOOLEAN :
        /\ op # "writeSchema" => field = "string"
        /\ ~patient => op \in {"write", "insert", "deleteKey", "deleteDataset"}
        /\ uses' = [uses EXCEPT ![u] = [E!NoUse EXCEPT !.op = op, !.field = field, !.patient = patient,
              !.pc = CASE op \in E!Reading -> "read" [] op \in {"write", "insert"} -> "write" [] op = "writeSchema" -> "check"
                       [] OTHER -> "delete"]]
  BY DEF E!Begin
<1> DEFINE pc == CASE op \in E!Reading -> "read" [] op \in {"write", "insert"} -> "write" [] op = "writeSchema" -> "check"
                       [] OTHER -> "delete"
<1>2. pc \in {"read", "write", "check", "delete"} /\ (pc = "write" => op \in Writers)
      /\ (pc = "delete" => op \notin Writers) /\ (pc = "check" => op = "writeSchema")
  BY DEF E!Operations, E!Reading, Writers
<1> HIDE DEF pc
<1>3. Use([E!NoUse EXCEPT !.op = op, !.field = field, !.patient = patient, !.pc = pc], type, found, shown)
  BY <1>2 DEF Use, E!NoUse, UsePcs, Mappers
<1>4. UNCHANGED E!dataset /\ UNCHANGED losses
  BY DEF E!Begin
<1>5. UsesInv'
  BY <1>1, <1>3, <1>4, DatasetKept, UseMoves DEF pc
<1> QED BY <1>4, <1>5, DatasetKept DEF ElasticInv

LEMMA EndKeeps ==
    ASSUME ElasticInv, NEW u \in Users, E!Ends(u), UNCHANGED E!dataset, E!Keeps \/ E!Loses
    PROVE  ElasticInv'
  BY DatasetKept, UseEnds, LossesKept DEF ElasticInv

\* What is written is there; a field keeps the type it has.
LEMMA WriteKeyKeeps == ASSUME ElasticInv, NEW u \in Users, E!WriteKey(u) PROVE ElasticInv'
<1>1. UNCHANGED <<shown, schemasIndex, schema, told, deleted>> /\ losses' \in 0..MaxLosses
  BY LossesKept DEF E!WriteKey
<1> DEFINE keys == KeysBy(uses[u].op)
<1>2. Use(uses[u], type, found, shown) /\ uses[u].pc = "write" /\ uses[u].op \in Writers /\ keys \subseteq E!DocKeys
  BY KeysOfOperations DEF E!WriteKey, E!Is, ElasticInv, UsesInv, Use
<1>3. CASE E!Ends(u) /\ UNCHANGED <<index, type, found, gone>>
  BY <1>1, <1>3, EndKeeps DEF E!WriteKey, E!dataset
<1>4. ASSUME index' = TRUE, found' = found \cup keys, gone' = gone \ keys,
             type' \in IF type = None THEN E!Types ELSE {type},
             NEW next \in {E!Waits(u), E!NoUse}, uses' = E!Undoes(u, keys, next)
      PROVE  ElasticInv'
  <2>1. type # None => type' = type
    BY <1>4
  <2>2. Use(next, type', found', shown')
    <3>1. Use(E!Waits(u), type, found \cup keys, shown)
      BY <1>2 DEF Use, E!Waits, UsePcs, Mappers
    <3> QED BY <1>1, <1>4, <2>1, <3>1, UseKept, NoUseIsUse
  <2>3. \A v \in Users : v # u => Use(uses'[v], type', found', shown')
    <3> SUFFICES ASSUME NEW v \in Users, v # u PROVE Use(uses'[v], type', found', shown')
      OBVIOUS
    <3>1. uses'[v] = Undone(uses[v], uses[u].op, keys)
      BY <1>4, UndoesIsUndone
    <3>2. Use(uses[v], type, found, shown)
      BY DEF ElasticInv, UsesInv
    <3>3. Use(Undone(uses[v], uses[u].op, keys), type, found \cup keys, shown)
      BY <1>2, <3>2, UndoneByWrite
    <3>4. Use(Undone(uses[v], uses[u].op, keys), type', found \cup keys, shown)
      BY <2>1, <3>3, UseKept
    <3> QED BY <1>1, <1>4, <3>1, <3>4
  <2>4. UsesInv'
    <3>1. uses'[u] = next /\ uses' = [v \in Users |-> uses'[v]]
      BY <1>4, UndoesIsUndone DEF E!Undoes
    <3> QED BY <2>2, <2>3, <3>1 DEF UsesInv
  <2>5. IndexInv' /\ ToldInv'
    BY <1>1, <1>2, <1>4 DEF ElasticInv, IndexInv, ToldInv
  <2>6. E!MappedAsStored'
    BY <1>1, <2>1, MappingIsType DEF ElasticInv, IndexInv, E!MappedAsStored
  <2> QED BY <1>1, <2>4, <2>5, <2>6 DEF ElasticInv
<1>5. E!KeysOf(u) = keys
  BY KeysAreBy
<1> QED BY <1>3, <1>4, <1>5 DEF E!WriteKey

LEMMA RefreshKeeps == ASSUME ElasticInv, E!Refresh PROVE ElasticInv'
<1>1. shown' = found /\ UNCHANGED <<index, type, found, schemasIndex, schema, told, gone, deleted, losses>>
      /\ uses' = [u \in Users |-> IF uses[u].pc = "wait" THEN [uses[u] EXCEPT !.visible = TRUE] ELSE uses[u]]
  BY DEF E!Refresh, E!Is
<1>2. \A u \in Users : Use(uses'[u], type, found, found)
  <2> SUFFICES ASSUME NEW u \in Users PROVE Use(uses'[u], type, found, found)
    OBVIOUS
  <2>1. Use(uses[u], type, found, shown)
    BY DEF ElasticInv, UsesInv
  <2>2. CASE uses[u].pc = "wait"
    <3>1. Use([uses[u] EXCEPT !.visible = TRUE], type, found, found)
      BY <2>1, <2>2 DEF Use, Mappers
    <3> QED BY <1>1, <2>2, <3>1
  <2>3. CASE uses[u].pc # "wait"
    <3>1. Use(uses[u], type, found, found)
      BY <2>1, <2>3 DEF Use
    <3> QED BY <1>1, <2>3, <3>1
  <2> QED BY <2>2, <2>3
<1>3. UsesInv'
  BY <1>1, <1>2 DEF UsesInv
<1>4. IndexInv' /\ ToldInv' /\ E!MappedAsStored'
  BY <1>1 DEF ElasticInv, IndexInv, ToldInv, E!MappedAsStored
<1> QED BY <1>1, <1>3, <1>4 DEF ElasticInv

\* What is answered is shown, or is not, as nothing has undone it.
LEMMA AnswerKeepsTold == ASSUME ElasticInv, NEW u \in Users, E!Answer(u) PROVE ElasticInv'
<1>1. UNCHANGED <<index, type, found, shown, schemasIndex, schema, deleted, losses>>
  BY DEF E!Answer
<1>2. Use(uses[u], type, found, shown) /\ uses[u].pc = "wait" /\ (uses[u].patient => uses[u].visible)
  BY DEF E!Answer, E!Delay, E!Is, ElasticInv, UsesInv
<1>3. ToldInv'
  <2> DEFINE e == uses[u]
  <2>1. told' = (IF e.op \in Writers /\ e.patient /\ ~e.undone THEN told \cup KeysBy(e.op) ELSE told)
        /\ gone' = (IF e.op \notin Writers /\ e.patient /\ ~e.undone THEN gone \cup KeysBy(e.op) ELSE gone)
    BY KeysAreBy DEF E!Answer, E!Lasts
  <2> QED BY <1>1, <1>2, <2>1 DEF ElasticInv, ToldInv, Use
<1>4. UsesInv'
  BY <1>1, UseEnds DEF E!Answer
<1>5. IndexInv' /\ E!MappedAsStored'
  BY <1>1 DEF ElasticInv, IndexInv, E!MappedAsStored
<1> QED BY <1>1, <1>3, <1>4, <1>5 DEF ElasticInv

LEMMA DeletionKeeps ==
    ASSUME ElasticInv, NEW u \in Users, uses[u].op \notin Writers, NEW keys, found' = found \ keys, told' = told \ keys,
           NEW next, uses' = E!Undoes(u, keys, next), Use(next, type, found \ keys, shown),
           UNCHANGED <<index, type, shown, schemasIndex, schema, gone, deleted>>, E!Keeps \/ E!Loses
    PROVE  ElasticInv'
<1>1. \A v \in Users : v # u => Use(uses'[v], type, found \ keys, shown)
  <2> SUFFICES ASSUME NEW v \in Users, v # u PROVE Use(uses'[v], type, found \ keys, shown)
    OBVIOUS
  <2>1. uses'[v] = Undone(uses[v], uses[u].op, keys)
    BY UndoesIsUndone
  <2>2. Use(uses[v], type, found, shown)
    BY DEF ElasticInv, UsesInv
  <2> QED BY <2>1, <2>2, UndoneByDelete
<1>2. UsesInv'
  <2>1. uses'[u] = next /\ uses' = [v \in Users |-> uses'[v]]
    BY UndoesIsUndone DEF E!Undoes
  <2> QED BY <1>1, <2>1 DEF UsesInv
<1>3. IndexInv' /\ ToldInv' /\ E!MappedAsStored'
  BY DEF ElasticInv, IndexInv, ToldInv, E!MappedAsStored
<1> QED BY <1>2, <1>3, LossesKept DEF ElasticInv

LEMMA DeleteKeyKeeps == ASSUME ElasticInv, NEW u \in Users, E!DeleteKey(u) PROVE ElasticInv'
<1> DEFINE keys == KeysBy(uses[u].op)
<1>1. Use(uses[u], type, found, shown) /\ uses[u].pc = "delete" /\ uses[u].op \notin Writers
  BY DEF E!DeleteKey, E!Is, ElasticInv, UsesInv, Use
<1>2. Use(E!Waits(u), type, found \ keys, shown)
  BY <1>1 DEF Use, E!Waits, UsePcs, Mappers
<1>3. E!KeysOf(u) = keys
  BY KeysAreBy
<1>4. \E next \in {E!Waits(u), E!NoUse} : uses' = E!Undoes(u, keys, next)
  BY <1>3 DEF E!DeleteKey
<1> QED BY <1>1, <1>2, <1>3, <1>4, NoUseIsUse, DeletionKeeps DEF E!DeleteKey, E!Forget

LEMMA ByQueryKeeps == ASSUME ElasticInv, NEW u \in Users, E!ByQuery(u) PROVE ElasticInv'
<1>1. uses[u].op \notin Writers
  BY DEF E!ByQuery, Writers
<1>2. PICK keys \in SUBSET (shown \cap found) : E!Forget(keys) /\ uses' = E!Undoes(u, keys, E!NoUse)
  BY DEF E!ByQuery
<1> QED BY <1>1, <1>2, NoUseIsUse, DeletionKeeps DEF E!ByQuery, E!Forget

\* Everything goes: what was written is undone, what is deleted is deleted still.
LEMMA DeleteDatasetKeeps == ASSUME ElasticInv, NEW u \in Users, E!DeleteDataset(u) PROVE ElasticInv'
<1>1. Use(uses[u], type, found, shown) /\ uses[u].pc = "delete" /\ uses[u].op = "deleteDataset"
  BY DEF E!DeleteDataset, E!Is, ElasticInv, UsesInv
<1>2. index' = FALSE /\ type' = None /\ found' = {} /\ told' = {} /\ shown' = {} /\ deleted' = TRUE
      /\ UNCHANGED <<schemasIndex, schema, gone>>
  BY DEF E!DeleteDataset, E!Forget, ElasticInv, IndexInv, ToldInv
<1>3. PICK next \in {E!Waits(u), E!NoUse} :
        /\ IF next = E!NoUse THEN E!Loses ELSE E!Keeps
        /\ uses' = [v \in Users |-> [E!Undoes(u, E!DocKeys, next)[v] EXCEPT !.calm = (v = u)]]
  BY DEF E!DeleteDataset
<1>4. Use([next EXCEPT !.calm = TRUE], None, {}, {})
  <2>1. Use([E!Waits(u) EXCEPT !.calm = TRUE], None, {}, {})
    BY <1>1 DEF Use, E!Waits, UsePcs, Mappers, Writers
  <2>2. Use([E!NoUse EXCEPT !.calm = TRUE], None, {}, {})
    BY DEF Use, E!NoUse, UsePcs, E!Operations, E!Reading, E!Fields, Mappers
  <2> QED BY <2>1, <2>2
<1>5. ASSUME NEW v \in Users, v # u PROVE Use(uses'[v], None, {}, {})
  <2> DEFINE e == Undone(uses[v], uses[u].op, E!DocKeys)
  <2>1. uses'[v] = [e EXCEPT !.calm = FALSE]
    <3>1. E!Undoes(u, E!DocKeys, next)[v] = e
      BY <1>5, UndoesIsUndone
    <3>2. uses'[v] = [E!Undoes(u, E!DocKeys, next)[v] EXCEPT !.calm = (v = u)]
      BY <1>3
    <3> HIDE DEF e
    <3> QED BY <1>5, <3>1, <3>2
  <2>2. Use(uses[v], type, found, shown)
    BY DEF ElasticInv, UsesInv
  <2>3. CASE uses[v].pc = "wait" /\ uses[v].op \in Writers
    <3>1. KeysBy(uses[v].op) \cap E!DocKeys # {}
      BY <2>3, KeysOfOperations
    <3>2. e = [uses[v] EXCEPT !.undone = TRUE]
      BY <1>1, <2>3, <3>1 DEF Undone, Writers
    <3>3. Use([[uses[v] EXCEPT !.undone = TRUE] EXCEPT !.calm = FALSE], None, {}, {})
      BY <2>2, <2>3 DEF Use, Mappers
    <3> HIDE DEF e
    <3> QED BY <2>1, <3>2, <3>3
  <2>4. CASE ~(uses[v].pc = "wait" /\ uses[v].op \in Writers)
    <3>1. e = uses[v]
      BY <1>1, <2>4 DEF Undone, Writers
    <3>2. Use([uses[v] EXCEPT !.calm = FALSE], None, {}, {})
      BY <2>2, <2>4 DEF Use
    <3> HIDE DEF e
    <3> QED BY <2>1, <3>1, <3>2
  <2> QED BY <2>3, <2>4
<1>6. UsesInv'
  <2>1. uses'[u] = [next EXCEPT !.calm = TRUE]
    <3>1. E!Undoes(u, E!DocKeys, next)[u] = next
      BY UndoesIsUndone
    <3>2. uses'[u] = [E!Undoes(u, E!DocKeys, next)[u] EXCEPT !.calm = (u = u)]
      BY <1>3
    <3> QED BY <3>1, <3>2
  <2>2. \A v \in Users : Use(uses'[v], type', found', shown')
    BY <1>2, <1>4, <1>5, <2>1
  <2> QED BY <1>3, <2>2 DEF UsesInv
<1>7. IndexInv' /\ ToldInv' /\ E!MappedAsStored'
  BY <1>2 DEF ElasticInv, IndexInv, ToldInv, E!MappedAsStored
<1> QED BY <1>3, <1>6, <1>7, LossesKept DEF ElasticInv

-----------------------------------------------------------------------------
(* The steps of Elasticsearch: schemas *)

LEMMA CheckIndexKeeps == ASSUME ElasticInv, NEW u \in Users, E!CheckIndex(u) PROVE ElasticInv'
<1>1. PICK there \in BOOLEAN : uses' = [uses EXCEPT ![u].pc = "map", ![u].there = there]
  BY DEF E!CheckIndex
<1>2. Use(uses[u], type, found, shown) /\ uses[u].pc = "check"
  BY DEF E!CheckIndex, E!Is, ElasticInv, UsesInv
<1> DEFINE new == [uses[u] EXCEPT !.pc = "map", !.there = there]
<1>3. Use(new, type, found, shown)
  BY <1>2 DEF Use, UsePcs, Mappers
<1>4. uses' = [uses EXCEPT ![u] = new]
  BY <1>1, <1>2 DEF ElasticInv, UsesInv
<1>5. UsesInv'
  <2> HIDE DEF new
  <2>1. UNCHANGED <<type, found, shown>>
    BY DEF E!CheckIndex, E!dataset
  <2> QED BY <1>3, <1>4, <2>1, UseMoves
<1> QED BY <1>5, DatasetKept, LossesKept DEF ElasticInv, E!CheckIndex

\* The index is made, or has no other type for the field.
LEMMA MapKeeps == ASSUME ElasticInv, NEW u \in Users, E!Map(u) PROVE ElasticInv'
<1>1. UNCHANGED <<found, shown, schemasIndex, schema, told, gone, deleted>> /\ losses' \in 0..MaxLosses
  BY LossesKept DEF E!Map
<1>2. Use(uses[u], type, found, shown) /\ uses[u].pc = "map" /\ uses[u].op = "writeSchema" /\ uses[u].field \in E!Fields
  BY DEF E!Map, E!Is, ElasticInv, UsesInv, Use, Mappers
<1>3. CASE E!Ends(u) /\ UNCHANGED <<index, type>>
  BY <1>1, <1>3, EndKeeps DEF E!Map, E!dataset
<1>4. CASE E!Accepts(u) /\ index' = TRUE /\ type' = E!Mapping(uses[u].field)
           /\ (E!Ends(u) \/ uses' = [uses EXCEPT ![u] = [uses[u] EXCEPT !.pc = "ensure", !.calm = TRUE]])
  <2>1. type # None => type' = type
    BY <1>4 DEF E!Accepts, ElasticInv, IndexInv
  <2>2. UsesInv'
    <3>1. CASE E!Ends(u)
      BY <1>1, <2>1, <3>1, UseEnds
    <3>2. CASE uses' = [uses EXCEPT ![u] = [uses[u] EXCEPT !.pc = "ensure", !.calm = TRUE]]
      <4> DEFINE new == [uses[u] EXCEPT !.pc = "ensure", !.calm = TRUE]
      <4>1. Use(new, E!Mapping(uses[u].field), found, shown)
        BY <1>2 DEF Use, UsePcs, Mappers
      <4>2. uses' = [uses EXCEPT ![u] = new] /\ Use(new, type', found, shown)
        BY <1>4, <3>2, <4>1
      <4> HIDE DEF new
      <4> QED BY <1>1, <2>1, <4>2, UseMoves
    <3> QED BY <1>4, <3>1, <3>2
  <2>3. IndexInv' /\ ToldInv' /\ E!MappedAsStored'
    BY <1>1, <1>2, <1>4, <2>1, MappingIsType DEF ElasticInv, IndexInv, ToldInv, E!MappedAsStored
  <2> QED BY <1>1, <2>2, <2>3 DEF ElasticInv
<1> QED BY <1>3, <1>4 DEF E!Map

LEMMA EnsureSchemasKeeps == ASSUME ElasticInv, NEW u \in Users, E!EnsureSchemas(u) PROVE ElasticInv'
<1>1. PICK pc \in {"store", "create"} : uses' = [uses EXCEPT ![u].pc = pc]
  BY DEF E!EnsureSchemas, E!Goes
<1>2. Use(uses[u], type, found, shown) /\ uses[u].pc = "ensure"
  BY DEF E!EnsureSchemas, E!Is, ElasticInv, UsesInv
<1> DEFINE new == [uses[u] EXCEPT !.pc = pc]
<1>3. Use(new, type, found, shown) /\ uses' = [uses EXCEPT ![u] = new]
  BY <1>1, <1>2 DEF Use, UsePcs, Mappers
<1>4. UsesInv'
  <2> HIDE DEF new
  <2>1. UNCHANGED <<type, found, shown>>
    BY DEF E!EnsureSchemas, E!dataset
  <2> QED BY <1>3, <2>1, UseMoves
<1> QED BY <1>4, DatasetKept, LossesKept DEF ElasticInv, E!EnsureSchemas

LEMMA ECreateSchemasKeeps == ASSUME ElasticInv, NEW u \in Users, E!CreateSchemas(u) PROVE ElasticInv'
<1>1. uses' = [uses EXCEPT ![u].pc = "store"] /\ UNCHANGED <<index, type, found, shown, schema, told, gone, deleted>>
      /\ (schemasIndex' = TRUE \/ schemasIndex' = schemasIndex)
  BY DEF E!CreateSchemas, E!Goes
<1>2. Use(uses[u], type, found, shown) /\ uses[u].pc = "create"
  BY DEF E!CreateSchemas, E!Is, ElasticInv, UsesInv
<1> DEFINE new == [uses[u] EXCEPT !.pc = "store"]
<1>3. Use(new, type, found, shown) /\ uses' = [uses EXCEPT ![u] = new]
  BY <1>1, <1>2 DEF Use, UsePcs, Mappers
<1>4. UsesInv'
  <2> HIDE DEF new
  <2> QED BY <1>1, <1>3, UseMoves
<1>5. IndexInv' /\ ToldInv' /\ E!MappedAsStored'
  BY <1>1 DEF ElasticInv, IndexInv, ToldInv, E!MappedAsStored
<1> QED BY <1>4, <1>5, LossesKept DEF ElasticInv, E!CreateSchemas

LEMMA EStoreKeeps == ASSUME ElasticInv, NEW u \in Users, E!Store(u) PROVE ElasticInv'
<1>1. UNCHANGED <<index, type, found, shown, told, gone>> /\ losses' \in 0..MaxLosses
  BY LossesKept DEF E!Store
<1>2. Use(uses[u], type, found, shown) /\ uses[u].pc = "store"
  BY DEF E!Store, E!Is, ElasticInv, UsesInv
<1>3. uses[u].op = "writeSchema" /\ uses[u].field \in E!Fields /\ uses[u].calm \in BOOLEAN
      /\ (uses[u].calm => type = E!Mapping(uses[u].field))
  BY <1>2 DEF Use, Mappers
<1>4. UsesInv'
  <2>1. CASE E!Ends(u)
    BY <1>1, <2>1, UseEnds
  <2>2. CASE E!Goes(u, "wait")
    <3> DEFINE new == [uses[u] EXCEPT !.pc = "wait"]
    <3>1. KeysBy("writeSchema") = {} /\ "writeSchema" \notin Writers
      BY DEF KeysBy, Writers
    <3>2. Use(new, type, found, shown)
      BY <1>2, <1>3, <3>1 DEF Use, UsePcs, Mappers
    <3>3. uses' = [uses EXCEPT ![u] = new]
      BY <2>2 DEF E!Goes
    <3> HIDE DEF new
    <3> QED BY <1>1, <3>2, <3>3, UseMoves
  <2> QED BY <2>1, <2>2 DEF E!Store
<1>5. IndexInv' /\ ToldInv' /\ E!MappedAsStored'
  <2>1. CASE schema' = uses[u].field /\ schemasIndex' = TRUE /\ deleted' = ~uses[u].calm
    BY <1>1, <1>3, <2>1 DEF ElasticInv, IndexInv, ToldInv, E!MappedAsStored
  <2>2. CASE UNCHANGED <<schemasIndex, schema, deleted>>
    BY <1>1, <2>2 DEF ElasticInv, IndexInv, ToldInv, E!MappedAsStored
  <2> QED BY <2>1, <2>2 DEF E!Store
<1> QED BY <1>1, <1>4, <1>5 DEF ElasticInv

LEMMA ElasticStep == ASSUME ElasticInv, E!Next PROVE ElasticInv'
<1>1. ASSUME NEW u \in Users, E!Read(u) \/ E!Refused(u) PROVE ElasticInv'
  BY <1>1, EndKeeps DEF E!Read, E!Refused
<1>2. ASSUME NEW u \in Users,
             \/ E!Begin(u) \/ E!WriteKey(u) \/ E!Answer(u) \/ E!DeleteKey(u) \/ E!ByQuery(u) \/ E!DeleteDataset(u)
             \/ E!CheckIndex(u) \/ E!Map(u) \/ E!EnsureSchemas(u) \/ E!CreateSchemas(u) \/ E!Store(u)
      PROVE  ElasticInv'
  BY <1>2, EBeginKeeps, WriteKeyKeeps, AnswerKeepsTold, DeleteKeyKeeps, ByQueryKeeps, DeleteDatasetKeeps,
     CheckIndexKeeps, MapKeeps, EnsureSchemasKeeps, ECreateSchemasKeeps, EStoreKeeps
<1> QED BY <1>1, <1>2, RefreshKeeps DEF E!Next

LEMMA ElasticStutters == ASSUME ElasticInv, UNCHANGED elasticVars PROVE ElasticInv'
  BY DEF elasticVars, ElasticInv, UsesInv, IndexInv, ToldInv, E!MappedAsStored

LEMMA ElasticImplies == ElasticInv => E!TypeOK /\ E!ShownWhenAnswered /\ E!MappedAsStored
  BY DEF ElasticInv, IndexInv, ToldInv, E!TypeOK, E!ShownWhenAnswered

(***************************************************************************)
(* Files.  A GET that has looked at a file asks for no more than there is  *)
(* of it, as long as nobody writes it; the files of a zip are under way as *)
(* long as it is, and all written when it is saved (Req).                  *)
(***************************************************************************)
ReqPcs == {"idle", "look", "default", "climb", "parent", "read", "list", "write", "unzip", "next", "remove", "answered"}
EntryStates == {"none", "todo", "unread", "checked", "written", "failed"}
Replies == {"none", "ok", "missing", "forbidden", "failed", "unsatisfiable", "not empty", "no data"}

Shape(e) ==
    e \in [pc : ReqPcs, kind : F!Kinds, path : Seq(STRING), slash : BOOLEAN, at : Nat, calm : BOOLEAN,
           range : {None} \cup [start : Nat, end : Nat], told : Int, bytes : Int, files : {e.files},
           entries : [Entries -> EntryStates], done : BOOLEAN, answer : Replies]

\* Where which request may be.
Stage(pc, kind) ==
    /\ pc = "look" => kind \in {"get", "head", "put", "zip", "delete"}
    /\ pc \in {"default", "climb", "parent"} => kind \in {"get", "head"}
    /\ pc = "read" => kind \in {"get", "readKey"}
    /\ pc = "list" => kind \in {"get", "head", "list", "deleteDirectory"}
    /\ pc = "write" => kind \in {"put", "zip"}
    /\ pc = "unzip" => kind = "zip"
    /\ pc \in {"next", "remove"} => kind \in {"delete", "deleteDirectory"}

SizeIn(bk, p) == IF p \in F!Paths THEN bk[p] ELSE 0
WithinSize(e, size) == IF e.range = None THEN e.told = size ELSE e.range.start + e.told <= size
TrueSize(e) == e.bytes = e.told \/ (e.range # None /\ e.range.start = 0 /\ e.told = 1)
WholeZip(e) == \A n \in Entries : e.entries[n] \in {"none", "written"}

\* A request e, when the bucket is bk.
Req(e, bk) ==
    /\ Shape(e)
    /\ Stage(e.pc, e.kind)
    /\ e.pc \in {"look", "default"} => e.at = 1 /\ e.path # <<>>
    /\ e.pc \in {"climb", "parent"} => e.at \in 1..Len(e.path)
    /\ \A n \in Entries : e.entries[n] = "todo" => e.pc = "unzip"
    /\ e.pc \in {"look", "write"} => \A n \in Entries : e.entries[n] = "none"
    /\ e.pc \in {"look", "default", "climb", "parent", "list"} => e.told = 0 /\ e.bytes = 0
    /\ e.pc = "read" /\ e.kind = "readKey" => e.range = None
    /\ e.pc = "read" /\ e.kind = "get" /\ e.calm => WithinSize(e, SizeIn(bk, e.path))
    /\ e.pc = "answered" /\ e.answer = "ok" /\ e.kind \in {"get", "readKey"} /\ e.calm => TrueSize(e)
    /\ e.pc = "answered" /\ e.answer = "ok" /\ e.kind = "zip" => WholeZip(e)

ReqsInv == reqs = [r \in Reqs |-> reqs[r]] /\ \A r \in Reqs : Req(reqs[r], bucket)
FilesInv == ReqsInv /\ bucket \in [F!Paths -> 0..MaxSize] /\ failures \in 0..MaxLosses
-----------------------------------------------------------------------------
LEMMA SizeIsNat == ASSUME FilesInv, NEW p PROVE SizeIn(bucket, p) \in 0..MaxSize /\ F!Size(p) = SizeIn(bucket, p)
<1>1. SizeIn(bucket, p) \in 0..MaxSize
  BY SizeConstant DEF SizeIn, FilesInv
<1> QED BY <1>1 DEF SizeIn, F!Size

LEMMA FailuresKept == ASSUME FilesInv, F!Works \/ F!Fails PROVE failures' \in 0..MaxLosses
<1>1. failures \in 0..MaxLosses
  BY DEF FilesInv
<1> QED BY <1>1, LossesConstant DEF F!Works, F!Fails

LEMMA NoReqIsReq == \A bk : Req(F!NoReq, bk)
<1>1. <<>> \in Seq(STRING) /\ 0 \in Int /\ 1 \in Nat
  OBVIOUS
<1>2. Shape(F!NoReq)
  BY <1>1 DEF Shape, F!NoReq, ReqPcs, F!Kinds, EntryStates, Replies
<1> QED BY <1>2 DEF Req, F!NoReq, Stage

\* A request that is answered: what it has to be like for its answer to be true.
LEMMA EndedIsReq ==
    ASSUME NEW e, Shape(e), NEW answer \in Replies, NEW bk,
           \A n \in Entries : e.entries[n] # "todo",
           answer = "ok" /\ e.kind \in {"get", "readKey"} /\ e.calm => TrueSize(e),
           answer = "ok" /\ e.kind = "zip" => WholeZip(e)
    PROVE  Req(F!Ended(e, answer), bk)
<1> DEFINE path == IF \E n \in Entries : e.entries[n] = "checked" THEN e.path ELSE <<>>
<1> DEFINE new == [e EXCEPT !.pc = "answered", !.answer = answer, !.slash = FALSE, !.at = 1, !.files = <<>>, !.path = path]
<1>1. path \in Seq(STRING)
  <2>1. e.path \in Seq(STRING)
    BY DEF Shape
  <2>2. <<>> \in Seq(STRING)
    OBVIOUS
  <2> QED BY <2>1, <2>2
<1>2. /\ Shape(new) /\ new.pc = "answered" /\ new.answer = answer /\ new.kind = e.kind /\ new.calm = e.calm
      /\ new.range = e.range /\ new.told = e.told /\ new.bytes = e.bytes /\ new.entries = e.entries
  <2> HIDE DEF path
  <2> QED BY <1>1 DEF Shape, ReqPcs
<1>3. F!Ended(e, answer) = new
  BY Zenon DEF F!Ended
<1>4. Req(new, bk)
  <2> HIDE DEF new
  <2> QED BY <1>2 DEF Req, Stage, TrueSize, WholeZip
<1> QED BY <1>3, <1>4

-----------------------------------------------------------------------------
(* How one request moves, and what a write does to the others *)

LEMMA ReqMoves ==
    ASSUME FilesInv, NEW r \in Reqs, NEW new, F!Becomes(r, new), Req(new, bucket), UNCHANGED bucket, F!Works \/ F!Fails
    PROVE  FilesInv'
<1>1. ReqsInv'
  BY DEF F!Becomes, FilesInv, ReqsInv
<1> QED BY <1>1, FailuresKept DEF FilesInv

LEMMA ReqIsAnswered ==
    ASSUME FilesInv, NEW r \in Reqs, NEW answer \in Replies, F!Answers(r, answer), UNCHANGED bucket, F!Works \/ F!Fails,
           \A n \in Entries : reqs[r].entries[n] # "todo",
           answer = "ok" /\ reqs[r].kind \in {"get", "readKey"} /\ reqs[r].calm => TrueSize(reqs[r]),
           answer = "ok" /\ reqs[r].kind = "zip" => WholeZip(reqs[r])
    PROVE  FilesInv'
<1>1. Shape(reqs[r])
  BY DEF FilesInv, ReqsInv, Req
<1>2. Req(F!Ended(reqs[r], answer), bucket)
  BY <1>1, EndedIsReq
<1> QED BY <1>2, ReqMoves DEF F!Answers

\* Whoever has looked at the file that is written is not calm any more.
Stirs(e, p) == IF e.path = p THEN [e EXCEPT !.calm = FALSE] ELSE e

LEMMA StirredIsReq ==
    ASSUME NEW e, NEW bk, NEW bk2, NEW p, Req(e, bk), \A q : q # p => SizeIn(bk2, q) = SizeIn(bk, q)
    PROVE  Req(Stirs(e, p), bk2)
<1>1. CASE e.path # p
  BY <1>1 DEF Stirs, Req
<1>2. CASE e.path = p
  <2> DEFINE new == [e EXCEPT !.calm = FALSE]
  <2>1. /\ Shape(new) /\ new.pc = e.pc /\ new.kind = e.kind /\ new.path = e.path /\ new.at = e.at /\ ~new.calm
        /\ new.range = e.range /\ new.told = e.told /\ new.bytes = e.bytes /\ new.entries = e.entries
        /\ new.answer = e.answer
    BY DEF Req, Shape
  <2>2. Req(new, bk2)
    <3> HIDE DEF new
    <3> QED BY <2>1 DEF Req, WholeZip
  <2> QED BY <1>2, <2>2 DEF Stirs
<1> QED BY <1>1, <1>2

LEMMA WriteStirs ==
    ASSUME FilesInv, NEW p, NEW size \in 0..MaxSize, F!Write(p, size)
    PROVE  /\ bucket' \in [F!Paths -> 0..MaxSize]
           /\ \A q : q # p => SizeIn(bucket', q) = SizeIn(bucket, q)
           /\ \A q \in Reqs : F!Stirred(p)[q] = Stirs(reqs[q], p) /\ Req(Stirs(reqs[q], p), bucket')
<1>1. bucket' \in [F!Paths -> 0..MaxSize]
  BY DEF FilesInv, F!Write
<1>2. \A q : q # p => SizeIn(bucket', q) = SizeIn(bucket, q)
  BY DEF FilesInv, F!Write, SizeIn
<1>3. \A q \in Reqs : F!Stirred(p)[q] = Stirs(reqs[q], p)
  BY Zenon DEF F!Stirred, Stirs
<1>4. \A q \in Reqs : Req(Stirs(reqs[q], p), bucket')
  BY <1>2, StirredIsReq DEF FilesInv, ReqsInv
<1> QED BY <1>1, <1>2, <1>3, <1>4

LEMMA ReqWrites ==
    ASSUME FilesInv, NEW r \in Reqs, NEW p, NEW size \in 0..MaxSize, F!Write(p, size), NEW new,
           reqs' = [F!Stirred(p) EXCEPT ![r] = new], Req(new, bucket'), F!Works \/ F!Fails
    PROVE  FilesInv'
<1>1. \A q \in Reqs : Req(reqs'[q], bucket')
  <2> SUFFICES ASSUME NEW q \in Reqs PROVE Req(reqs'[q], bucket')
    OBVIOUS
  <2>1. CASE q = r
    BY <2>1 DEF F!Stirred
  <2>2. CASE q # r
    <3>1. reqs'[q] = Stirs(reqs[q], p)
      BY <2>2, WriteStirs
    <3> QED BY <3>1, WriteStirs
  <2> QED BY <2>1, <2>2
<1>2. reqs' = [q \in Reqs |-> reqs'[q]]
  BY DEF F!Stirred
<1> QED BY <1>1, <1>2, WriteStirs, FailuresKept DEF FilesInv, ReqsInv

LEMMA CheckWorksOrFails == ASSUME NEW p, NEW slash, NEW kind, F!Check(p, slash, kind) PROVE F!Works \/ F!Fails
  BY DEF F!Check

\* A request that goes on as it is.
LEMMA GoesKeeps ==
    ASSUME FilesInv, NEW r \in Reqs, NEW pc \in ReqPcs, F!Goes(r, pc), UNCHANGED bucket, F!Works \/ F!Fails,
           Req([reqs[r] EXCEPT !.pc = pc], bucket)
    PROVE  FilesInv'
  BY ReqMoves DEF F!Goes

\* What only says where a request is.
LEMMA PcOfReq ==
    ASSUME NEW e, Shape(e), NEW pc \in ReqPcs
    PROVE  LET new == [e EXCEPT !.pc = pc] IN
           /\ Shape(new) /\ new.pc = pc /\ new.kind = e.kind /\ new.path = e.path /\ new.at = e.at /\ new.calm = e.calm
           /\ new.range = e.range /\ new.told = e.told /\ new.bytes = e.bytes /\ new.entries = e.entries
           /\ new.answer = e.answer
  BY DEF Shape

-----------------------------------------------------------------------------
(* The steps of files: reading *)

LEMMA FilesInitially == F!Init => FilesInv
<1> SUFFICES ASSUME F!Init PROVE FilesInv
  OBVIOUS
<1>1. ReqsInv
  BY NoReqIsReq DEF F!Init, ReqsInv
<1>2. bucket \in [F!Paths -> 0..MaxSize] /\ failures \in 0..MaxLosses
  BY SizeConstant, LossesConstant DEF F!Init
<1> QED BY <1>1, <1>2 DEF FilesInv

LEMMA OneIsSequence == ASSUME NEW S, NEW x \in S PROVE <<x>> \in Seq(S) /\ <<x>> # <<>>
  OBVIOUS

LEMMA FBeginKeeps == ASSUME FilesInv, NEW r \in Reqs, F!Begin(r) PROVE FilesInv'
<1>1. ASSUME NEW kind \in F!Kinds, NEW p, p \in Seq(STRING), p # <<>>, NEW slash \in BOOLEAN,
             NEW pc \in {"list", "read", "look"}, Stage(pc, kind), pc = "read" => kind = "readKey",
             F!Becomes(r, [F!NoReq EXCEPT !.kind = kind, !.path = p, !.slash = slash, !.pc = pc])
      PROVE  FilesInv'
  <2> DEFINE new == [F!NoReq EXCEPT !.kind = kind, !.path = p, !.slash = slash, !.pc = pc]
  <2>1. Shape(F!NoReq)
    BY NoReqIsReq DEF Req
  <2>2. /\ Shape(new) /\ new.pc = pc /\ new.kind = kind /\ new.path = p /\ new.at = 1 /\ new.calm = TRUE
        /\ new.range = None /\ new.told = 0 /\ new.bytes = 0 /\ new.entries = [n \in Entries |-> "none"]
    BY <1>1, <2>1 DEF Shape, F!NoReq, ReqPcs
  <2>3. Req(new, bucket)
    <3> HIDE DEF new
    <3> QED BY <1>1, <2>2 DEF Req
  <2> HIDE DEF new
  <2> QED BY <1>1, <2>3, ReqMoves DEF F!Begin, F!Works, new
<1>2. ASSUME NEW kind \in F!Kinds, NEW p \in F!Paths, NEW slash \in BOOLEAN,
             F!Becomes(r, [F!NoReq EXCEPT !.kind = kind, !.path = p, !.slash = slash,
              !.pc = CASE kind \in {"list", "deleteDirectory"} -> "list" [] kind = "readKey" -> "read" [] OTHER -> "look"])
      PROVE  FilesInv'
  <2> DEFINE pc == CASE kind \in {"list", "deleteDirectory"} -> "list" [] kind = "readKey" -> "read" [] OTHER -> "look"
  <2>1. pc \in {"list", "read", "look"} /\ Stage(pc, kind) /\ (pc = "read" => kind = "readKey")
    BY DEF Stage, F!Kinds
  <2>2. p \in Seq(STRING) /\ p # <<>>
    BY PathsConstant
  <2>3. F!Becomes(r, [F!NoReq EXCEPT !.kind = kind, !.path = p, !.slash = slash, !.pc = pc])
    BY <1>2
  <2> HIDE DEF pc
  <2> QED BY <1>1, <2>1, <2>2, <2>3
<1>3. CASE F!Becomes(r, [F!NoReq EXCEPT !.kind = "get", !.path = <<Default>>, !.slash = FALSE, !.pc = "look"])
  <2>1. Default \in STRING
    BY PathsConstant
  <2>2. <<Default>> \in Seq(STRING) /\ <<Default>> # <<>>
    BY <2>1, OneIsSequence
  <2>3. "get" \in F!Kinds /\ Stage("look", "get")
    BY DEF F!Kinds, Stage
  <2> QED BY <1>1, <1>3, <2>2, <2>3
<1> QED BY <1>2, <1>3, Zenon DEF F!Begin

\* A file that is looked at: a range that is asked for is within it.
LEMMA ServeKeeps ==
    ASSUME FilesInv, NEW r \in Reqs, NEW p \in Seq(STRING), F!Serve(r, p), UNCHANGED bucket, F!Works \/ F!Fails,
           reqs[r].pc \in {"look", "default", "climb", "parent"}, reqs[r].kind \in {"get", "head"}
    PROVE  FilesInv'
<1>1. Req(reqs[r], bucket)
  BY DEF FilesInv, ReqsInv
<1>2. \A n \in Entries : reqs[r].entries[n] # "todo"
  BY <1>1 DEF Req
<1>3. CASE \E answer \in {"unsatisfiable", "ok"} : F!Answers(r, answer) /\ (answer = "ok" => reqs[r].kind = "head")
  BY <1>2, <1>3, ReqIsAnswered DEF Replies
<1> DEFINE size == SizeIn(bucket, p)
<1>4. ASSUME NEW range \in F!Ranges(size), range # None => range.start <= range.end, reqs[r].kind = "get",
             F!Becomes(r, [reqs[r] EXCEPT !.path = p, !.range = range, !.calm = TRUE, !.at = 1, !.pc = "read",
                    !.told = IF range = None THEN size ELSE F!EndOf(range, size) - range.start + 1])
      PROVE  FilesInv'
  <2> DEFINE length == IF range = None THEN size ELSE F!EndOf(range, size) - range.start + 1
  <2> DEFINE new == [reqs[r] EXCEPT !.path = p, !.range = range, !.calm = TRUE, !.at = 1, !.pc = "read", !.told = length]
  <2>1. size \in 0..MaxSize
    BY SizeIsNat
  <2>2. range \in {None} \cup [start : Nat, end : Nat]
    <3>1. CASE range = None
      BY <3>1
    <3>2. CASE range # None
      <4>1. PICK a \in 0..size - 1, b \in 0..MaxSize : range = [start |-> a, end |-> b]
        BY <1>4, <3>2 DEF F!Ranges
      <4>2. a \in Nat /\ b \in Nat
        BY <2>1, SizeConstant
      <4> QED BY <4>1, <4>2
    <3> QED BY <3>1, <3>2
  <2>3. length \in Int /\ IF range = None THEN length = size ELSE range.start + length <= size
    <3>1. CASE range = None
      BY <2>1, <3>1, SizeConstant
    <3>2. CASE range # None
      <4>1. PICK a \in 0..size - 1, b \in 0..MaxSize : range = [start |-> a, end |-> b]
        BY <1>4, <3>2 DEF F!Ranges
      <4>2. range.start = a /\ range.end = b
        BY <4>1
      <4>3. F!EndOf(range, size) = IF b < size THEN b ELSE size - 1
        BY <4>2 DEF F!EndOf
      <4> QED BY <2>1, <3>2, <4>2, <4>3, SizeConstant
    <3> QED BY <3>1, <3>2
  <2>4. 1 \in Nat
    OBVIOUS
  <2>5. /\ Shape(new) /\ new.pc = "read" /\ new.kind = reqs[r].kind /\ new.path = p /\ new.calm = TRUE
        /\ new.range = range /\ new.told = length /\ new.entries = reqs[r].entries
    <3>1. Shape(reqs[r])
      BY <1>1 DEF Req
    <3>2. length \in Int
      BY <2>3
    <3> HIDE DEF length, size
    <3> QED BY <2>2, <2>4, <3>1, <3>2 DEF Shape, ReqPcs
  <2>6. WithinSize(new, size)
    <3> HIDE DEF new, length, size
    <3> QED BY <2>3, <2>5 DEF WithinSize
  <2>7. Req(new, bucket)
    <3> HIDE DEF new, length
    <3> QED BY <1>2, <1>4, <2>5, <2>6 DEF Req, Stage
  <2> QED BY <1>4, <2>7, ReqMoves
<1>5. F!Size(p) = size
  BY SizeIsNat
<1> QED BY <1>3, <1>4, <1>5 DEF F!Serve

LEMMA LongEnough == ASSUME NEW s \in Seq(STRING) PROVE Len(s) \in Nat /\ (s # <<>> => 1 \in 1..Len(s))
  OBVIOUS

\* A request that goes on, and has neither looked nor been answered.
LEMMA ReqGoes ==
    ASSUME NEW e, NEW bk, Req(e, bk), NEW pc \in {"list", "climb", "parent", "write", "remove"}, Stage(pc, e.kind),
           pc \in {"climb", "parent"} => e.at \in 1..Len(e.path),
           pc \in {"list", "climb", "parent"} => e.told = 0 /\ e.bytes = 0,
           pc = "write" => \A n \in Entries : e.entries[n] = "none",
           \A n \in Entries : e.entries[n] # "todo"
    PROVE  Req([e EXCEPT !.pc = pc], bk) /\ pc \in ReqPcs
<1> DEFINE new == [e EXCEPT !.pc = pc]
<1>1. pc \in ReqPcs /\ Shape(e)
  BY DEF ReqPcs, Req
<1>2. /\ Shape(new) /\ new.pc = pc /\ new.kind = e.kind /\ new.path = e.path /\ new.at = e.at
      /\ new.told = e.told /\ new.bytes = e.bytes /\ new.entries = e.entries
  BY <1>1, PcOfReq
<1> HIDE DEF new
<1>3. Req(new, bk)
  BY <1>2 DEF Req
<1> QED BY <1>1, <1>3 DEF new

LEMMA LookKeepsFiles == ASSUME FilesInv, NEW r \in Reqs, F!Look(r) PROVE FilesInv'
<1>1. PICK kind \in {"none", "file", "directory"} :
        /\ F!Check(reqs[r].path, FALSE, kind)
        /\ CASE kind = "file" -> F!Serve(r, reqs[r].path)
             [] kind = "directory" /\ ~config.default -> F!Goes(r, "list")
             [] kind = "directory" /\ config.default ->
                    F!Becomes(r, [reqs[r] EXCEPT !.path = Append(@, Default), !.pc = "default"])
             [] kind = "none" /\ config.parent /\ Len(reqs[r].path) > 1 -> F!Goes(r, "climb")
             [] OTHER -> F!Answers(r, "missing")
  BY Zenon DEF F!Look
<1>2. (F!Works \/ F!Fails) /\ UNCHANGED bucket
  BY <1>1, CheckWorksOrFails DEF F!Look
<1>3. Req(reqs[r], bucket) /\ reqs[r].pc = "look" /\ reqs[r].kind \in {"get", "head"}
  BY DEF FilesInv, ReqsInv, F!Look, F!Is
<1>4. /\ Shape(reqs[r]) /\ reqs[r].path \in Seq(STRING) /\ reqs[r].path # <<>> /\ reqs[r].at = 1
      /\ reqs[r].told = 0 /\ reqs[r].bytes = 0 /\ \A n \in Entries : reqs[r].entries[n] = "none"
  BY <1>3 DEF Req, Shape
<1>5. CASE F!Serve(r, reqs[r].path)
  BY <1>2, <1>3, <1>4, <1>5, ServeKeeps
<1>6. CASE F!Goes(r, "list")
  <2>1. Stage("list", reqs[r].kind)
    BY <1>3, <1>4 DEF Stage
  <2>2. Req([reqs[r] EXCEPT !.pc = "list"], bucket) /\ "list" \in ReqPcs
    BY <1>3, <1>4, <2>1, LongEnough, ReqGoes
  <2> QED BY <1>2, <1>6, <2>2, GoesKeeps
<1>7. CASE F!Goes(r, "climb")
  <2>1. Stage("climb", reqs[r].kind)
    BY <1>3, <1>4 DEF Stage
  <2>2. Req([reqs[r] EXCEPT !.pc = "climb"], bucket) /\ "climb" \in ReqPcs
    BY <1>3, <1>4, <2>1, LongEnough, ReqGoes
  <2> QED BY <1>2, <1>7, <2>2, GoesKeeps
<1>8. CASE F!Becomes(r, [reqs[r] EXCEPT !.path = Append(@, Default), !.pc = "default"])
  <2> DEFINE path == Append(reqs[r].path, Default)
  <2> DEFINE new == [reqs[r] EXCEPT !.path = path, !.pc = "default"]
  <2>1. path \in Seq(STRING) /\ path # <<>>
    BY <1>4, PathsConstant
  <2>2. /\ Shape(new) /\ new.pc = "default" /\ new.kind = reqs[r].kind /\ new.path = path /\ new.at = 1
        /\ new.told = 0 /\ new.bytes = 0 /\ new.entries = reqs[r].entries
    <3> HIDE DEF path
    <3> QED BY <1>4, <2>1 DEF Shape, ReqPcs
  <2>3. Req(new, bucket)
    <3> HIDE DEF new, path
    <3> QED BY <1>3, <1>4, <2>1, <2>2 DEF Req, Stage
  <2> QED BY <1>2, <1>8, <2>3, ReqMoves
<1>9. CASE F!Answers(r, "missing")
  BY <1>2, <1>4, <1>9, ReqIsAnswered DEF Replies
<1> QED BY <1>1, <1>5, <1>6, <1>7, <1>8, <1>9

LEMMA LookForDefaultKeeps == ASSUME FilesInv, NEW r \in Reqs, F!LookForDefault(r) PROVE FilesInv'
<1>1. PICK kind \in {"none", "file", "directory"} :
        /\ F!Check(reqs[r].path, FALSE, kind)
        /\ CASE kind # "none" -> F!Serve(r, reqs[r].path)
             [] kind = "none" /\ config.parent -> F!Goes(r, "climb")
             [] OTHER -> F!Answers(r, "missing")
  BY Zenon DEF F!LookForDefault
<1>2. (F!Works \/ F!Fails) /\ UNCHANGED bucket
  BY <1>1, CheckWorksOrFails DEF F!LookForDefault
<1>3. Req(reqs[r], bucket) /\ reqs[r].pc = "default"
  BY DEF FilesInv, ReqsInv, F!LookForDefault, F!Is
<1>4. /\ Shape(reqs[r]) /\ reqs[r].path \in Seq(STRING) /\ reqs[r].path # <<>> /\ reqs[r].at = 1
      /\ reqs[r].kind \in {"get", "head"} /\ reqs[r].told = 0 /\ reqs[r].bytes = 0
      /\ \A n \in Entries : reqs[r].entries[n] # "todo"
  BY <1>3 DEF Req, Shape, Stage
<1>5. CASE F!Serve(r, reqs[r].path)
  BY <1>2, <1>3, <1>4, <1>5, ServeKeeps
<1>6. CASE F!Goes(r, "climb")
  <2>1. Stage("climb", reqs[r].kind)
    BY <1>3, <1>4 DEF Stage
  <2>2. Req([reqs[r] EXCEPT !.pc = "climb"], bucket) /\ "climb" \in ReqPcs
    BY <1>3, <1>4, <2>1, LongEnough, ReqGoes
  <2> QED BY <1>2, <1>6, <2>2, GoesKeeps
<1>7. CASE F!Answers(r, "missing")
  BY <1>2, <1>4, <1>7, ReqIsAnswered DEF Replies
<1> QED BY <1>1, <1>5, <1>6, <1>7

LEMMA ClimbKeeps == ASSUME FilesInv, NEW r \in Reqs, F!Climb(r) PROVE FilesInv'
<1>1. PICK kind \in {"none", "file", "directory"} :
        /\ F!Check(F!Climbed(r), FALSE, kind)
        /\ CASE kind # "directory" -> F!Goes(r, "parent")
             [] kind = "directory" /\ reqs[r].at < Len(reqs[r].path) -> F!Becomes(r, [reqs[r] EXCEPT !.at = @ + 1])
             [] OTHER -> F!Answers(r, "missing")
  BY Zenon DEF F!Climb
<1>2. (F!Works \/ F!Fails) /\ UNCHANGED bucket
  BY <1>1, CheckWorksOrFails DEF F!Climb
<1>3. Req(reqs[r], bucket) /\ reqs[r].pc = "climb"
  BY DEF FilesInv, ReqsInv, F!Climb, F!Is
<1>4. /\ Shape(reqs[r]) /\ reqs[r].path \in Seq(STRING) /\ reqs[r].at \in 1..Len(reqs[r].path)
      /\ reqs[r].kind \in {"get", "head"} /\ reqs[r].told = 0 /\ reqs[r].bytes = 0
      /\ \A n \in Entries : reqs[r].entries[n] # "todo"
  BY <1>3 DEF Req, Shape, Stage
<1>5. CASE F!Goes(r, "parent")
  <2>1. Stage("parent", reqs[r].kind)
    BY <1>3, <1>4 DEF Stage
  <2>2. Req([reqs[r] EXCEPT !.pc = "parent"], bucket) /\ "parent" \in ReqPcs
    BY <1>3, <1>4, <2>1, LongEnough, ReqGoes
  <2> QED BY <1>2, <1>5, <2>2, GoesKeeps
<1>6. CASE reqs[r].at < Len(reqs[r].path) /\ F!Becomes(r, [reqs[r] EXCEPT !.at = @ + 1])
  <2> DEFINE at == reqs[r].at + 1
  <2> DEFINE new == [reqs[r] EXCEPT !.at = at]
  <2>1. at \in Nat /\ at \in 1..Len(reqs[r].path)
    BY <1>4, <1>6, LongEnough
  <2>2. /\ Shape(new) /\ new.pc = "climb" /\ new.kind = reqs[r].kind /\ new.path = reqs[r].path /\ new.at = at
        /\ new.told = reqs[r].told /\ new.bytes = reqs[r].bytes /\ new.entries = reqs[r].entries
    <3>1. at \in Nat
      BY <2>1
    <3> HIDE DEF at
    <3> QED BY <1>3, <1>4, <3>1 DEF Shape
  <2>3. Req(new, bucket)
    <3> HIDE DEF new, at
    <3> QED BY <1>3, <1>4, <2>1, <2>2 DEF Req, Stage
  <2> QED BY <1>2, <1>6, <2>3, ReqMoves
<1>7. CASE F!Answers(r, "missing")
  BY <1>2, <1>4, <1>7, ReqIsAnswered DEF Replies
<1> QED BY <1>1, <1>5, <1>6, <1>7

LEMMA ParentKeeps == ASSUME FilesInv, NEW r \in Reqs, F!Parent(r) PROVE FilesInv'
<1>1. PICK kind \in {"none", "file", "directory"} :
        /\ F!Check(F!Climbed(r), FALSE, kind)
        /\ IF kind = "file" THEN F!Serve(r, F!Climbed(r)) ELSE F!Answers(r, "missing")
  BY Zenon DEF F!Parent
<1>2. (F!Works \/ F!Fails) /\ UNCHANGED bucket
  BY <1>1, CheckWorksOrFails DEF F!Parent
<1>3. Req(reqs[r], bucket) /\ reqs[r].pc = "parent"
  BY DEF FilesInv, ReqsInv, F!Parent, F!Is
<1>4. /\ reqs[r].path \in Seq(STRING) /\ reqs[r].at \in 1..Len(reqs[r].path)
      /\ reqs[r].kind \in {"get", "head"} /\ reqs[r].told = 0 /\ reqs[r].bytes = 0
      /\ \A n \in Entries : reqs[r].entries[n] # "todo"
  BY <1>3 DEF Req, Shape, Stage
<1>5. F!Climbed(r) \in Seq(STRING)
  BY <1>4, LongEnough DEF F!Climbed
<1>6. CASE F!Serve(r, F!Climbed(r))
  BY <1>2, <1>3, <1>4, <1>5, <1>6, ServeKeeps
<1>7. CASE F!Answers(r, "missing")
  BY <1>2, <1>4, <1>7, ReqIsAnswered DEF Replies
<1> QED BY <1>1, <1>6, <1>7

LEMMA ListKeeps == ASSUME FilesInv, NEW r \in Reqs, F!List(r) PROVE FilesInv'
<1>1. Req(reqs[r], bucket) /\ reqs[r].pc = "list"
  BY DEF FilesInv, ReqsInv, F!List, F!Is
<1>2. reqs[r].kind # "zip" /\ TrueSize(reqs[r]) /\ \A n \in Entries : reqs[r].entries[n] # "todo"
  BY <1>1 DEF Req, Stage, TrueSize
<1> QED BY <1>2, ReqIsAnswered DEF F!List, Replies

\* What is read of a file that nobody has written is what was asked for.
LEMMA ReadKeepsFiles == ASSUME FilesInv, NEW r \in Reqs, F!Read(r) PROVE FilesInv'
<1> DEFINE e == reqs[r]
<1> DEFINE size == SizeIn(bucket, e.path)
<1>1. Req(e, bucket) /\ e.pc = "read" /\ UNCHANGED bucket
  BY DEF FilesInv, ReqsInv, F!Read, F!Is
<1>2. Shape(e) /\ e.kind \in {"get", "readKey"} /\ \A n \in Entries : e.entries[n] # "todo"
  BY <1>1 DEF Req, Stage
<1>3. CASE \E answer \in {"missing", "failed"} : F!Answers(r, answer) /\ (F!Works \/ F!Fails)
  BY <1>1, <1>2, <1>3, ReqIsAnswered DEF Replies
<1> DEFINE bytes == F!Bytes(r, size)
<1> DEFINE length == IF e.kind = "readKey" THEN size ELSE e.told
<1> DEFINE new == [e EXCEPT !.bytes = bytes, !.told = length]
<1>4. CASE F!Works /\ F!Becomes(r, F!Ended(new, "ok"))
  <2>1. size \in Int /\ e.told \in Int /\ (e.range = None \/ e.range \in [start : Nat, end : Nat])
    BY <1>2, SizeIsNat, SizeConstant DEF Shape
  <2>2. bytes = IF e.range # None /\ (e.range.start # 0 \/ e.told # 1)
                THEN IF e.range.start + e.told <= size THEN e.told ELSE size - e.range.start
                ELSE size
    BY DEF F!Bytes, F!Asked
  <2>3. bytes \in Int /\ length \in Int
    BY <2>1, <2>2
  <2>4. e.kind = "readKey" => bytes = length
    <3>1. e.kind = "readKey" => e.range = None
      BY <1>1 DEF Req
    <3> QED BY <2>2, <3>1
  <2>5. e.kind = "get" /\ e.calm => bytes = length \/ (e.range # None /\ e.range.start = 0 /\ length = 1)
    <3>1. e.kind = "get" /\ e.calm => WithinSize(e, size)
      BY <1>1 DEF Req
    <3> QED BY <2>1, <2>2, <3>1 DEF WithinSize
  <2>6. /\ Shape(new) /\ new.kind = e.kind /\ new.calm = e.calm /\ new.range = e.range
        /\ new.bytes = bytes /\ new.told = length /\ new.entries = e.entries
    <3> HIDE DEF bytes, length
    <3> QED BY <1>2, <2>3 DEF Shape
  <2>7. Req(F!Ended(new, "ok"), bucket)
    <3>1. \A n \in Entries : new.entries[n] # "todo"
      BY <1>2, <2>6
    <3>2. new.kind \in {"get", "readKey"} /\ new.calm => TrueSize(new)
      <4> HIDE DEF new, bytes, length
      <4> QED BY <2>4, <2>5, <2>6 DEF TrueSize
    <3>3. new.kind # "zip" /\ Shape(new)
      BY <1>2, <2>6
    <3> HIDE DEF new
    <3> QED BY <3>1, <3>2, <3>3, EndedIsReq DEF Replies
  <2> HIDE DEF new
  <2> QED BY <1>1, <1>4, <2>7, ReqMoves
<1>5. F!Size(e.path) = size
  BY SizeIsNat
<1> QED BY <1>3, <1>4, <1>5 DEF F!Read

-----------------------------------------------------------------------------
(* The steps of files: writing *)

LEMMA LookToWriteKeeps == ASSUME FilesInv, NEW r \in Reqs, F!LookToWrite(r) PROVE FilesInv'
<1>1. Req(reqs[r], bucket) /\ reqs[r].pc = "look" /\ reqs[r].kind \in {"put", "zip"} /\ UNCHANGED bucket
  BY DEF FilesInv, ReqsInv, F!LookToWrite, F!Is
<1>2. Shape(reqs[r]) /\ \A n \in Entries : reqs[r].entries[n] = "none"
  BY <1>1 DEF Req
<1>3. CASE F!Works /\ F!Answers(r, "no data")
  BY <1>1, <1>2, <1>3, ReqIsAnswered DEF Replies
<1>4. ASSUME NEW kind \in {"none", "file", "directory"}, F!Check(reqs[r].path, reqs[r].slash, kind),
             CASE kind # "directory" /\ ~(kind = "none" /\ reqs[r].slash) -> F!Goes(r, "write")
               [] reqs[r].kind = "zip" /\ (kind = "directory" \/ (kind = "none" /\ reqs[r].slash)) ->
                      \E files \in SUBSET Entries : F!Becomes(r, [reqs[r] EXCEPT !.pc = "unzip",
                          !.entries = [e \in Entries |-> IF e \in files THEN "todo" ELSE "none"]])
               [] OTHER -> F!Answers(r, "forbidden")
      PROVE  FilesInv'
  <2>1. F!Works \/ F!Fails
    BY <1>4, CheckWorksOrFails
  <2>2. CASE F!Goes(r, "write")
    <3>1. Req([reqs[r] EXCEPT !.pc = "write"], bucket) /\ "write" \in ReqPcs
      BY <1>1, <1>2, ReqGoes DEF Stage
    <3> QED BY <1>1, <2>1, <2>2, <3>1, GoesKeeps
  <2>3. ASSUME NEW files \in SUBSET Entries, reqs[r].kind = "zip",
               F!Becomes(r, [reqs[r] EXCEPT !.pc = "unzip",
                   !.entries = [e \in Entries |-> IF e \in files THEN "todo" ELSE "none"]])
        PROVE  FilesInv'
    <3> DEFINE all == [e \in Entries |-> IF e \in files THEN "todo" ELSE "none"]
    <3> DEFINE new == [reqs[r] EXCEPT !.pc = "unzip", !.entries = all]
    <3>1. all \in [Entries -> EntryStates]
      BY DEF EntryStates
    <3>2. Shape(new) /\ new.pc = "unzip" /\ new.kind = reqs[r].kind
      <4> HIDE DEF all
      <4> QED BY <1>2, <3>1 DEF Shape, ReqPcs
    <3>3. Req(new, bucket)
      <4> HIDE DEF new, all
      <4> QED BY <2>3, <3>2 DEF Req, Stage
    <3> QED BY <1>1, <2>1, <2>3, <3>3, ReqMoves
  <2>4. CASE F!Answers(r, "forbidden")
    BY <1>1, <1>2, <2>1, <2>4, ReqIsAnswered DEF Replies
  <2> QED BY <1>4, <2>2, <2>3, <2>4
<1> QED BY <1>3, <1>4, Zenon DEF F!LookToWrite

LEMMA WriteFileKeeps == ASSUME FilesInv, NEW r \in Reqs, F!WriteFile(r) PROVE FilesInv'
<1> DEFINE p == reqs[r].path
<1>1. Req(reqs[r], bucket) /\ reqs[r].pc = "write"
  BY DEF FilesInv, ReqsInv, F!WriteFile, F!Is
<1>2. reqs[r].kind \in {"put", "zip"} /\ \A n \in Entries : reqs[r].entries[n] = "none"
  BY <1>1 DEF Req, Stage
<1>3. CASE UNCHANGED bucket /\ F!Fails /\ F!Answers(r, "failed")
  BY <1>2, <1>3, ReqIsAnswered DEF Replies
<1>4. ASSUME NEW size \in 1..MaxSize, F!Write(p, size), F!Works \/ F!Fails, NEW answer \in {"ok", "failed"},
             reqs' = [F!Stirred(p) EXCEPT ![r] = F!Ended(@, answer)]
      PROVE  FilesInv'
  <2> DEFINE e == Stirs(reqs[r], p)
  <2>1. size \in 0..MaxSize
    BY SizeConstant
  <2>2. F!Stirred(p)[r] = e /\ Req(e, bucket')
    BY <1>4, <2>1, WriteStirs
  <2>3. e.kind = reqs[r].kind /\ e.entries = reqs[r].entries
    BY <1>1 DEF Stirs, Req, Shape
  <2>4. Req(F!Ended(e, answer), bucket')
    <3>1. Shape(e)
      BY <2>2 DEF Req
    <3>2. answer \in Replies
      BY DEF Replies
    <3> HIDE DEF e
    <3> QED BY <1>2, <2>3, <3>1, <3>2, EndedIsReq DEF WholeZip
  <2>5. reqs' = [F!Stirred(p) EXCEPT ![r] = F!Ended(e, answer)]
    BY <1>4, <2>2
  <2> HIDE DEF e, p
  <2> QED BY <1>4, <2>1, <2>4, <2>5, ReqWrites
<1> QED BY <1>3, <1>4 DEF F!WriteFile

\* One file of a zip moves on.
LEMMA EntryIsReq ==
    ASSUME NEW e, NEW bk, Req(e, bk), NEW n \in Entries, e.entries[n] \in {"todo", "checked"},
           NEW st \in {"checked", "written", "failed"}
    PROVE  Req([e EXCEPT !.entries[n] = st], bk)
<1> DEFINE all == [e.entries EXCEPT ![n] = st]
<1> DEFINE new == [e EXCEPT !.entries = all]
<1>1. Shape(e) /\ e.entries \in [Entries -> EntryStates]
  BY DEF Req, Shape
<1>2. all \in [Entries -> EntryStates] /\ all[n] = st /\ \A m \in Entries \ {n} : all[m] = e.entries[m]
  BY <1>1 DEF EntryStates
<1>3. /\ Shape(new) /\ new.pc = e.pc /\ new.kind = e.kind /\ new.path = e.path /\ new.at = e.at /\ new.calm = e.calm
      /\ new.range = e.range /\ new.told = e.told /\ new.bytes = e.bytes /\ new.entries = all
      /\ new.answer = e.answer
  <2> HIDE DEF all
  <2> QED BY <1>1, <1>2 DEF Shape
<1>4. ~(e.pc = "answered" /\ e.answer = "ok" /\ e.kind = "zip") /\ e.pc \notin {"look", "write"}
  BY DEF Req, WholeZip
<1>5. Req(new, bk)
  <2> HIDE DEF new, all
  <2> QED BY <1>2, <1>3, <1>4 DEF Req, WithinSize, TrueSize
<1>6. [e EXCEPT !.entries[n] = st] = new
  BY <1>1
<1> QED BY <1>5, <1>6

LEMMA LookAtEntryKeeps == ASSUME FilesInv, NEW r \in Reqs, NEW n \in Entries, F!LookAtEntry(r, n) PROVE FilesInv'
<1>1. PICK kind \in {"none", "file", "directory"} :
        F!Check(F!EntryPath(r, n), FALSE, kind) /\ F!Entry(r, n, IF kind = "directory" THEN "failed" ELSE "checked")
  BY DEF F!LookAtEntry
<1>2. (F!Works \/ F!Fails) /\ UNCHANGED bucket
  BY <1>1, CheckWorksOrFails DEF F!LookAtEntry
<1> DEFINE st == IF kind = "directory" THEN "failed" ELSE "checked"
<1>3. Req([reqs[r] EXCEPT !.entries[n] = st], bucket)
  BY EntryIsReq DEF FilesInv, ReqsInv, F!LookAtEntry
<1> HIDE DEF st
<1> QED BY <1>1, <1>2, <1>3, ReqMoves DEF F!Entry, st

LEMMA WriteEntryKeeps == ASSUME FilesInv, NEW r \in Reqs, NEW n \in Entries, F!WriteEntry(r, n) PROVE FilesInv'
<1> DEFINE p == F!EntryPath(r, n)
<1>1. PICK done \in BOOLEAN, size \in 1..MaxSize, ok \in BOOLEAN :
        /\ IF done THEN F!Write(p, size) ELSE UNCHANGED bucket
        /\ (ok /\ done /\ F!Works) \/ (~ok /\ F!Fails)
        /\ reqs' = [(IF done THEN F!Stirred(p) ELSE reqs) EXCEPT ![r].entries[n] = IF ok THEN "written" ELSE "failed"]
  BY DEF F!WriteEntry
<1> DEFINE st == IF ok THEN "written" ELSE "failed"
<1>2. st \in {"checked", "written", "failed"} /\ size \in 0..MaxSize
  BY SizeConstant
<1>3. Req(reqs[r], bucket) /\ reqs[r].entries[n] = "checked"
  BY DEF FilesInv, ReqsInv, F!WriteEntry
<1>4. CASE done
  <2> DEFINE e == Stirs(reqs[r], p)
  <2>1. F!Write(p, size) /\ reqs' = [F!Stirred(p) EXCEPT ![r].entries[n] = st]
    BY <1>1, <1>4
  <2>2. F!Stirred(p)[r] = e /\ Req(e, bucket')
    BY <1>2, <2>1, WriteStirs
  <2>3. e.entries = reqs[r].entries
    BY <1>3 DEF Stirs, Req, Shape
  <2> HIDE DEF st, p, e
  <2>4. Req([e EXCEPT !.entries[n] = st], bucket')
    BY <1>2, <1>3, <2>2, <2>3, EntryIsReq
  <2>5. reqs' = [F!Stirred(p) EXCEPT ![r] = [e EXCEPT !.entries[n] = st]]
    BY <2>1, <2>2
  <2> QED BY <1>1, <1>2, <2>1, <2>4, <2>5, ReqWrites
<1>5. CASE ~done
  <2>1. reqs' = [reqs EXCEPT ![r].entries[n] = st] /\ UNCHANGED bucket
    BY <1>1, <1>5
  <2> HIDE DEF st
  <2>2. Req([reqs[r] EXCEPT !.entries[n] = st], bucket)
    BY <1>2, <1>3, EntryIsReq
  <2>3. F!Becomes(r, [reqs[r] EXCEPT !.entries[n] = st])
    BY <2>1 DEF F!Becomes
  <2> QED BY <1>1, <2>1, <2>2, <2>3, ReqMoves
<1> QED BY <1>4, <1>5

\* When no file of a zip has failed, each has been written.
LEMMA UnzippedKeeps == ASSUME FilesInv, NEW r \in Reqs, F!Unzipped(r) PROVE FilesInv'
<1>1. Req(reqs[r], bucket) /\ reqs[r].pc = "unzip" /\ \A n \in Entries : reqs[r].entries[n] \in {"none", "written", "failed"}
  BY DEF FilesInv, ReqsInv, F!Unzipped, F!Is
<1>2. reqs[r].kind = "zip" /\ \A n \in Entries : reqs[r].entries[n] # "todo"
  BY <1>1 DEF Req, Stage
<1>3. CASE F!Answers(r, "failed")
  BY <1>2, <1>3, ReqIsAnswered DEF F!Unzipped, Replies, F!Works
<1>4. CASE ~F!Failed(r) /\ F!Answers(r, "ok")
  <2>1. WholeZip(reqs[r])
    BY <1>1, <1>4 DEF F!Failed, WholeZip
  <2> QED BY <1>2, <1>4, <2>1, ReqIsAnswered DEF F!Unzipped, Replies, F!Works
<1>5. F!Answers(r, "failed") \/ (~F!Failed(r) /\ F!Answers(r, "ok"))
  BY DEF F!Unzipped
<1> QED BY <1>3, <1>4, <1>5

LEMMA UnzippingKeeps == ASSUME FilesInv, NEW r \in Reqs, F!Unzipping(r) PROVE FilesInv'
<1> DEFINE all == F!Left(r)
<1> DEFINE new == [reqs[r] EXCEPT !.entries = all]
<1>1. Shape(reqs[r]) /\ reqs[r].kind = "zip"
  BY DEF FilesInv, ReqsInv, F!Unzipping, F!Is, Req, Stage
<1>2. all \in [Entries -> EntryStates] /\ \A n \in Entries : all[n] # "todo"
  BY <1>1 DEF F!Left, Shape, EntryStates
<1>3. Shape(new) /\ new.kind = "zip" /\ new.entries = all
  <2> HIDE DEF all
  <2> QED BY <1>1, <1>2 DEF Shape
<1>4. Req(F!Ended(new, "failed"), bucket)
  <2> HIDE DEF new, all
  <2> QED BY <1>2, <1>3, EndedIsReq DEF Replies
<1> QED BY <1>4, ReqMoves DEF F!Unzipping, F!Works

-----------------------------------------------------------------------------
(* The steps of files: deleting *)

LEMMA LookToDeleteKeeps == ASSUME FilesInv, NEW r \in Reqs, F!LookToDelete(r) PROVE FilesInv'
<1>1. PICK kind \in {"none", "file", "directory"} :
        F!Check(F!Target(r), FALSE, kind) /\ IF kind = "none" THEN F!Answers(r, "missing") ELSE F!Goes(r, "remove")
  BY DEF F!LookToDelete
<1>2. (F!Works \/ F!Fails) /\ UNCHANGED bucket
  BY <1>1, CheckWorksOrFails DEF F!LookToDelete
<1>3. /\ Req(reqs[r], bucket) /\ reqs[r].kind \in {"delete", "deleteDirectory"}
      /\ \A n \in Entries : reqs[r].entries[n] # "todo"
  BY DEF FilesInv, ReqsInv, F!LookToDelete, F!Is, Req, Stage
<1>4. CASE F!Answers(r, "missing")
  BY <1>2, <1>3, <1>4, ReqIsAnswered DEF Replies
<1>5. CASE F!Goes(r, "remove")
  <2>1. Req([reqs[r] EXCEPT !.pc = "remove"], bucket) /\ "remove" \in ReqPcs
    BY <1>3, ReqGoes DEF Stage
  <2> QED BY <1>2, <1>5, <2>1, GoesKeeps
<1> QED BY <1>1, <1>4, <1>5

\* A request that goes on to the next file.
LEMMA NextIsReq ==
    ASSUME NEW e, NEW bk, Shape(e), e.kind = "deleteDirectory", \A n \in Entries : e.entries[n] # "todo", NEW files
    PROVE  Req([e EXCEPT !.pc = "next", !.files = files], bk)
<1> DEFINE new == [e EXCEPT !.pc = "next", !.files = files]
<1>1. Shape(new) /\ new.pc = "next" /\ new.kind = e.kind /\ new.entries = e.entries
  BY DEF Shape, ReqPcs
<1> HIDE DEF new
<1>2. Req(new, bk)
  BY <1>1 DEF Req, Stage
<1> QED BY <1>2 DEF new

LEMMA RemoveFileKeeps == ASSUME FilesInv, NEW r \in Reqs, F!RemoveFile(r) PROVE FilesInv'
<1> DEFINE p == F!Target(r)
<1>1. /\ Shape(reqs[r]) /\ reqs[r].kind \in {"delete", "deleteDirectory"}
      /\ \A n \in Entries : reqs[r].entries[n] # "todo"
  BY DEF FilesInv, ReqsInv, F!RemoveFile, F!Is, Req, Stage
<1>2. CASE UNCHANGED bucket /\ F!Fails /\ \E answer \in {"ok", "failed"} : F!Answers(r, answer)
  BY <1>1, <1>2, ReqIsAnswered DEF Replies
<1>3. 0 \in 0..MaxSize
  BY SizeConstant
<1>4. CASE F!Works /\ F!Write(p, 0) /\ reqs' = [F!Stirred(p) EXCEPT ![r] = F!Deleted(r)]
  <2>1. Req(F!Deleted(r), bucket')
    <3>1. CASE reqs[r].kind = "delete"
      <4> DEFINE new == [reqs[r] EXCEPT !.done = TRUE]
      <4>1. Shape(new) /\ new.kind = "delete" /\ new.entries = reqs[r].entries
        BY <1>1, <3>1 DEF Shape
      <4>2. Req(F!Ended(new, "ok"), bucket')
        <5> HIDE DEF new
        <5> QED BY <1>1, <4>1, EndedIsReq DEF Replies
      <4> QED BY <3>1, <4>2 DEF F!Deleted
    <3>2. CASE reqs[r].kind # "delete"
      BY <1>1, <3>2, NextIsReq DEF F!Deleted
    <3> QED BY <3>1, <3>2
  <2> HIDE DEF p
  <2> QED BY <1>3, <1>4, <2>1, ReqWrites
<1>5. CASE F!Fails /\ F!Write(p, 0) /\ reqs' = [F!Stirred(p) EXCEPT ![r] = F!Ended([@ EXCEPT !.done = TRUE], "failed")]
  <2> DEFINE e == Stirs(reqs[r], p)
  <2> DEFINE new == [e EXCEPT !.done = TRUE]
  <2>1. F!Stirred(p)[r] = e /\ Req(e, bucket')
    BY <1>3, <1>5, WriteStirs
  <2>2. Shape(e) /\ e.entries = reqs[r].entries
    BY <1>1 DEF Stirs, Shape
  <2>3. Shape(new) /\ new.entries = reqs[r].entries
    <3> HIDE DEF e
    <3> QED BY <2>2 DEF Shape
  <2>4. Req(F!Ended(new, "failed"), bucket')
    <3> HIDE DEF new
    <3> QED BY <1>1, <2>3, EndedIsReq DEF Replies
  <2>5. reqs' = [F!Stirred(p) EXCEPT ![r] = F!Ended(new, "failed")]
    BY <1>5, <2>1
  <2> HIDE DEF p, new, e
  <2> QED BY <1>3, <1>5, <2>4, <2>5, ReqWrites
<1> QED BY <1>2, <1>4, <1>5 DEF F!RemoveFile

LEMMA ListToDeleteKeeps == ASSUME FilesInv, NEW r \in Reqs, F!ListToDelete(r) PROVE FilesInv'
<1>1. /\ Shape(reqs[r]) /\ reqs[r].kind = "deleteDirectory" /\ UNCHANGED bucket
      /\ \A n \in Entries : reqs[r].entries[n] # "todo"
  BY DEF FilesInv, ReqsInv, F!ListToDelete, F!Is, Req
<1>2. CASE F!Fails /\ F!Answers(r, "ok")
  BY <1>1, <1>2, ReqIsAnswered DEF Replies
<1>3. CASE F!Works /\ F!Becomes(r, [reqs[r] EXCEPT !.pc = "next", !.files = F!Listing(reqs[r].path)])
  BY <1>1, <1>3, NextIsReq, ReqMoves
<1> QED BY <1>2, <1>3 DEF F!ListToDelete

LEMMA DirectoryDoneKeeps == ASSUME FilesInv, NEW r \in Reqs, F!DirectoryDone(r) PROVE FilesInv'
<1>1. /\ reqs[r].kind \in {"delete", "deleteDirectory"} /\ UNCHANGED bucket /\ F!Works
      /\ \A n \in Entries : reqs[r].entries[n] # "todo"
  BY DEF FilesInv, ReqsInv, F!DirectoryDone, F!Is, F!Works, Req, Stage
<1>2. \E answer \in {"ok", "not empty"} : F!Answers(r, answer)
  BY DEF F!DirectoryDone
<1> QED BY <1>1, <1>2, ReqIsAnswered DEF Replies

LEMMA FilesStep == ASSUME FilesInv, F!Next PROVE FilesInv'
<1>1. ASSUME NEW r \in Reqs,
             F!Begin(r) \/ F!Look(r) \/ F!LookForDefault(r) \/ F!Climb(r) \/ F!Parent(r) \/ F!Read(r) \/ F!List(r)
      PROVE  FilesInv'
  BY <1>1, FBeginKeeps, LookKeepsFiles, LookForDefaultKeeps, ClimbKeeps, ParentKeeps, ReadKeepsFiles, ListKeeps
<1>2. ASSUME NEW r \in Reqs,
             \/ F!LookToWrite(r) \/ F!WriteFile(r) \/ F!Unzipped(r) \/ F!Unzipping(r)
             \/ \E n \in Entries : F!LookAtEntry(r, n) \/ F!WriteEntry(r, n)
      PROVE  FilesInv'
  BY <1>2, LookToWriteKeeps, WriteFileKeeps, UnzippedKeeps, UnzippingKeeps, LookAtEntryKeeps, WriteEntryKeeps
<1>3. ASSUME NEW r \in Reqs, F!LookToDelete(r) \/ F!RemoveFile(r) \/ F!ListToDelete(r) \/ F!DirectoryDone(r)
      PROVE  FilesInv'
  BY <1>3, LookToDeleteKeeps, RemoveFileKeeps, ListToDeleteKeeps, DirectoryDoneKeeps
<1> QED BY <1>1, <1>2, <1>3 DEF F!Next

LEMMA FilesStutter == ASSUME FilesInv, UNCHANGED fileVars PROVE FilesInv'
  BY DEF fileVars, FilesInv, ReqsInv

LEMMA FilesImply == FilesInv => F!TypeOK /\ F!SizesAreTrue /\ F!ZipIsWhole
<1> SUFFICES ASSUME FilesInv PROVE F!TypeOK /\ F!SizesAreTrue /\ F!ZipIsWhole
  OBVIOUS
<1>1. \A r \in Reqs : Req(reqs[r], bucket)
  BY DEF FilesInv, ReqsInv
<1>2. F!TypeOK
  BY <1>1 DEF FilesInv, Req, F!TypeOK, F!Is
<1>3. F!SizesAreTrue
  BY <1>1 DEF Req, TrueSize, F!SizesAreTrue, F!Is
<1>4. F!ZipIsWhole
  BY <1>1 DEF Req, WholeZip, F!ZipIsWhole, F!Is
<1> QED BY <1>2, <1>3, <1>4

(***************************************************************************)
(* The stores together                                                     *)
(***************************************************************************)
IInv == MongoInv /\ ElasticInv /\ FilesInv

LEMMA StoresInitially == StoresInit => IInv
  BY MongoInitially, ElasticInitially, FilesInitially DEF StoresInit, IInv

LEMMA StoresStep == IInv /\ [StoresNext]_storesVars => IInv'
<1> SUFFICES ASSUME IInv, [StoresNext]_storesVars PROVE IInv'
  OBVIOUS
<1>1. CASE Next /\ UNCHANGED <<elasticVars, fileVars>>
  BY <1>1, MongoStep, ElasticStutters, FilesStutter DEF IInv
<1>2. CASE E!Next /\ UNCHANGED <<vars, fileVars>>
  BY <1>2, ElasticStep, MongoStutters, FilesStutter DEF IInv
<1>3. CASE F!Next /\ UNCHANGED <<vars, elasticVars>>
  BY <1>3, FilesStep, MongoStutters, ElasticStutters DEF IInv
<1>4. CASE UNCHANGED storesVars
  BY <1>4, MongoStutters, ElasticStutters, FilesStutter DEF IInv, storesVars
<1> QED BY <1>1, <1>2, <1>3, <1>4 DEF StoresNext

LEMMA StoresInvariance == StoresSpec => []IInv
  BY StoresInitially, StoresStep, PTL DEF StoresSpec

(* Every state of the stores is of its type: what is not there has nothing, tries are counted, a   *)
(* path to climb is one (MongoDbDataAdapter, ElasticDataAdapter, file.ts).                         *)
THEOREM StoresTypes == StoresSpec => []AllTypesOK
<1>1. IInv => AllTypesOK
  BY MongoImplies, ElasticImplies, FilesImply DEF IInv, AllTypesOK
<1> QED BY <1>1, StoresInvariance, PTL

(* An insertion into MongoDB that is tried again, however often and after whatever failure, leaves *)
(* one document (writeKey, withFastRetry).                                                         *)
THEOREM MongoInsertsOnce == StoresSpec => []InsertedOnce
<1>1. IInv => InsertedOnce
  BY MongoImplies DEF IInv
<1> QED BY <1>1, StoresInvariance, PTL

(* A schema that MongoDB has stored has its indexes unless the collection was dropped since, for   *)
(* any number of operations that write schemas, drop and fail at the same time (writeSchema).      *)
THEOREM MongoIndexesAreMade == StoresSpec => []IndexesAreMade
<1>1. IInv => IndexesAreMade
  BY MongoImplies DEF IInv
<1> QED BY <1>1, StoresInvariance, PTL

(* What a store has answered is so: written keys are found and deleted ones are not, the index has *)
(* the types of its schema, a saved zip is whole and a file as long as it was said to be           *)
(* (waitForWrite, writeSchema, writeAction, get).                                                  *)
THEOREM StoresAnswerTruly == StoresSpec => []AnswersAreTrue
<1>1. IInv => AnswersAreTrue
  BY ElasticImplies, FilesImply DEF IInv, AnswersAreTrue
<1> QED BY <1>1, StoresInvariance, PTL
=============================================================================
