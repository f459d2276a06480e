------------------------------ MODULE MongoData ------------------------------
(***************************************************************************)
(* The MongoDB adapters (adapter/MongoDbDataAdapter.ts,                    *)
(* MongoDbQueryAdapter.ts, mongoDbCommon.ts) over one dataset: its         *)
(* collection, its schema in the schema collection, the indexes the schema *)
(* asks for, and the client each adapter shares between its operations.    *)
(*                                                                         *)
(* A call of the server may fail for good, and it may fail for a time      *)
(* before it has done its work or after: these are tried again, as often   *)
(* as Retries says.  An adapter may be closed while operations run         *)
(* (mimeHandlers.ts leaves some behind).                                   *)
(***************************************************************************)
EXTENDS Integers, FiniteSets

CONSTANTS
    Adapters, Queriers,     \* Queriers run queries, the others everything else
    Ops,                    \* operations at a time
    MaxOps, MaxFaults,      \* bounds on operations and on failures for a time
    Retries,
    None

VARIABLES
    docs, exists, indexes,  \* the collection; a document is the key's or that of an insertion
    schemasExist, stored,   \* the schema collection, and the schema in it or None
    client, live,           \* of an adapter; its connections to the server
    state,                  \* "open", "closed", or "adrift": closed with operations under way
    ops, begun, faults,
    dropped                 \* the collection has been dropped since the indexes of its schema were made

data == <<docs, exists, indexes, schemasExist, stored, dropped>>
vars == <<docs, exists, indexes, schemasExist, stored, client, live, state, ops, begun, faults, dropped>>

Schemas == [unique : BOOLEAN, composite : BOOLEAN, valid : BOOLEAN]
SchemaKinds == {"readSchema", "checkSchema", "writeSchema"}
Kinds == {"read", "put", "insert", "delete", "list", "filter", "check", "deleteDataset"} \cup SchemaKinds

ASSUME RetriesConstant == Retries \in Nat
\* None is neither a schema nor an index.
ASSUME NoneConstant == None \notin Schemas \cup {"unique field", "two fields"}

\* calm: nothing has been dropped since this operation began to make its indexes, or relied on them.
Idle == [pc |-> "idle", kind |-> None, on |-> None, number |-> 0, schema |-> None, connected |-> FALSE,
         left |-> {}, tries |-> 0, calm |-> FALSE]

Init ==
    /\ docs = {} /\ exists = FALSE /\ indexes = {} /\ schemasExist = FALSE /\ stored = None
    /\ client = [a \in Adapters |-> "none"] /\ live = [a \in Adapters |-> 0]
    /\ state = [a \in Adapters |-> "open"]
    /\ ops = [o \in Ops |-> Idle] /\ begun = 0 /\ faults = 0 /\ dropped = FALSE

-----------------------------------------------------------------------------
(* compileIndexModels: what fields ask for, and the list of composite indexes; equal ones are one. *)
FieldIndexes(s) == IF s.unique THEN {"unique field"} ELSE {}
CompositeIndexes(s) == IF s.composite THEN {"two fields"} ELSE {}
Models(s) == FieldIndexes(s) \cup CompositeIndexes(s)
\* indexSpecHash: of the sorted models.  {None} where there is none.
Hash(s) == IF s = None THEN {None} ELSE Models(s)

Running(a) == {o \in Ops : ops[o].pc # "idle" /\ ops[o].on = a}
Is(o, pc) == ops[o].pc = pc
Connected(o) == client[ops[o].on] = "open"
Goes(o, pc) == ops' = [ops EXCEPT ![o].pc = pc]
Ends(o) == ops' = [ops EXCEPT ![o] = Idle]
Rest == UNCHANGED <<client, live, state, begun>>

Begin(o) ==
    /\ Is(o, "idle") /\ begun < MaxOps /\ begun' = begun + 1
    /\ \E a \in Adapters, kind \in Kinds \cup {"query"}, s \in Schemas :
        /\ state[a] = "open" /\ (a \in Queriers <=> kind = "query")
        \* what an operation has no use for is fixed
        /\ kind # "writeSchema" => s = [unique |-> FALSE, composite |-> FALSE, valid |-> TRUE]
        /\ ~s.valid => ~s.unique /\ ~s.composite
        /\ ops' = [ops EXCEPT ![o] = [Idle EXCEPT !.pc = "connect", !.kind = kind, !.on = a,
                                      !.number = IF kind = "insert" THEN begun + 1 ELSE 0, !.schema = s]]
    /\ UNCHANGED <<data, client, live, state, faults>>

\* What an operation does first, and what it does once the schema collection is there.
First(o) ==
    CASE ops[o].kind \in {"read", "put", "insert"} \cup SchemaKinds -> "ensure"
      [] ops[o].kind \in {"list", "filter", "check", "query"} -> "find"
      [] ops[o].kind = "deleteDataset" -> "look"
      [] ops[o].kind = "delete" -> "remove"
Then(o) == IF ops[o].kind = "deleteDataset" THEN "forget" ELSE "schema"

Alone(a) == client[a] = "none"
\* ensureConnection, which ensureSchemasCollection calls again: connected says which.
Resume(o) == ops' = [ops EXCEPT ![o] = [@ EXCEPT !.connected = TRUE, !.pc =
                        IF ops[o].connected THEN "list" ELSE First(o)]]
HasConnection(o) == Is(o, "connect") /\ Connected(o) /\ Resume(o) /\ UNCHANGED <<data, client, live, state, begun, faults>>
ConnectsFirst(o) ==
    /\ Is(o, "connect") /\ Alone(ops[o].on)
    /\ client' = [client EXCEPT ![ops[o].on] = "connecting"] /\ Goes(o, "connecting")
    /\ UNCHANGED <<data, live, state, begun, faults>>
Connect(o) == ops[o].on \notin Queriers /\ ConnectsFirst(o)
ConnectQuery(o) == ops[o].on \in Queriers /\ ConnectsFirst(o)
Wait(o) ==
    /\ Is(o, "connect") /\ client[ops[o].on] = "connecting" /\ Goes(o, "waiting")
    /\ UNCHANGED <<data, client, live, state, begun, faults>>

\* Everyone who waits for the connection has it, or has the error.
Waiting(o) == {o} \cup {q \in Running(ops[o].on) : Is(q, "waiting")}
Connecting(o) ==
    LET a == ops[o].on IN
    /\ Is(o, "connecting")
    /\ \/ /\ live' = [live EXCEPT ![a] = @ + 1] /\ client' = [client EXCEPT ![a] = "open"]
          /\ ops' = [q \in Ops |-> IF q \in Waiting(o) THEN
                        [ops[q] EXCEPT !.connected = TRUE, !.pc = IF ops[q].connected THEN "list" ELSE First(q)]
                     ELSE ops[q]]
          /\ UNCHANGED faults
       \/ /\ faults < MaxFaults /\ faults' = faults + 1 /\ client' = [client EXCEPT ![a] = "none"]
          /\ ops' = [q \in Ops |-> IF q \in Waiting(o) THEN Idle ELSE ops[q]] /\ UNCHANGED live
    /\ UNCHANGED <<data, state, begun>>

\* close of the adapter, once; that a client is connecting then is left out.
Close(a) ==
    /\ state[a] = "open" /\ client[a] # "connecting"
    /\ state' = [state EXCEPT ![a] = IF Running(a) = {} THEN "closed" ELSE "adrift"]
    /\ live' = [live EXCEPT ![a] = IF client[a] = "open" THEN @ - 1 ELSE @]
    /\ client' = [client EXCEPT ![a] = "none"] /\ UNCHANGED <<data, ops, begun, faults>>

-----------------------------------------------------------------------------
(* A call of the server. *)

\* withFastRetry starts what it is given again.
Section(o) == CASE ops[o].kind = "deleteDataset" -> "drop" [] ops[o].kind = "writeSchema" /\ ops[o].pc = "index" -> "index"
                [] OTHER -> ops[o].pc
Retried(o) ==
    \/ /\ ops[o].kind \in {"put", "insert", "delete", "query"} /\ ops[o].pc \in {"update", "add", "remove", "find"}
    \/ ops[o].kind = "deleteDataset" /\ ops[o].pc # "look"
    \/ ops[o].kind = "writeSchema" /\ ops[o].pc \in {"index", "store"}
Again(o) ==
    [ops[o] EXCEPT !.pc = Section(o), !.tries = @ + 1, !.left = IF ops[o].pc = "index" THEN Models(ops[o].schema) ELSE @]
FailsForATime(o) ==
    /\ faults < MaxFaults /\ faults' = faults + 1
    /\ IF Retried(o) /\ ops[o].tries < Retries THEN ops' = [ops EXCEPT ![o] = Again(o)] ELSE Ends(o)
FailsForGood(o) == Ends(o) /\ UNCHANGED faults
\* A call that has not worked: without a client nothing does, and some give up by themselves.
NotDone(o) == (FailsForATime(o) \/ FailsForGood(o)) /\ UNCHANGED data
\* One that has: its answer may be lost, and then whoever called does not know.
Done(o, pc) ==
    \/ UNCHANGED faults /\ (IF pc = "end" THEN Ends(o) ELSE Goes(o, pc))
    \/ FailsForATime(o)

Ensure(o) ==
    /\ Is(o, "ensure") /\ UNCHANGED <<data, client, live, state, begun, faults>>
    /\ Goes(o, IF Connected(o) THEN "list" ELSE "connect")

\* ensureSchemasCollection lists, and creates what it has not found; someone else may have by then.
ListSchemas(o) ==
    /\ Is(o, "list") /\ Rest
    /\ \/ Connected(o) /\ UNCHANGED data /\ Done(o, IF schemasExist THEN Then(o) ELSE "create")
       \/ NotDone(o)
CreateSchemas(o) ==
    /\ Is(o, "create") /\ Rest
    /\ \/ /\ Connected(o) /\ ~schemasExist /\ schemasExist' = TRUE /\ Done(o, Then(o))
          /\ UNCHANGED <<docs, exists, indexes, stored, dropped>>
       \/ NotDone(o)

\* convertDatesForWrite: a field the schema calls a date is none.
Unconvertible(o) == ops[o].kind \in {"put", "insert"} /\ stored # None

\* getSchemaRequired, which answers 500 without a schema; readSchema, checkSchema and listings end here.
ReadSchema(o) ==
    /\ Is(o, "schema") /\ ops[o].kind # "writeSchema" /\ Rest
    /\ \/ /\ Connected(o) /\ UNCHANGED data
          /\ IF stored = None \/ ops[o].kind \in {"list", "filter"} \cup SchemaKinds THEN Done(o, "end")
             ELSE Done(o, CASE ops[o].kind = "read" -> "find" [] ops[o].kind = "put" -> "update"
                            [] ops[o].kind = "insert" -> "add")
       \/ Unconvertible(o) /\ UNCHANGED <<data, faults>> /\ Ends(o)
       \/ NotDone(o)

\* What is read, by key or as a listing, which then looks for the schema; what a query finds.
Finds(o, kind, pc) ==
    /\ Is(o, "find") /\ ops[o].kind = kind /\ Rest
    /\ (Connected(o) /\ UNCHANGED data /\ Done(o, pc)) \/ NotDone(o)
FindKey(o) == Finds(o, "read", "end")
CheckKey(o) == Finds(o, "check", "end")
FindKeys(o) == Finds(o, "list", "ensure")
FilterKeys(o) == Finds(o, "filter", "ensure")
Aggregate(o) == Finds(o, "query", "end")

\* Writing creates the collection if it has to.
Adds(o, d) ==
    /\ docs' = docs \cup {d} /\ exists' = TRUE /\ UNCHANGED <<indexes, schemasExist, stored, dropped>>
    /\ Done(o, "end")
Key == [by |-> 0, try |-> 0]
Update(o) == Is(o, "update") /\ Rest /\ ((Connected(o) /\ Adds(o, Key)) \/ NotDone(o))

\* MUTANT: a copy is inserted, which has a new identity each time.
NewIdentity(o) == [by |-> ops[o].number, try |-> ops[o].tries]

\* insertOne gives the document its identity the first time; the server has each only once.
Identity(o) == [by |-> ops[o].number, try |-> 0]
Add(o) ==
    /\ Is(o, "add") /\ Rest
    /\ (Connected(o) /\ Identity(o) \notin docs /\ Adds(o, Identity(o))) \/ NotDone(o)
Remove(o) ==
    /\ Is(o, "remove") /\ Rest
    /\ \/ /\ Connected(o) /\ docs' = docs \ {Key} /\ UNCHANGED <<exists, indexes, schemasExist, stored, dropped>>
          /\ Done(o, "end")
       \/ NotDone(o)

-----------------------------------------------------------------------------
(* deleteDataset: both parts are tried again if the second fails, and the first then has nothing   *)
(* to drop, which newer servers accept.                                                            *)
Look(o) ==
    /\ Is(o, "look") /\ Rest
    /\ (Connected(o) /\ UNCHANGED data /\ Done(o, IF exists THEN "drop" ELSE "end")) \/ NotDone(o)
Drop(o) ==
    /\ Is(o, "drop") /\ Rest
    /\ \/ /\ Connected(o) /\ docs' = {} /\ exists' = FALSE /\ indexes' = {} /\ dropped' = TRUE
          /\ UNCHANGED <<schemasExist, stored>>
          /\ \/ UNCHANGED faults /\ ops' = [q \in Ops |-> [ops[q] EXCEPT !.calm = FALSE, !.pc = IF q = o THEN "ensure" ELSE @]]
             \/ /\ faults < MaxFaults /\ faults' = faults + 1
                /\ ops' = [q \in Ops |-> IF q # o THEN [ops[q] EXCEPT !.calm = FALSE]
                                          ELSE IF ops[q].tries < Retries THEN [ops[q] EXCEPT !.tries = @ + 1] ELSE Idle]
       \/ NotDone(o)
Forget(o) ==
    /\ Is(o, "forget") /\ Rest
    /\ (Connected(o) /\ stored' = None /\ UNCHANGED <<docs, exists, indexes, schemasExist, dropped>> /\ Done(o, "end"))
       \/ NotDone(o)

\* MUTANT: the first index will do.
IndexFirst(o) ==
    /\ Is(o, "index") /\ Rest
    /\ \/ /\ ops[o].left = {} /\ UNCHANGED <<data, faults>>
          /\ ops' = [ops EXCEPT ![o] = [@ EXCEPT !.pc = "store", !.tries = 0]]
       \/ \E i \in ops[o].left :
            /\ Connected(o) /\ indexes' = indexes \cup {i} /\ exists' = TRUE
            /\ UNCHANGED <<docs, schemasExist, stored, dropped, faults>> /\ ops' = [ops EXCEPT ![o].left = {}]

(* writeSchema: the indexes are made, one after the other, if those of the last schema are others; *)
(* then the schema is stored.  No index is ever removed.                                           *)
Refused(o) == ~ops[o].schema.valid
Compiled(o) ==
    LET same == Hash(stored) = Hash(ops[o].schema) IN
    [ops[o] EXCEPT !.tries = 0, !.left = Models(ops[o].schema), !.calm = same => ~dropped,
                   !.pc = IF same THEN "store" ELSE "index"]
Compile(o) ==
    /\ Is(o, "schema") /\ ops[o].kind = "writeSchema" /\ Rest
    /\ \/ /\ Connected(o) /\ UNCHANGED <<data, faults>>
          /\ IF Refused(o) THEN Ends(o) ELSE ops' = [ops EXCEPT ![o] = Compiled(o)]
       \/ NotDone(o)
Index(o) ==
    /\ Is(o, "index") /\ Rest
    /\ \/ /\ ops[o].left = {} /\ UNCHANGED <<data, faults>>
          /\ ops' = [ops EXCEPT ![o] = [@ EXCEPT !.pc = "store", !.tries = 0]]
       \/ \E i \in ops[o].left :
            /\ Connected(o) /\ indexes' = indexes \cup {i} /\ exists' = TRUE
            /\ UNCHANGED <<docs, schemasExist, stored, dropped>>
            /\ FailsForATime(o) \/ (UNCHANGED faults /\ ops' = [ops EXCEPT ![o].left = @ \ {i}])
       \/ ops[o].left # {} /\ NotDone(o)

Store(o) ==
    /\ Is(o, "store") /\ Rest
    /\ \/ /\ Connected(o) /\ stored' = ops[o].schema /\ UNCHANGED <<docs, exists, indexes, schemasExist>>
          /\ dropped' = ~ops[o].calm
          /\ Done(o, "end")
       \/ NotDone(o)

Next ==
    \/ \E a \in Adapters : Close(a)
    \/ \E o \in Ops :
        \/ Begin(o) \/ HasConnection(o) \/ Connect(o) \/ ConnectQuery(o) \/ Wait(o) \/ Connecting(o) \/ Ensure(o) \/ ListSchemas(o)
        \/ CreateSchemas(o) \/ ReadSchema(o) \/ FindKey(o) \/ CheckKey(o) \/ FindKeys(o) \/ FilterKeys(o) \/ Aggregate(o)
        \/ Update(o) \/ Add(o) \/ Remove(o) \/ Look(o) \/ Drop(o)
        \/ Forget(o) \/ Compile(o) \/ Index(o) \/ Store(o)

Spec == Init /\ [][Next]_vars

-----------------------------------------------------------------------------
(* Types: a collection that is not there has nothing, and who connects is an operation under way. *)
TypeOK ==
    /\ stored \in Schemas \cup {None} /\ (~exists => docs = {} /\ indexes = {})
    /\ stored # None => schemasExist /\ stored.valid
    /\ client \in [Adapters -> {"none", "connecting", "open"}]
    /\ \A a \in Adapters : client[a] = "connecting" => \E o \in Running(a) : Is(o, "connecting")
    /\ \A o \in Ops : ops[o].tries <= Retries

(* An insertion that is tried again leaves no second document (writeKey, withFastRetry). *)
InsertedOnce == \A d, e \in docs : d.by = e.by => d = e

(* A schema that is stored has its indexes, unless the collection has been dropped since: whatever *)
(* failed half way, and whoever wrote another at the same time (writeSchema).                      *)
IndexesAreMade == stored # None /\ ~dropped => Models(stored) \subseteq indexes
=============================================================================
