---------------------------- MODULE ElasticData ----------------------------
(***************************************************************************)
(* The Elasticsearch adapters (adapter/ElasticDataAdapter.ts,              *)
(* ElasticQueryAdapter.ts) over one dataset: its index with the type the   *)
(* index has for a field, the documents, those a search finds, and the     *)
(* schema in the index of schemas.  Each request to the server is one      *)
(* step; it may be refused, and its answer may be lost.                    *)
(*                                                                         *)
(* The server makes what was written visible to searches from time to time *)
(* (every second); a write waits before it answers, and longer than that   *)
(* unless it is configured otherwise.  Schemas have one field.             *)
(***************************************************************************)
EXTENDS Integers, FiniteSets

CONSTANTS Users,            \* who use an adapter, one operation at a time
    MaxUses, MaxLosses,     \* bounds on operations and on requests that fail
    Unset

VARIABLES
    index, type,            \* of the dataset: whether it is there, and the type it has for the field
    docs, shown,            \* keys
    schemasIndex, schema,
    uses, used, losses,
    told,                   \* keys whose write a patient adapter has answered, and nobody deleted since
    gone,                   \* keys whose deletion one has answered, and that nobody has written since
    deleted                 \* the index has been deleted since it was mapped as its schema says

dataset == <<index, type, docs, shown, schemasIndex, schema, told, gone, deleted>>
elasticVars == <<dataset, uses, used, losses>>

Fields == {"integer", "string", "list of strings"}
DocKeys == {"k", "undefined"}
Reading == {"readKey", "listDataset", "checkKey", "readSchema", "checkSchema", "_search", "_count"}
Operations == Reading \cup {"write", "insert", "deleteKey", "deleteDataset", "writeSchema", "_delete_by_query", "_update_by_query"}

\* patient: writeDelayMs is longer than the server takes.  calm: the index has not been deleted since it
\* was mapped.  visible, undone: what has become of the write.
NoUse == [pc |-> "idle", op |-> "readKey", patient |-> TRUE, field |-> "string", there |-> FALSE, calm |-> TRUE,
          visible |-> FALSE, undone |-> FALSE]

Init ==
    /\ index = FALSE /\ type = Unset /\ docs = {} /\ shown = {} /\ schemasIndex = FALSE /\ schema = Unset
    /\ told = {} /\ gone = {} /\ deleted = FALSE
    /\ uses = [u \in Users |-> NoUse] /\ used = 0 /\ losses = 0

-----------------------------------------------------------------------------
(* schemaToMapping: a list of a primitive type has the type of its items. *)
Mapping(field) == CASE field = "integer" -> "long" [] OTHER -> "keyword"
Types == {Mapping(f) : f \in Fields}

Is(u, pc) == uses[u].pc = pc
Goes(u, pc) == uses' = [uses EXCEPT ![u].pc = pc]
Ends(u) == uses' = [uses EXCEPT ![u] = NoUse]
Loses == losses < MaxLosses /\ losses' = losses + 1
Keeps == UNCHANGED losses

\* writeKey without a key names the document as JavaScript writes what is not there.
KeysOf(u) ==
    CASE uses[u].op = "insert" -> {"undefined"} [] uses[u].op = "deleteDataset" -> DocKeys
      [] uses[u].op = "writeSchema" -> {} [] OTHER -> {"k"}
Writes(u) == uses[u].op \in {"write", "insert"}

Begin(u) ==
    /\ Is(u, "idle") /\ used < MaxUses /\ used' = used + 1 /\ UNCHANGED <<dataset, losses>>
    /\ \E op \in Operations, field \in Fields, patient \in BOOLEAN :
        /\ op # "writeSchema" => field = "string"
        /\ ~patient => op \in {"write", "insert", "deleteKey", "deleteDataset"}     \* those it matters to
        /\ uses' = [uses EXCEPT ![u] = [NoUse EXCEPT !.op = op, !.field = field, !.patient = patient,
              !.pc = CASE op \in Reading -> "read" [] op \in {"write", "insert"} -> "write" [] op = "writeSchema" -> "check"
                       [] OTHER -> "delete"]]

\* What reads, and a query that is not well formed, changes nothing.
Read(u) == Is(u, "read") /\ (Keeps \/ Loses) /\ Ends(u) /\ UNCHANGED <<dataset, used>>

\* What u does to keys, next being what it does after, undoes the opposite that has not been answered.
Undoes(u, keys, next) ==
    [v \in Users |->
        IF v = u THEN next
        ELSE IF Is(v, "wait") /\ KeysOf(v) \cap keys # {} /\ Writes(u) # Writes(v) THEN [uses[v] EXCEPT !.undone = TRUE]
        ELSE uses[v]]
Waits(u) == [uses[u] EXCEPT !.pc = "wait"]
Forget(keys) == docs' = docs \ keys /\ told' = told \ keys

-----------------------------------------------------------------------------
(* Documents.  The server makes an index that is not there, and gives it types by what is written. *)
WriteKey(u) ==
    /\ Is(u, "write") /\ UNCHANGED <<shown, schemasIndex, schema, told, deleted, used>>
    /\ \/ /\ index' = TRUE /\ docs' = docs \cup KeysOf(u) /\ gone' = gone \ KeysOf(u)
          /\ type' \in IF type = Unset THEN Types ELSE {type}
          /\ (Keeps /\ uses' = Undoes(u, KeysOf(u), Waits(u))) \/ (Loses /\ uses' = Undoes(u, KeysOf(u), NoUse))
       \/ Loses /\ Ends(u) /\ UNCHANGED <<index, type, docs, gone>>

\* A search sees what has been written; the server does this by itself.
Refresh ==
    /\ shown # docs \/ \E u \in Users : Is(u, "wait") /\ ~uses[u].visible
    /\ shown' = docs /\ uses' = [u \in Users |-> IF Is(u, "wait") THEN [uses[u] EXCEPT !.visible = TRUE] ELSE uses[u]]
    /\ UNCHANGED <<index, type, docs, schemasIndex, schema, told, gone, deleted, used, losses>>

\* waitForWrite: a second and a half, which is longer than the server takes, or as long as is configured.
Delay(u) == uses[u].patient => uses[u].visible
Lasts(u) == uses[u].patient /\ ~uses[u].undone
Answer(u) ==
    /\ Is(u, "wait") /\ Delay(u) /\ Ends(u)
    /\ told' = IF Writes(u) /\ Lasts(u) THEN told \cup KeysOf(u) ELSE told
    /\ gone' = IF ~Writes(u) /\ Lasts(u) THEN gone \cup KeysOf(u) ELSE gone
    /\ UNCHANGED <<index, type, docs, shown, schemasIndex, schema, deleted, used, losses>>

DeleteKey(u) ==
    /\ Is(u, "delete") /\ uses[u].op = "deleteKey" /\ Forget(KeysOf(u))
    /\ (Keeps /\ uses' = Undoes(u, KeysOf(u), Waits(u))) \/ (Loses /\ uses' = Undoes(u, KeysOf(u), NoUse))
    /\ UNCHANGED <<index, type, shown, schemasIndex, schema, gone, deleted, used>>
\* Queries that write act on what a search finds.
ByQuery(u) ==
    /\ Is(u, "delete") /\ uses[u].op \in {"_delete_by_query", "_update_by_query"} /\ (Keeps \/ Loses)
    /\ \E keys \in SUBSET (shown \cap docs) :
        /\ uses[u].op = "_update_by_query" => keys = {}
        /\ Forget(keys) /\ uses' = Undoes(u, keys, NoUse)
    /\ UNCHANGED <<index, type, shown, schemasIndex, schema, gone, deleted, used>>
\* The schema stays where it is.
DeleteDataset(u) ==
    /\ Is(u, "delete") /\ uses[u].op = "deleteDataset"
    /\ index' = FALSE /\ type' = Unset /\ Forget(DocKeys) /\ shown' = {} /\ deleted' = TRUE
    /\ \E next \in {Waits(u), NoUse} :
        /\ IF next = NoUse THEN Loses ELSE Keeps
        /\ uses' = [v \in Users |-> [Undoes(u, DocKeys, next)[v] EXCEPT !.calm = (v = u)]]
    /\ UNCHANGED <<schemasIndex, schema, gone, used>>
Refused(u) == Is(u, "delete") /\ Loses /\ Ends(u) /\ UNCHANGED <<dataset, used>>

-----------------------------------------------------------------------------
(* writeSchema: the index is made or mapped; then the schema is written as a document. *)
CheckIndex(u) ==
    /\ Is(u, "check") /\ UNCHANGED <<dataset, used>>
    /\ \E there \in BOOLEAN :
        /\ (there = index /\ Keeps) \/ (~there /\ Loses)
        /\ uses' = [uses EXCEPT ![u].pc = "map", ![u].there = there]

\* An index is made once; a field keeps the type it has.
Accepts(u) == IF uses[u].there THEN index /\ type \in {Unset, Mapping(uses[u].field)} ELSE ~index

Map(u) ==
    /\ Is(u, "map") /\ UNCHANGED <<docs, shown, schemasIndex, schema, told, gone, deleted, used>>
    /\ \/ /\ Accepts(u) /\ index' = TRUE /\ type' = Mapping(uses[u].field)
          /\ (Keeps /\ uses' = [uses EXCEPT ![u] = [@ EXCEPT !.pc = "ensure", !.calm = TRUE]]) \/ (Loses /\ Ends(u))
       \/ UNCHANGED <<index, type>> /\ Ends(u) /\ ((~Accepts(u) /\ Keeps) \/ Loses)

\* ensureSchemasIndex: an adapter looks once, and that the index cannot be made is logged.
EnsureSchemas(u) ==
    /\ Is(u, "ensure") /\ UNCHANGED <<dataset, used>>
    /\ (Goes(u, "store") /\ Keeps) \/ (Goes(u, "create") /\ IF schemasIndex THEN Loses ELSE Keeps)
CreateSchemas(u) ==
    /\ Is(u, "create") /\ Goes(u, "store")
    /\ (Keeps /\ schemasIndex' = TRUE) \/ (Loses /\ UNCHANGED schemasIndex)
    /\ UNCHANGED <<index, type, docs, shown, schema, told, gone, deleted, used>>

Store(u) ==
    /\ Is(u, "store") /\ UNCHANGED <<index, type, docs, shown, told, gone, used>>
    /\ \/ /\ schema' = uses[u].field /\ schemasIndex' = TRUE /\ deleted' = ~uses[u].calm
          /\ (Keeps /\ Goes(u, "wait")) \/ (Loses /\ Ends(u))
       \/ Loses /\ Ends(u) /\ UNCHANGED <<schemasIndex, schema, deleted>>

Next ==
    \/ Refresh
    \/ \E u \in Users :
        \/ Begin(u) \/ Read(u) \/ WriteKey(u) \/ Answer(u) \/ DeleteKey(u) \/ ByQuery(u) \/ DeleteDataset(u) \/ Refused(u)
        \/ CheckIndex(u) \/ Map(u) \/ EnsureSchemas(u) \/ CreateSchemas(u) \/ Store(u)

Spec == Init /\ [][Next]_elasticVars

-----------------------------------------------------------------------------
(* Types: an index that is not there has neither documents nor types. *)
TypeOK ==
    /\ ~index => docs = {} /\ shown = {} /\ type = Unset
    /\ docs \subseteq DocKeys /\ told \subseteq docs /\ schema \in Fields \cup {Unset}
    /\ schema # Unset => schemasIndex
    /\ losses \in 0..MaxLosses

(* Searches and listings find a document whose writing has been answered, until it is deleted, and *)
(* none whose deletion has been, until it is written again (writeKey, deleteKey, waitForWrite), by *)
(* an adapter that waits for longer than the server takes: one may be configured not to.           *)
ShownWhenAnswered == told \subseteq shown /\ gone \cap shown = {}

(* The index has the type for the field that the stored schema asks for, unless it has been        *)
(* deleted since: whatever failed half way, and whoever wrote another schema meanwhile.            *)
MappedAsStored == schema # Unset /\ ~deleted => type = Mapping(schema)
=============================================================================
