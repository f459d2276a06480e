---------------------------- MODULE DataService ----------------------------
(***************************************************************************)
(* Requests to a store of records: the data service (services/data.ts),    *)
(* and the dataset service (services/dataset.ts) in its place.  A request  *)
(* reads from the adapter several times before it writes, and others run   *)
(* in between.  Each call of the adapter is one step; a call to read, to   *)
(* write or to delete may fail.  Rules let a user have the records that name him *)
(* in a field (auth/AuthUser.ts); the schema of the dataset may be         *)
(* enforced.                                                               *)
(*                                                                         *)
(* A record has the field rules are about and one more.  There is one key. *)
(***************************************************************************)
EXTENDS Integers, FiniteSets

CONSTANTS
    Users, Admin,   \* Admin has role A, and roles allow A
    Reqs,           \* requests at a time
    MaxReqs,        \* bound on requests
    None

VARIABLES
    config,         \* [service, rules, enforce, filters]: the last is what the adapter can do
    store,          \* the record, or None
    schema,         \* of the dataset: None, "any" or "strict"
    cached,         \* schemaValidatorCache: the schema whose validator it holds
    reqs, begun,
    last            \* the last answer: what was read or written by whom

vars == <<config, store, schema, cached, reqs, begun, last>>

NoOne == "no one"
Records == [own : Users \cup {NoOne}, a : 0..1]
Schemas == {"any", "strict"}
Empty == [own |-> NoOne, a |-> 0]
Changes == [field : {"own"}, to : Users] \cup [field : {"a"}, to : 0..1]

\* "patch" is also a PUT or POST to a fragment; "post" is one without a key.
Reads == {"get", "head"}
Removals == {"delete", "deleteFragment"}
DatasetKinds == {"get", "head", "list", "put", "delete", "schema"}
Kinds == {"get", "head", "list", "deleteDataset", "put", "post", "patch", "delete", "deleteFragment", "schema"}

\* None is neither a schema nor a kind of request.
ASSUME DataServiceConstants == MaxReqs \in Nat /\ None \notin Schemas \cup Kinds

\* calm: nothing has been written since the request has read what it changes; known: the
\* schemas the dataset has had since the request began.
Idle == [pc |-> "idle", kind |-> None, user |-> None, data |-> Empty, change |-> [field |-> "a", to |-> 0],
         schema |-> None, val |-> Empty, calm |-> FALSE, known |-> {}]
NoAnswer == [kind |-> None, user |-> None, status |-> 0, val |-> Empty, known |-> {}]

Init ==
    /\ config \in [service : {"data", "dataset"}, rules : BOOLEAN, enforce : BOOLEAN, filters : BOOLEAN]
    /\ (config.enforce => config.service = "data") /\ (~config.rules => config.filters)
    /\ store \in {None, Empty} /\ schema = None /\ cached = None
    /\ reqs = [r \in Reqs |-> Idle] /\ begun = 0 /\ last = NoAnswer

\* authorizedForDataRecord, a missing field never equals.
Authorised(u, rec) == u = Admin \/ rec.own = u
Allowed(u, rec) == config.rules => Authorised(u, rec)

\* MUTANT: a patch starts from nothing.
PatchedAnew(rec, c) == IF c.field = "own" THEN [Empty EXCEPT !.own = c.to] ELSE [Empty EXCEPT !.a = c.to]

Patched(rec, c) == IF c.field = "own" THEN [rec EXCEPT !.own = c.to] ELSE [rec EXCEPT !.a = c.to]
Without(rec, c) == IF c.field = "own" THEN [rec EXCEPT !.own = NoOne] ELSE [rec EXCEPT !.a = 0]
Valid(s, rec) == s = "strict" => rec.a = 1

Answer(r, status, val) ==
    /\ reqs' = [reqs EXCEPT ![r] = Idle]
    /\ last' = [kind |-> reqs[r].kind, user |-> reqs[r].user, status |-> status, val |-> val, known |-> reqs[r].known]
Goes(r, pc) == reqs' = [reqs EXCEPT ![r].pc = pc] /\ last' = NoAnswer
GoesWith(r, pc, val) ==
    reqs' = [reqs EXCEPT ![r] = [@ EXCEPT !.pc = pc, !.val = val, !.calm = TRUE]] /\ last' = NoAnswer

Is(r, pc) == reqs[r].pc = pc
Store == UNCHANGED <<config, store, schema, cached, begun>>

-----------------------------------------------------------------------------
Begin(r) ==
    /\ Is(r, "idle") /\ begun < MaxReqs /\ begun' = begun + 1
    /\ \E kind \in Kinds, u \in Users, d \in Records, c \in Changes, s \in Schemas :
        /\ config.service = "dataset" => kind \in DatasetKinds
        \* what a kind of request has no use for is fixed
        /\ kind \notin {"put", "post"} => d = Empty
        /\ kind \notin {"patch", "deleteFragment"} => c = Idle.change
        /\ kind # "schema" => s = "any"
        /\ reqs' = [reqs EXCEPT ![r] = [Idle EXCEPT
                !.kind = kind, !.user = u, !.data = d, !.change = c, !.schema = s, !.known = {schema},
                !.pc = IF kind \in {"schema", "list", "deleteDataset"} THEN kind
                       ELSE IF kind \notin Removals THEN "check"
                       ELSE IF config.rules THEN "existing"
                       ELSE IF kind = "delete" THEN "write" ELSE "read"]]
    /\ last' = NoAnswer /\ UNCHANGED <<config, store, schema, cached>>

\* Rules are checked for what is to be stored, and then its schema.
Judge(r, val) ==
    IF ~Allowed(reqs[r].user, val) THEN Answer(r, 403, Empty)
    ELSE GoesWith(r, IF config.enforce THEN "validate" ELSE "write", val)

\* The dataset service has its schema for clients only.
DatasetJudge(r, val) ==
    IF ~Allowed(reqs[r].user, val) THEN Answer(r, 403, Empty) ELSE GoesWith(r, "write", val)

Judged(r, val) == IF config.service = "data" THEN Judge(r, val) ELSE DatasetJudge(r, val)

\* checkKey for a read.
CheckRead(r) ==
    /\ Is(r, "check") /\ reqs[r].kind \in Reads /\ Store
    /\ IF store = None THEN Answer(r, 404, Empty)
       ELSE IF reqs[r].kind = "head" /\ ~config.rules
            THEN Answer(r, IF config.service = "dataset" THEN 500 ELSE 200, Empty)
       ELSE Goes(r, "read")

\* readKey for a read: what may not be seen is not there.
Read(r) ==
    /\ Is(r, "read") /\ reqs[r].kind \in Reads /\ config.service = "data" /\ Store
    /\ \/ IF store = None \/ ~Allowed(reqs[r].user, store) THEN Answer(r, 404, Empty)
          ELSE Answer(r, 200, IF reqs[r].kind = "get" THEN store ELSE Empty)
       \/ Answer(r, 500, Empty)

\* The same; the type of what HEAD does not have cannot be set.
DatasetRead(r) ==
    /\ Is(r, "read") /\ reqs[r].kind \in Reads /\ config.service = "dataset" /\ Store
    /\ \/ IF store = None \/ ~Allowed(reqs[r].user, store) THEN Answer(r, 404, Empty)
          ELSE reqs[r].kind = "get" /\ Answer(r, 200, store)
       \/ Answer(r, 500, Empty)

\* getDirectory: the adapter lists, with rules only what equals the field of the user, whoever
\* that is; one that cannot is not asked.
List(r) ==
    /\ Is(r, "list") /\ config.service = "data" /\ Store
    /\ IF config.rules /\ ~config.filters THEN Answer(r, 501, Empty)
       ELSE IF store = None \/ (config.rules /\ store.own # reqs[r].user) THEN Answer(r, 204, Empty)
       ELSE Answer(r, 200, store)

DatasetList(r) ==
    /\ Is(r, "list") /\ config.service = "dataset" /\ Store
    /\ IF config.rules /\ ~config.filters THEN Answer(r, 501, Empty)
       ELSE IF store = None \/ (config.rules /\ store.own # reqs[r].user) THEN Answer(r, 204, Empty)
       ELSE Answer(r, 200, store)

\* Once a request may change the record: a patch has yet to read it.
May(r) == IF reqs[r].kind = "patch" THEN Goes(r, "read") ELSE Judged(r, reqs[r].data)

\* checkKey for a write; without a key nothing is found.
CheckWrite(r) ==
    /\ Is(r, "check") /\ reqs[r].kind \in {"put", "post", "patch"} /\ Store
    /\ LET found == reqs[r].kind # "post" /\ store # None IN
        IF config.rules /\ found THEN Goes(r, "existing") ELSE May(r)

\* readKey of the record that is to be changed: one that is gone by now is no obstacle, and
\* neither is one that cannot be read, whatever the error.
Existing(r) ==
    /\ Is(r, "existing") /\ reqs[r].kind \notin Removals /\ Store
    /\ May(r) \/ (store # None /\ ~Authorised(reqs[r].user, store) /\ Answer(r, 404, Empty))

ExistingRemoved(r) ==
    /\ Is(r, "existing") /\ reqs[r].kind \in Removals /\ Store
    /\ \/ Goes(r, IF reqs[r].kind = "delete" THEN "write" ELSE "read")
       \/ store # None /\ ~Authorised(reqs[r].user, store) /\ Answer(r, 404, Empty)

\* MUTANT: a patch is checked, then applied.
PatchUnchecked(r) ==
    /\ Is(r, "read") /\ reqs[r].kind = "patch" /\ Store
    /\ IF store = None THEN Goes(r, "recheck")
       ELSE IF ~Allowed(reqs[r].user, store) THEN Answer(r, 403, Empty)
       ELSE GoesWith(r, IF config.enforce THEN "validate" ELSE "write", Patched(store, reqs[r].change))

\* readKey, and patch or setProp.
ReadPatch(r) ==
    /\ Is(r, "read") /\ reqs[r].kind = "patch" /\ Store
    /\ Goes(r, "recheck") \/ (store # None /\ Judge(r, Patched(store, reqs[r].change)))

\* readKey has failed: if nothing is there, nothing is patched.
Recheck(r) ==
    /\ Is(r, "recheck") /\ Store
    /\ IF store # None THEN Answer(r, 404, Empty) ELSE Judge(r, Patched(Empty, reqs[r].change))

\* readKey and deleteProp: what is left is not checked.
ReadFragment(r) ==
    /\ Is(r, "read") /\ reqs[r].kind = "deleteFragment" /\ Store
    /\ Answer(r, 404, Empty) \/ (store # None /\ GoesWith(r, "write", Without(store, reqs[r].change)))

\* MUTANT: the validator of the dataset is kept whatever becomes of its schema.
ValidatorKept == IF cached = None THEN schema ELSE cached

\* getDatasetValidator: what is cached is used if it is of this schema.
Validator == IF cached = schema THEN cached ELSE schema

Validate(r) ==
    /\ Is(r, "validate") /\ UNCHANGED <<config, store, schema, begun>>
    /\ IF schema = None THEN Answer(r, 400, Empty) /\ UNCHANGED cached
       ELSE /\ cached' = Validator
            /\ IF Valid(Validator, reqs[r].val) THEN Goes(r, "write") ELSE Answer(r, 400, Empty)

\* writeKey.  Whoever has read the record has an old one from now on.
Stirred(r) == [q \in Reqs |-> IF q = r THEN Idle ELSE [reqs[q] EXCEPT !.calm = FALSE]]

Write(r) ==
    /\ Is(r, "write") /\ reqs[r].kind # "delete" /\ UNCHANGED <<config, schema, cached, begun>>
    /\ \/ \* without a key the adapter chooses a new one
          /\ IF reqs[r].kind = "post" THEN store' = store /\ reqs' = [reqs EXCEPT ![r] = Idle]
             ELSE store' = reqs[r].val /\ reqs' = Stirred(r)
          /\ last' = [kind |-> reqs[r].kind, user |-> reqs[r].user, status |-> 200,
                      val |-> reqs[r].val, known |-> reqs[r].known]
       \/ \* of a removal any status but 404 and 500 is a success
          /\ UNCHANGED store
          /\ \E status \in {200, 500} :
                (status = 200 => reqs[r].kind = "deleteFragment") /\ Answer(r, status, Empty)

\* deleteKey: the record goes, or it stays; of the adapter's errors only 404 and 500 are told.
Delete(r) ==
    /\ Is(r, "write") /\ reqs[r].kind = "delete" /\ UNCHANGED <<config, schema, cached, begun>>
    /\ \/ /\ store' = None /\ reqs' = Stirred(r)
          /\ last' = [NoAnswer EXCEPT !.status = IF store = None THEN 404 ELSE 200]
       \/ UNCHANGED store /\ \E status \in {200, 500} : Answer(r, status, Empty)

\* The adapter drops the dataset and its schema, or, one that works on files, an empty one.
DeleteDataset(r) ==
    /\ Is(r, "deleteDataset") /\ UNCHANGED <<config, cached, begun>>
    /\ \/ /\ store' = None /\ schema' = None
          /\ reqs' = [q \in Reqs |-> IF reqs[q].pc = "idle" \/ q = r THEN Idle
                                     ELSE [reqs[q] EXCEPT !.calm = FALSE, !.known = @ \cup {None}]]
          /\ last' = [NoAnswer EXCEPT !.status = 200]
       \/ store # None /\ Answer(r, 400, Empty) /\ UNCHANGED <<store, schema>>

\* PUT of a schema: its validator is kept before it is written.
CacheSchema(r) ==
    /\ Is(r, "schema") /\ Goes(r, "writeSchema")
    /\ cached' = IF config.service = "data" /\ config.enforce THEN reqs[r].schema ELSE cached
    /\ UNCHANGED <<config, store, schema, begun>>

WriteSchema(r) ==
    /\ Is(r, "writeSchema") /\ UNCHANGED <<config, store, cached, begun>>
    /\ \/ /\ schema' = reqs[r].schema
          /\ reqs' = [q \in Reqs |-> IF q = r THEN Idle ELSE
                        IF reqs[q].pc = "idle" THEN Idle ELSE [reqs[q] EXCEPT !.known = @ \cup {schema'}]]
          /\ last' = [NoAnswer EXCEPT !.status = 200]
       \/ Answer(r, 500, Empty) /\ UNCHANGED schema

Next == \E r \in Reqs :
    \/ Begin(r) \/ CheckRead(r) \/ Read(r) \/ DatasetRead(r) \/ CheckWrite(r) \/ Existing(r) \/ ExistingRemoved(r)
    \/ ReadPatch(r) \/ Recheck(r) \/ ReadFragment(r) \/ Validate(r) \/ Write(r) \/ Delete(r)
    \/ List(r) \/ DatasetList(r) \/ DeleteDataset(r) \/ CacheSchema(r) \/ WriteSchema(r)

Spec == Init /\ [][Next]_vars

-----------------------------------------------------------------------------
(* Properties *)

TypeOK ==
    /\ store \in Records \cup {None} /\ schema \in Schemas \cup {None} /\ cached \in Schemas \cup {None}
    /\ \A r \in Reqs : reqs[r].val \in Records /\ reqs[r].known \subseteq Schemas \cup {None}
    /\ begun \in 0..MaxReqs

\* Where rules are set, a user is sent and listed records that name him and no others, and whatever he
\* stores names him, however the record changes while the request is under way.
OwnRecords ==
    config.rules /\ last.status = 200 /\ last.kind \in {"get", "list", "put", "post", "patch"} =>
        Authorised(last.user, last.val)

\* Where the schema is enforced, what is put or patched was valid by a schema the dataset had
\* during the request: never by one that was not written, or was there before.
ValidWhenWritten ==
    config.service = "data" /\ config.enforce /\ last.status = 200 /\ last.kind \in {"put", "post", "patch"} =>
        \E s \in last.known \ {None} : Valid(s, last.val)

\* A patch changes what it says and nothing else, unless another write came between its last
\* reading of the record and its own.
PatchKeepsTheRest ==
    [][\A r \in Reqs :
            Is(r, "write") /\ reqs[r].kind = "patch" /\ reqs[r].calm /\ store' # store /\ reqs'[r].pc = "idle"
                => LET was == IF store = None THEN Empty ELSE store IN
                   IF reqs[r].change.field = "own" THEN store' = [own |-> reqs[r].change.to, a |-> was.a]
                   ELSE store' = [own |-> was.own, a |-> reqs[r].change.to]]_vars
=============================================================================
