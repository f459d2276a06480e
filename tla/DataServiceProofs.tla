-------------------------- MODULE DataServiceProofs --------------------------
(***************************************************************************)
(* Proofs about DataService: its type, its safety properties, and what a   *)
(* patch leaves alone, for any users and any overlapping requests.         *)
(*                                                                         *)
(* What a request has read may be old by the time it writes, so that what  *)
(* it is about to write has to carry what was checked of it (Req): that    *)
(* the user may store it, that a schema of the request's own time accepts  *)
(* it and, while nothing else was written, what it is a patch of.          *)
(***************************************************************************)
EXTENDS DataService, TLAPS

Pcs == {"idle", "check", "existing", "read", "recheck", "validate", "write",
        "list", "deleteDataset", "schema", "writeSchema"}
Stores == {"put", "post", "patch"}

\* What there is to patch.
Was(st) == IF st = None THEN Empty ELSE st

\* A request e, under the configuration cf, when the record is st and the schema sc.
Req(e, cf, st, sc) ==
    /\ e \in [pc : Pcs, kind : Kinds \cup {None}, user : Users \cup {None}, data : Records, change : Changes,
              schema : Schemas \cup {None}, val : Records, calm : BOOLEAN, known : SUBSET (Schemas \cup {None})]
    /\ e.pc # "idle" => sc \in e.known
    /\ e.pc \in {"existing", "write"} => e.kind \in Stores \cup Removals
    /\ e.pc = "recheck" => e.kind = "patch"
    /\ e.pc = "list" => e.kind = "list"
    /\ e.pc = "validate" => e.kind \in Stores
    /\ e.pc \in {"schema", "writeSchema"} => e.schema \in Schemas
    /\ e.pc \in {"validate", "write"} /\ e.kind \in Stores /\ cf.rules => Authorised(e.user, e.val)
    /\ e.pc = "write" /\ e.kind \in Stores /\ cf.service = "data" /\ cf.enforce =>
         \E s \in e.known \ {None} : Valid(s, e.val)
    /\ e.pc \in {"validate", "write"} /\ e.kind = "patch" /\ e.calm => e.val = Patched(Was(st), e.change)

ReqsInv ==
    /\ reqs = [r \in Reqs |-> reqs[r]]
    /\ \A r \in Reqs : Req(reqs[r], config, store, schema)

StoreInv ==
    /\ store \in Records \cup {None} /\ schema \in Schemas \cup {None} /\ cached \in Schemas \cup {None}
    /\ begun \in 0..MaxReqs

IInv == StoreInv /\ ReqsInv /\ OwnRecords /\ ValidWhenWritten
-----------------------------------------------------------------------------
(* Records and requests *)

LEMMA EmptyIsRecord == Empty \in Records
  BY DEF Empty, Records

LEMMA PatchedIsRecord ==
    ASSUME NEW rec \in Records, NEW c \in Changes
    PROVE  Patched(rec, c) \in Records /\ Without(rec, c) \in Records
  BY DEF Records, Changes, Patched, Without

\* A patch is of the one field it names.
LEMMA PatchedOneField ==
    ASSUME NEW rec \in Records, NEW c \in Changes
    PROVE  Patched(rec, c) = IF c.field = "own" THEN [own |-> c.to, a |-> rec.a] ELSE [own |-> rec.own, a |-> c.to]
  BY DEF Records, Changes, Patched

LEMMA IdleIsReq ==
    ASSUME NEW cf, NEW st, NEW sc
    PROVE  Req(Idle, cf, st, sc)
  <1>1. Idle.change \in Changes
    BY DEF Idle, Changes
  <1>2. QED
    BY <1>1, EmptyIsRecord, DataServiceConstants DEF Idle, Req, Pcs

\* A request goes on, with nothing new read.
LEMMA MovedIsReq ==
    ASSUME NEW e, NEW cf, NEW st, NEW sc, Req(e, cf, st, sc), e.pc # "idle", NEW pc \in Pcs,
           pc \notin {"validate", "schema", "list"},
           pc \in {"existing", "write"} => e.kind \in Stores \cup Removals,
           pc = "recheck" => e.kind = "patch",
           pc = "writeSchema" => e.schema \in Schemas,
           pc = "write" /\ e.kind \in Stores =>
               e.pc = "validate" /\ \E s \in e.known \ {None} : Valid(s, e.val)
    PROVE  Req([e EXCEPT !.pc = pc], cf, st, sc)
  <1> DEFINE f == [e EXCEPT !.pc = pc]
  <1>1. /\ f \in [pc : Pcs, kind : Kinds \cup {None}, user : Users \cup {None}, data : Records, change : Changes,
                   schema : Schemas \cup {None}, val : Records, calm : BOOLEAN, known : SUBSET (Schemas \cup {None})]
        /\ f.pc = pc /\ f.kind = e.kind /\ f.user = e.user /\ f.schema = e.schema /\ f.val = e.val
        /\ f.calm = e.calm /\ f.known = e.known /\ f.change = e.change
    BY DEF Req
  <1> HIDE DEF f
  <1>2. e.pc = "validate" /\ e.kind \in Stores =>
          /\ cf.rules => Authorised(e.user, e.val)
          /\ e.kind = "patch" /\ e.calm => e.val = Patched(Was(st), e.change)
    BY DEF Req
  <1>3. "patch" \in Stores
    BY DEF Stores
  <1>4. sc \in e.known
    BY DEF Req
  <1>5. /\ f.pc \in {"validate", "write"} /\ f.kind \in Stores /\ cf.rules => Authorised(f.user, f.val)
        /\ f.pc = "write" /\ f.kind \in Stores => \E s \in f.known \ {None} : Valid(s, f.val)
        /\ f.pc \in {"validate", "write"} /\ f.kind = "patch" /\ f.calm => f.val = Patched(Was(st), f.change)
    BY <1>1, <1>2, <1>3
  <1>6. Req(f, cf, st, sc)
    BY <1>1, <1>4, <1>5 DEF Req
  <1>7. QED
    BY <1>6 DEF f

\* A request goes on, with what it is to write: that was allowed, and is what it read, patched.
LEMMA MovedWithIsReq ==
    ASSUME NEW e, NEW cf, NEW st, NEW sc, Req(e, cf, st, sc), e.pc # "idle", NEW pc \in {"validate", "write"},
           NEW val \in Records,
           pc = "validate" => e.kind \in Stores, pc = "write" => e.kind \in Stores \cup Removals,
           e.kind \in Stores /\ cf.rules => Authorised(e.user, val),
           pc = "write" /\ e.kind \in Stores /\ cf.service = "data" => ~cf.enforce,
           e.kind = "patch" => val = Patched(Was(st), e.change)
    PROVE  Req([e EXCEPT !.pc = pc, !.val = val, !.calm = TRUE], cf, st, sc)
  <1> DEFINE f == [e EXCEPT !.pc = pc, !.val = val, !.calm = TRUE]
  <1>1. /\ f \in [pc : Pcs, kind : Kinds \cup {None}, user : Users \cup {None}, data : Records, change : Changes,
                   schema : Schemas \cup {None}, val : Records, calm : BOOLEAN, known : SUBSET (Schemas \cup {None})]
        /\ f.pc = pc /\ f.kind = e.kind /\ f.user = e.user /\ f.schema = e.schema /\ f.val = val
        /\ f.known = e.known /\ f.change = e.change
    BY DEF Req, Pcs
  <1> HIDE DEF f
  <1>2. Req(f, cf, st, sc)
    BY <1>1 DEF Req
  <1>3. QED
    BY <1>2 DEF f

\* Others write: what was read is old, and the schema that is written joins those known.
LEMMA StirredIsReq ==
    ASSUME NEW e, NEW cf, NEW st, NEW sc, Req(e, cf, st, sc), NEW st2
    PROVE  Req([e EXCEPT !.calm = FALSE], cf, st2, sc)
  <1> DEFINE f == [e EXCEPT !.calm = FALSE]
  <1>1. /\ f \in [pc : Pcs, kind : Kinds \cup {None}, user : Users \cup {None}, data : Records, change : Changes,
                   schema : Schemas \cup {None}, val : Records, calm : BOOLEAN, known : SUBSET (Schemas \cup {None})]
        /\ f.pc = e.pc /\ f.kind = e.kind /\ f.user = e.user /\ f.schema = e.schema /\ f.val = e.val
        /\ f.calm = FALSE /\ f.known = e.known /\ f.change = e.change
    BY DEF Req
  <1> HIDE DEF f
  <1>2. Req(f, cf, st2, sc)
    BY <1>1 DEF Req
  <1>3. QED
    BY <1>2 DEF f

LEMMA ToldIsReq ==
    ASSUME NEW e, NEW cf, NEW st, NEW sc, Req(e, cf, st, sc), NEW sc2 \in Schemas \cup {None}
    PROVE  Req([e EXCEPT !.known = @ \cup {sc2}], cf, st, sc2)
  <1> DEFINE f == [e EXCEPT !.known = e.known \cup {sc2}]
  <1>1. /\ f \in [pc : Pcs, kind : Kinds \cup {None}, user : Users \cup {None}, data : Records, change : Changes,
                   schema : Schemas \cup {None}, val : Records, calm : BOOLEAN, known : SUBSET (Schemas \cup {None})]
        /\ f.pc = e.pc /\ f.kind = e.kind /\ f.user = e.user /\ f.schema = e.schema /\ f.val = e.val
        /\ f.calm = e.calm /\ f.known = e.known \cup {sc2} /\ f.change = e.change
    BY DEF Req
  <1> HIDE DEF f
  <1>2. Req(f, cf, st, sc2)
    BY <1>1 DEF Req
  <1>3. QED
    BY <1>2 DEF f

LEMMA GoneIsReq ==
    ASSUME NEW e, NEW cf, NEW st, NEW sc, Req(e, cf, st, sc), NEW st2
    PROVE  Req([e EXCEPT !.calm = FALSE, !.known = @ \cup {None}], cf, st2, None)
  <1> DEFINE f == [e EXCEPT !.calm = FALSE, !.known = e.known \cup {None}]
  <1>1. /\ f \in [pc : Pcs, kind : Kinds \cup {None}, user : Users \cup {None}, data : Records, change : Changes,
                   schema : Schemas \cup {None}, val : Records, calm : BOOLEAN, known : SUBSET (Schemas \cup {None})]
        /\ f.pc = e.pc /\ f.kind = e.kind /\ f.user = e.user /\ f.schema = e.schema /\ f.val = e.val
        /\ f.calm = FALSE /\ f.known = e.known \cup {None} /\ f.change = e.change
    BY DEF Req
  <1> HIDE DEF f
  <1>2. Req(f, cf, st2, None)
    BY <1>1 DEF Req
  <1>3. QED
    BY <1>2 DEF f

-----------------------------------------------------------------------------
(* What the steps have in common *)

\* One request changes, and the store does not.
LEMMA OneMoves ==
    ASSUME ReqsInv, NEW r \in Reqs, NEW e, reqs' = [reqs EXCEPT ![r] = e], UNCHANGED <<config, store, schema>>,
           Req(e, config, store, schema)
    PROVE  ReqsInv'
  BY DEF ReqsInv

LEMMA TypeOfReq ==
    ASSUME ReqsInv, NEW r \in Reqs
    PROVE  Req(reqs[r], config, store, schema)
  BY DEF ReqsInv

\* No answer is given, or one that says nothing of a record.
LEMMA NothingToSay ==
    ASSUME UNCHANGED config, last'.status # 200 \/ last'.kind \notin {"get", "list"} \cup Stores
    PROVE  OwnRecords' /\ ValidWhenWritten'
  BY DEF OwnRecords, ValidWhenWritten, Stores

\* A record is sent to, or listed for, a user who may have it.
LEMMA RecordSent ==
    ASSUME UNCHANGED config, last'.kind \in {"get", "list"}, config.rules => Authorised(last'.user, last'.val)
    PROVE  OwnRecords' /\ ValidWhenWritten'
  BY DEF OwnRecords, ValidWhenWritten

LEMMA UnansweredSays ==
    ASSUME UNCHANGED config, last' = NoAnswer
    PROVE  OwnRecords' /\ ValidWhenWritten'
  <1>1. last'.status # 200
    BY DEF NoAnswer
  <1>2. QED
    BY <1>1, NothingToSay

\* A request that is answered with no record is over.
LEMMA AnswerKeeps ==
    ASSUME IInv, NEW r \in Reqs, NEW status, NEW val, Store, Answer(r, status, val),
           status # 200 \/ reqs[r].kind \notin {"get", "list"} \cup Stores
    PROVE  IInv'
  <1>1. last'.status = status /\ last'.kind = reqs[r].kind
    BY DEF Answer
  <1>2. OwnRecords' /\ ValidWhenWritten'
    BY <1>1, NothingToSay DEF Store
  <1>3. ReqsInv'
    BY IdleIsReq, OneMoves DEF IInv, Answer, Store
  <1>4. QED
    BY <1>2, <1>3 DEF IInv, StoreInv, Store

\* One that is answered with a record its user may have.
LEMMA SendKeeps ==
    ASSUME IInv, NEW r \in Reqs, NEW val, Store, Answer(r, 200, val), reqs[r].kind \in {"get", "list"},
           config.rules => Authorised(reqs[r].user, val)
    PROVE  IInv'
  <1>1. last'.user = reqs[r].user /\ last'.val = val /\ last'.kind = reqs[r].kind
    BY DEF Answer
  <1>2. OwnRecords' /\ ValidWhenWritten'
    BY <1>1, RecordSent DEF Store
  <1>3. ReqsInv'
    BY IdleIsReq, OneMoves DEF IInv, Answer, Store
  <1>4. QED
    BY <1>2, <1>3 DEF IInv, StoreInv, Store

LEMMA GoesKeeps ==
    ASSUME IInv, NEW r \in Reqs, NEW pc \in {"existing", "read", "recheck", "write"}, Store, Goes(r, pc),
           ~Is(r, "idle"),
           pc \in {"existing", "write"} => reqs[r].kind \in Stores \cup Removals,
           pc = "recheck" => reqs[r].kind = "patch",
           pc = "write" => reqs[r].kind \notin Stores
    PROVE  IInv'
  <1>1. Req(reqs[r], config, store, schema)
    BY TypeOfReq DEF IInv
  <1>2. pc \in Pcs /\ pc \notin {"validate", "schema", "list", "writeSchema"}
    BY DEF Pcs
  <1>3. Req([reqs[r] EXCEPT !.pc = pc], config, store, schema)
    BY <1>1, <1>2, MovedIsReq DEF Is
  <1>4. reqs' = [reqs EXCEPT ![r] = [reqs[r] EXCEPT !.pc = pc]] /\ last' = NoAnswer
    BY DEF Goes
  <1>5. ReqsInv'
    BY <1>3, <1>4, OneMoves DEF IInv, Store
  <1>6. OwnRecords' /\ ValidWhenWritten'
    BY <1>4, UnansweredSays DEF Store
  <1>7. QED
    BY <1>5, <1>6 DEF IInv, StoreInv, Store

LEMMA GoesWithKeeps ==
    ASSUME IInv, NEW r \in Reqs, NEW pc \in {"validate", "write"}, NEW val \in Records, Store, GoesWith(r, pc, val),
           ~Is(r, "idle"),
           pc = "validate" => reqs[r].kind \in Stores, pc = "write" => reqs[r].kind \in Stores \cup Removals,
           reqs[r].kind \in Stores /\ config.rules => Authorised(reqs[r].user, val),
           pc = "write" /\ reqs[r].kind \in Stores /\ config.service = "data" => ~config.enforce,
           reqs[r].kind = "patch" => val = Patched(Was(store), reqs[r].change)
    PROVE  IInv'
  <1>1. Req(reqs[r], config, store, schema)
    BY TypeOfReq DEF IInv
  <1>2. Req([reqs[r] EXCEPT !.pc = pc, !.val = val, !.calm = TRUE], config, store, schema)
    BY <1>1, MovedWithIsReq DEF Is
  <1>3. reqs' = [reqs EXCEPT ![r] = [reqs[r] EXCEPT !.pc = pc, !.val = val, !.calm = TRUE]] /\ last' = NoAnswer
    BY DEF GoesWith
  <1>4. ReqsInv'
    BY <1>2, <1>3, OneMoves DEF IInv, Store
  <1>5. OwnRecords' /\ ValidWhenWritten'
    BY <1>3, UnansweredSays DEF Store
  <1>6. QED
    BY <1>4, <1>5 DEF IInv, StoreInv, Store
-----------------------------------------------------------------------------
(* The steps *)

LEMMA BeginKeeps ==
    ASSUME IInv, NEW r \in Reqs, Begin(r)
    PROVE  IInv'
  <1>1. PICK kind \in Kinds, u \in Users, d \in Records, c \in Changes, s \in Schemas :
            /\ config.service = "dataset" => kind \in DatasetKinds
            /\ kind \notin {"put", "post"} => d = Empty
            /\ kind \notin {"patch", "deleteFragment"} => c = Idle.change
            /\ kind # "schema" => s = "any"
            /\ reqs' = [reqs EXCEPT ![r] = [Idle EXCEPT
                !.kind = kind, !.user = u, !.data = d, !.change = c, !.schema = s, !.known = {schema},
                !.pc = IF kind \in {"schema", "list", "deleteDataset"} THEN kind
                       ELSE IF kind \notin Removals THEN "check"
                       ELSE IF config.rules THEN "existing"
                       ELSE IF kind = "delete" THEN "write" ELSE "read"]]
    BY DEF Begin
  <1> DEFINE pc == IF kind \in {"schema", "list", "deleteDataset"} THEN kind
                   ELSE IF kind \notin Removals THEN "check"
                   ELSE IF config.rules THEN "existing"
                   ELSE IF kind = "delete" THEN "write" ELSE "read"
             e == [Idle EXCEPT !.kind = kind, !.user = u, !.data = d, !.change = c, !.schema = s,
                               !.known = {schema}, !.pc = pc]
  <1>2. /\ pc \in Pcs /\ pc \notin {"idle", "recheck", "validate"}
        /\ pc \in {"existing", "write"} => kind \in Removals
        /\ pc = "list" => kind = "list"
    BY DEF Pcs, Removals
  <1> HIDE DEF pc
  <1>3. Idle \in [pc : Pcs, kind : Kinds \cup {None}, user : Users \cup {None}, data : Records, change : Changes,
                  schema : Schemas \cup {None}, val : Records, calm : BOOLEAN, known : SUBSET (Schemas \cup {None})]
    BY IdleIsReq DEF Req
  <1>4. schema \in Schemas \cup {None}
    BY DEF IInv, StoreInv
  <1>5. /\ e \in [pc : Pcs, kind : Kinds \cup {None}, user : Users \cup {None}, data : Records, change : Changes,
                   schema : Schemas \cup {None}, val : Records, calm : BOOLEAN, known : SUBSET (Schemas \cup {None})]
        /\ e.pc = pc /\ e.kind = kind /\ e.schema = s /\ e.known = {schema}
    BY <1>2, <1>3, <1>4
  <1>6. \A k \in Removals : k \notin Stores
    BY DEF Removals, Stores
  <1> HIDE DEF e
  <1>7. Req(e, config, store, schema)
    <2>1. "patch" \in Stores
      BY DEF Stores
    <2>2. QED
      BY <1>2, <1>5, <1>6, <2>1 DEF Req
  <1>8. reqs' = [reqs EXCEPT ![r] = e]
    BY <1>1 DEF e, pc
  <1>9. UNCHANGED <<config, store, schema, cached>> /\ last' = NoAnswer /\ begun < MaxReqs /\ begun' = begun + 1
    BY DEF Begin
  <1>10. ReqsInv'
    BY <1>7, <1>8, <1>9, OneMoves DEF IInv
  <1>11. begun' \in 0..MaxReqs
    BY <1>9, DataServiceConstants DEF IInv, StoreInv
  <1>12. OwnRecords' /\ ValidWhenWritten'
    BY <1>9, UnansweredSays
  <1>13. QED
    BY <1>9, <1>10, <1>11, <1>12 DEF IInv, StoreInv

\* Rules are checked for what is to be stored.
LEMMA JudgeKeeps ==
    ASSUME IInv, NEW r \in Reqs, NEW val \in Records, Store, Judge(r, val), ~Is(r, "idle"), reqs[r].kind \in Stores,
           reqs[r].kind = "patch" => val = Patched(Was(store), reqs[r].change)
    PROVE  IInv'
  <1>1. CASE ~Allowed(reqs[r].user, val)
    BY <1>1, AnswerKeeps DEF Judge
  <1>2. CASE Allowed(reqs[r].user, val)
    <2> DEFINE pc == IF config.enforce THEN "validate" ELSE "write"
    <2>1. pc \in {"validate", "write"} /\ (pc = "write" => ~config.enforce)
      OBVIOUS
    <2>2. config.rules => Authorised(reqs[r].user, val)
      BY <1>2 DEF Allowed
    <2>3. GoesWith(r, pc, val)
      BY <1>2 DEF Judge
    <2> HIDE DEF pc
    <2>4. QED
      BY <2>1, <2>2, <2>3, GoesWithKeeps
  <1>3. QED
    BY <1>1, <1>2

LEMMA JudgedKeeps ==
    ASSUME IInv, NEW r \in Reqs, Store, Judged(r, reqs[r].data), ~Is(r, "idle"), reqs[r].kind \in Stores \ {"patch"}
    PROVE  IInv'
  <1>1. reqs[r].data \in Records
    BY TypeOfReq DEF IInv, Req
  <1>2. CASE config.service = "data"
    BY <1>1, <1>2, JudgeKeeps DEF Judged
  <1>3. CASE config.service # "data"
    <2>1. DatasetJudge(r, reqs[r].data)
      BY <1>3 DEF Judged
    <2>2. CASE ~Allowed(reqs[r].user, reqs[r].data)
      BY <2>1, <2>2, AnswerKeeps DEF DatasetJudge
    <2>3. CASE Allowed(reqs[r].user, reqs[r].data)
      <3>1. GoesWith(r, "write", reqs[r].data)
        BY <2>1, <2>3 DEF DatasetJudge
      <3>2. config.rules => Authorised(reqs[r].user, reqs[r].data)
        BY <2>3 DEF Allowed
      <3>3. QED
        BY <1>1, <1>3, <3>1, <3>2, GoesWithKeeps
    <2>4. QED
      BY <2>2, <2>3
  <1>4. QED
    BY <1>2, <1>3

LEMMA MayKeeps ==
    ASSUME IInv, NEW r \in Reqs, Store, May(r), ~Is(r, "idle"), reqs[r].kind \in Stores
    PROVE  IInv'
  <1>1. CASE reqs[r].kind = "patch"
    BY <1>1, GoesKeeps DEF May
  <1>2. CASE reqs[r].kind # "patch"
    BY <1>2, JudgedKeeps DEF May
  <1>3. QED
    BY <1>1, <1>2

LEMMA ReadsKeep ==
    ASSUME IInv, NEW r \in Reqs, CheckRead(r) \/ Read(r) \/ DatasetRead(r) \/ List(r) \/ DatasetList(r)
    PROVE  IInv'
  <1>1. CASE CheckRead(r)
    <2>1. ~Is(r, "idle") /\ Store /\ reqs[r].kind \in Reads
      BY <1>1 DEF CheckRead, Is
    <2>2. CASE Goes(r, "read")
      BY <2>1, <2>2, GoesKeeps
    <2>3. CASE Answer(r, 404, Empty)
      BY <2>1, <2>3, AnswerKeeps
    <2>4. CASE reqs[r].kind = "head" /\ Answer(r, IF config.service = "dataset" THEN 500 ELSE 200, Empty)
      BY <2>1, <2>4, AnswerKeeps DEF Stores
    <2>5. QED
      BY <1>1, <2>2, <2>3, <2>4 DEF CheckRead
  <1>2. CASE Read(r)
    <2>1. Store /\ reqs[r].kind \in Reads
      BY <1>2 DEF Read
    <2>2. CASE Answer(r, 404, Empty)
      BY <2>1, <2>2, AnswerKeeps
    <2>3. CASE reqs[r].kind = "get" /\ Allowed(reqs[r].user, store) /\ Answer(r, 200, store)
      BY <2>1, <2>3, SendKeeps DEF Allowed
    <2>4. CASE reqs[r].kind # "get" /\ Answer(r, 200, Empty)
      <3>1. reqs[r].kind \notin {"get", "list"} \cup Stores
        BY <2>1, <2>4 DEF Reads, Stores
      <3>2. QED
        BY <2>1, <2>4, <3>1, AnswerKeeps
    <2>5. CASE Answer(r, 500, Empty)
      BY <2>1, <2>5, AnswerKeeps
    <2>6. QED
      BY <1>2, <2>2, <2>3, <2>4, <2>5 DEF Read
  <1>3. CASE DatasetRead(r)
    <2>1. Store /\ reqs[r].kind \in Reads
      BY <1>3 DEF DatasetRead
    <2>2. CASE Answer(r, 404, Empty)
      BY <2>1, <2>2, AnswerKeeps
    <2>3. CASE reqs[r].kind = "get" /\ Allowed(reqs[r].user, store) /\ Answer(r, 200, store)
      BY <2>1, <2>3, SendKeeps DEF Allowed
    <2>4. CASE Answer(r, 500, Empty)
      BY <2>1, <2>4, AnswerKeeps
    <2>5. QED
      BY <1>3, <2>2, <2>3, <2>4 DEF DatasetRead
  <1>4. CASE List(r) \/ DatasetList(r)
    <2>1. Store
      BY <1>4 DEF List, DatasetList
    <2>2. CASE Answer(r, 501, Empty)
      BY <2>1, <2>2, AnswerKeeps
    <2>3. CASE Answer(r, 204, Empty)
      BY <2>1, <2>3, AnswerKeeps
    <2>4. CASE (config.rules => store.own = reqs[r].user) /\ Answer(r, 200, store)
      <3>1. reqs[r].pc = "list"
        BY <1>4 DEF List, DatasetList, Is
      <3>2. reqs[r].kind = "list"
        BY <3>1, TypeOfReq DEF IInv, Req
      <3>3. QED
        BY <2>1, <2>4, <3>2, SendKeeps DEF Authorised
    <2>5. QED
      BY <1>4, <2>2, <2>3, <2>4 DEF List, DatasetList
  <1>5. QED
    BY <1>1, <1>2, <1>3, <1>4

LEMMA CheckWriteKeeps ==
    ASSUME IInv, NEW r \in Reqs, CheckWrite(r)
    PROVE  IInv'
  <1>1. ~Is(r, "idle") /\ Store /\ reqs[r].kind \in Stores
    BY DEF CheckWrite, Is, Stores
  <1>2. Goes(r, "existing") \/ May(r)
    BY DEF CheckWrite
  <1>3. QED
    BY <1>1, <1>2, GoesKeeps, MayKeeps

LEMMA ExistingKeeps ==
    ASSUME IInv, NEW r \in Reqs, Existing(r) \/ ExistingRemoved(r)
    PROVE  IInv'
  <1>1. ~Is(r, "idle") /\ Store /\ reqs[r].pc = "existing"
    BY DEF Existing, ExistingRemoved, Is
  <1>2. CASE Answer(r, 404, Empty)
    BY <1>1, <1>2, AnswerKeeps
  <1>3. CASE May(r) /\ reqs[r].kind \notin Removals
    <2>1. reqs[r].kind \in Stores
      BY <1>1, <1>3, TypeOfReq DEF IInv, Req
    <2>2. QED
      BY <1>1, <1>3, <2>1, MayKeeps
  <1>4. CASE reqs[r].kind \in Removals /\ Goes(r, IF reqs[r].kind = "delete" THEN "write" ELSE "read")
    <2>1. reqs[r].kind \notin Stores
      BY <1>4 DEF Removals, Stores
    <2>2. QED
      BY <1>1, <1>4, <2>1, GoesKeeps
  <1>5. QED
    BY <1>2, <1>3, <1>4 DEF Existing, ExistingRemoved

\* What is patched is the record as it is now, or nothing.
LEMMA PatchKeeps ==
    ASSUME IInv, NEW r \in Reqs, ReadPatch(r) \/ Recheck(r)
    PROVE  IInv'
  <1>1. ~Is(r, "idle") /\ Store
    BY DEF ReadPatch, Recheck, Is
  <1>2. reqs[r].kind = "patch"
    BY TypeOfReq DEF IInv, Req, ReadPatch, Recheck, Is
  <1>3. CASE Answer(r, 404, Empty)
    BY <1>1, <1>3, AnswerKeeps
  <1>4. CASE Goes(r, "recheck")
    BY <1>1, <1>2, <1>4, GoesKeeps
  <1>5. CASE Judge(r, Patched(Was(store), reqs[r].change))
    <2>1. Was(store) \in Records /\ reqs[r].change \in Changes
      BY EmptyIsRecord, TypeOfReq DEF IInv, StoreInv, Req, Was
    <2>2. Patched(Was(store), reqs[r].change) \in Records
      BY <2>1, PatchedIsRecord
    <2>3. QED
      BY <1>1, <1>2, <1>5, <2>2, JudgeKeeps DEF Stores
  <1>6. QED
    BY <1>3, <1>4, <1>5 DEF ReadPatch, Recheck, Was

LEMMA ReadFragmentKeeps ==
    ASSUME IInv, NEW r \in Reqs, ReadFragment(r)
    PROVE  IInv'
  <1>1. ~Is(r, "idle") /\ Store /\ reqs[r].kind = "deleteFragment"
    BY DEF ReadFragment, Is
  <1>2. CASE Answer(r, 404, Empty)
    BY <1>1, <1>2, AnswerKeeps
  <1>3. CASE store # None /\ GoesWith(r, "write", Without(store, reqs[r].change))
    <2>1. Without(store, reqs[r].change) \in Records
      BY <1>3, PatchedIsRecord, TypeOfReq DEF IInv, StoreInv, Req
    <2>2. reqs[r].kind \notin Stores /\ reqs[r].kind \in Removals /\ reqs[r].kind # "patch"
      BY <1>1 DEF Stores, Removals
    <2>3. QED
      BY <1>1, <1>3, <2>1, <2>2, GoesWithKeeps
  <1>4. QED
    BY <1>2, <1>3 DEF ReadFragment

\* What is validated is valid by the schema there is now, which the request knows.
LEMMA ValidateKeeps ==
    ASSUME IInv, NEW r \in Reqs, Validate(r)
    PROVE  IInv'
  <1>1. Req(reqs[r], config, store, schema)
    BY TypeOfReq DEF IInv
  <1>2. reqs[r].pc = "validate" /\ UNCHANGED <<config, store, schema, begun>> /\ reqs[r].kind \in Stores
    BY <1>1 DEF Validate, Is, Req
  <1>3. CASE Answer(r, 400, Empty)
    <2>1. cached' \in Schemas \cup {None}
      BY DEF Validate, Validator, IInv, StoreInv
    <2>2. last'.status = 400
      BY <1>3 DEF Answer
    <2>3. OwnRecords' /\ ValidWhenWritten'
      BY <1>2, <2>2, NothingToSay
    <2>4. ReqsInv'
      BY <1>2, <1>3, IdleIsReq, OneMoves DEF IInv, Answer
    <2>5. QED
      BY <1>2, <2>1, <2>3, <2>4 DEF IInv, StoreInv
  <1>4. CASE schema # None /\ Valid(Validator, reqs[r].val) /\ Goes(r, "write")
    <2>1. cached' \in Schemas \cup {None}
      BY DEF Validate, Validator, IInv, StoreInv
    <2>2. schema \in reqs[r].known \ {None} /\ Valid(schema, reqs[r].val)
      BY <1>1, <1>2, <1>4 DEF Req, Validator
    <2>3. "write" \in Pcs
      BY DEF Pcs
    <2>4. Req([reqs[r] EXCEPT !.pc = "write"], config, store, schema)
      BY <1>1, <1>2, <2>2, <2>3, MovedIsReq
    <2>5. reqs' = [reqs EXCEPT ![r] = [reqs[r] EXCEPT !.pc = "write"]] /\ last' = NoAnswer
      BY <1>4 DEF Goes
    <2>6. ReqsInv'
      BY <1>2, <2>4, <2>5, OneMoves DEF IInv
    <2>7. OwnRecords' /\ ValidWhenWritten'
      BY <1>2, <2>5, UnansweredSays
    <2>8. QED
      BY <1>2, <2>1, <2>6, <2>7 DEF IInv, StoreInv
  <1>5. QED
    BY <1>3, <1>4 DEF Validate

\* Whoever writes stirs up the others.
LEMMA StirredKeeps ==
    ASSUME ReqsInv, NEW r \in Reqs, reqs' = Stirred(r), UNCHANGED <<config, schema>>
    PROVE  ReqsInv'
  <1>1. ASSUME NEW q \in Reqs
        PROVE  Req(reqs'[q], config, store', schema)
    <2>1. CASE q = r
      BY <2>1, IdleIsReq DEF Stirred
    <2>2. CASE q # r
      BY <2>2, StirredIsReq, TypeOfReq DEF Stirred
    <2>3. QED
      BY <2>1, <2>2
  <1>2. QED
    BY <1>1 DEF ReqsInv, Stirred

\* What is written is what was checked.
LEMMA WriteKeeps ==
    ASSUME IInv, NEW r \in Reqs, Write(r)
    PROVE  IInv'
  <1>1. Req(reqs[r], config, store, schema)
    BY TypeOfReq DEF IInv
  <1>2. reqs[r].pc = "write" /\ UNCHANGED <<config, schema, cached, begun>> /\ reqs[r].kind \in Stores \cup Removals
    BY <1>1 DEF Write, Is, Req
  <1>3. CASE UNCHANGED store /\ \E status \in {200, 500} :
                (status = 200 => reqs[r].kind = "deleteFragment") /\ Answer(r, status, Empty)
    <2>1. Store
      BY <1>2, <1>3 DEF Store
    <2>2. CASE Answer(r, 500, Empty)
      BY <2>1, <2>2, AnswerKeeps
    <2>3. CASE reqs[r].kind = "deleteFragment" /\ Answer(r, 200, Empty)
      BY <2>1, <2>3, AnswerKeeps DEF Stores
    <2>4. QED
      BY <1>3, <2>2, <2>3
  <1>4. CASE /\ IF reqs[r].kind = "post" THEN store' = store /\ reqs' = [reqs EXCEPT ![r] = Idle]
                 ELSE store' = reqs[r].val /\ reqs' = Stirred(r)
             /\ last' = [kind |-> reqs[r].kind, user |-> reqs[r].user, status |-> 200,
                         val |-> reqs[r].val, known |-> reqs[r].known]
    <2>1. ReqsInv'
      BY <1>2, <1>4, IdleIsReq, OneMoves, StirredKeeps DEF IInv
    <2>2. store' \in Records \cup {None}
      BY <1>1, <1>4 DEF IInv, StoreInv, Req
    <2>3. OwnRecords'
      <3>1. last'.kind \in Stores => (config.rules => Authorised(last'.user, last'.val))
        BY <1>1, <1>2, <1>4 DEF Req
      <3>2. last'.kind \in Stores \cup Removals
        BY <1>2, <1>4
      <3>3. QED
        BY <1>2, <3>1, <3>2 DEF OwnRecords, Removals
    <2>4. ValidWhenWritten'
      <3>1. last'.kind \in Stores /\ config.service = "data" /\ config.enforce =>
                \E s \in last'.known \ {None} : Valid(s, last'.val)
        BY <1>1, <1>2, <1>4 DEF Req
      <3>2. QED
        BY <1>2, <3>1 DEF ValidWhenWritten, Stores
    <2>5. QED
      BY <1>2, <2>1, <2>2, <2>3, <2>4 DEF IInv, StoreInv
  <1>5. QED
    BY <1>3, <1>4 DEF Write

LEMMA DeleteKeeps ==
    ASSUME IInv, NEW r \in Reqs, Delete(r)
    PROVE  IInv'
  <1>1. UNCHANGED <<config, schema, cached, begun>> /\ reqs[r].kind = "delete"
    BY DEF Delete
  <1>2. CASE store' = None /\ reqs' = Stirred(r) /\ last' = [NoAnswer EXCEPT !.status = IF store = None THEN 404 ELSE 200]
    <2>1. last'.kind = None
      BY <1>2 DEF NoAnswer
    <2>2. None \notin {"get", "list"} \cup Stores
      BY DataServiceConstants DEF Kinds, Stores
    <2>3. OwnRecords' /\ ValidWhenWritten'
      BY <1>1, <2>1, <2>2, NothingToSay
    <2>4. ReqsInv'
      BY <1>1, <1>2, StirredKeeps DEF IInv
    <2>5. QED
      BY <1>1, <1>2, <2>3, <2>4 DEF IInv, StoreInv
  <1>3. CASE UNCHANGED store /\ \E status \in {200, 500} : Answer(r, status, Empty)
    <2>1. Store /\ reqs[r].kind \notin {"get", "list"} \cup Stores
      BY <1>1, <1>3 DEF Store, Stores
    <2>2. QED
      BY <1>3, <2>1, AnswerKeeps
  <1>4. QED
    BY <1>2, <1>3 DEF Delete

LEMMA DeleteDatasetKeeps ==
    ASSUME IInv, NEW r \in Reqs, DeleteDataset(r)
    PROVE  IInv'
  <1>1. UNCHANGED <<config, cached, begun>>
    BY DEF DeleteDataset
  <1>2. CASE Answer(r, 400, Empty) /\ UNCHANGED <<store, schema>>
    BY <1>1, <1>2, AnswerKeeps DEF Store
  <1>3. CASE /\ store' = None /\ schema' = None
             /\ reqs' = [q \in Reqs |-> IF reqs[q].pc = "idle" \/ q = r THEN Idle
                                        ELSE [reqs[q] EXCEPT !.calm = FALSE, !.known = @ \cup {None}]]
             /\ last' = [NoAnswer EXCEPT !.status = 200]
    <2>1. last'.kind = None
      BY <1>3 DEF NoAnswer
    <2>2. None \notin {"get", "list"} \cup Stores
      BY DataServiceConstants DEF Kinds, Stores
    <2>3. OwnRecords' /\ ValidWhenWritten'
      BY <1>1, <2>1, <2>2, NothingToSay
    <2>4. ASSUME NEW q \in Reqs
          PROVE  Req(reqs'[q], config, None, None)
      BY <1>3, IdleIsReq, GoneIsReq, TypeOfReq DEF IInv
    <2>5. ReqsInv'
      BY <1>1, <1>3, <2>4 DEF ReqsInv
    <2>6. QED
      BY <1>1, <1>3, <2>3, <2>5 DEF IInv, StoreInv
  <1>4. QED
    BY <1>2, <1>3 DEF DeleteDataset

LEMMA CacheSchemaKeeps ==
    ASSUME IInv, NEW r \in Reqs, CacheSchema(r)
    PROVE  IInv'
  <1>1. Req(reqs[r], config, store, schema) /\ reqs[r].pc = "schema"
    BY TypeOfReq DEF IInv, CacheSchema, Is
  <1>2. reqs[r].schema \in Schemas
    BY <1>1 DEF Req
  <1>3. UNCHANGED <<config, store, schema, begun>> /\ cached' \in Schemas \cup {None}
    BY <1>2 DEF CacheSchema, IInv, StoreInv
  <1>4. "writeSchema" \in Pcs
    BY DEF Pcs
  <1>5. Req([reqs[r] EXCEPT !.pc = "writeSchema"], config, store, schema)
    BY <1>1, <1>2, <1>4, MovedIsReq
  <1>6. reqs' = [reqs EXCEPT ![r] = [reqs[r] EXCEPT !.pc = "writeSchema"]] /\ last' = NoAnswer
    BY DEF CacheSchema, Goes
  <1>7. ReqsInv'
    BY <1>3, <1>5, <1>6, OneMoves DEF IInv
  <1>8. OwnRecords' /\ ValidWhenWritten'
    BY <1>3, <1>6, UnansweredSays
  <1>9. QED
    BY <1>3, <1>7, <1>8 DEF IInv, StoreInv

LEMMA WriteSchemaKeeps ==
    ASSUME IInv, NEW r \in Reqs, WriteSchema(r)
    PROVE  IInv'
  <1>1. UNCHANGED <<config, store, cached, begun>>
    BY DEF WriteSchema
  <1>2. CASE Answer(r, 500, Empty) /\ UNCHANGED schema
    BY <1>1, <1>2, AnswerKeeps DEF Store
  <1>3. CASE /\ schema' = reqs[r].schema
             /\ reqs' = [q \in Reqs |-> IF q = r THEN Idle ELSE
                          IF reqs[q].pc = "idle" THEN Idle ELSE [reqs[q] EXCEPT !.known = @ \cup {schema'}]]
             /\ last' = [NoAnswer EXCEPT !.status = 200]
    <2>1. schema' \in Schemas
      <3>1. reqs[r].pc = "writeSchema"
        BY DEF WriteSchema, Is
      <3>2. reqs[r].schema \in Schemas
        BY <3>1, TypeOfReq DEF IInv, Req
      <3>3. QED
        BY <1>3, <3>2
    <2>2. last'.kind = None
      BY <1>3 DEF NoAnswer
    <2>3. None \notin {"get", "list"} \cup Stores
      BY DataServiceConstants DEF Kinds, Stores
    <2>4. OwnRecords' /\ ValidWhenWritten'
      BY <1>1, <2>2, <2>3, NothingToSay
    <2> DEFINE sc == schema'
    <2> HIDE DEF sc
    <2>5. reqs' = [q \in Reqs |-> IF q = r THEN Idle ELSE
                    IF reqs[q].pc = "idle" THEN Idle ELSE [reqs[q] EXCEPT !.known = @ \cup {sc}]]
      BY <1>3 DEF sc
    <2>6. ASSUME NEW q \in Reqs
          PROVE  Req(reqs'[q], config, store, sc)
      <3>1. Req(reqs[q], config, store, schema) /\ sc \in Schemas \cup {None}
        BY <2>1, TypeOfReq DEF IInv, sc
      <3>2. Req([reqs[q] EXCEPT !.known = @ \cup {sc}], config, store, sc)
        BY <3>1, ToldIsReq
      <3>3. QED
        BY <2>5, <3>2, IdleIsReq
    <2>7. ReqsInv'
      BY <1>1, <1>3, <2>6 DEF ReqsInv, sc
    <2>8. QED
      BY <1>1, <2>1, <2>4, <2>7 DEF IInv, StoreInv
  <1>4. QED
    BY <1>2, <1>3 DEF WriteSchema

LEMMA Step == IInv /\ [Next]_vars => IInv'
  <1> SUFFICES ASSUME IInv, [Next]_vars
               PROVE  IInv'
    OBVIOUS
  <1>1. CASE Next
    BY <1>1, BeginKeeps, ReadsKeep, CheckWriteKeeps, ExistingKeeps, PatchKeeps, ReadFragmentKeeps, ValidateKeeps,
       WriteKeeps, DeleteKeeps, DeleteDatasetKeeps, CacheSchemaKeeps, WriteSchemaKeeps DEF Next
  <1>2. CASE UNCHANGED vars
    BY <1>2 DEF vars, IInv, StoreInv, ReqsInv, OwnRecords, ValidWhenWritten
  <1>3. QED
    BY <1>1, <1>2

LEMMA InitHolds == Init => IInv
  <1> SUFFICES ASSUME Init
               PROVE  IInv
    OBVIOUS
  <1>1. StoreInv
    BY EmptyIsRecord, DataServiceConstants DEF Init, StoreInv
  <1>2. ReqsInv
    BY IdleIsReq DEF Init, ReqsInv
  <1>3. last.status = 0
    BY DEF Init, NoAnswer
  <1>4. QED
    BY <1>1, <1>2, <1>3 DEF IInv, OwnRecords, ValidWhenWritten

LEMMA Invariant == Spec => []IInv
  BY InitHolds, Step, PTL DEF Spec

-----------------------------------------------------------------------------
(* The theorems *)

(* The store, the schema and the cached validator are of their type, and every request carries a *)
(* record that may be stored (data.ts, dataset.ts).                                              *)
THEOREM DataServiceType == Spec => []TypeOK
  <1>1. IInv => TypeOK
    BY DEF IInv, StoreInv, ReqsInv, Req, TypeOK
  <1>2. QED
    BY <1>1, Invariant, PTL

(* Under rules a user is sent, and stores, no record but one that names him, whatever others do  *)
(* to the record between the check and the write (checkKey, readKey, getDirectory).              *)
THEOREM UsersKeepToTheirRecords == Spec => []OwnRecords
  <1>1. IInv => OwnRecords
    BY DEF IInv
  <1>2. QED
    BY <1>1, Invariant, PTL

(* What is stored under an enforced schema was valid by a schema the dataset had meanwhile,      *)
(* whoever has replaced the cached validator (getDatasetValidator, cacheSchema).                 *)
THEOREM StoredIsValid == Spec => []ValidWhenWritten
  <1>1. IInv => ValidWhenWritten
    BY DEF IInv
  <1>2. QED
    BY <1>1, Invariant, PTL

\* Only its own write ends a request that is about to patch.
LEMMA PatchIsItsOwn ==
    ASSUME IInv, Next, NEW r \in Reqs, Is(r, "write"), reqs[r].kind = "patch", reqs[r].calm, store' # store,
           reqs'[r].pc = "idle"
    PROVE  store' = Patched(Was(store), reqs[r].change)
  <1>1. ASSUME NEW q \in Reqs, Write(q)
        PROVE  store' = Patched(Was(store), reqs[r].change)
    <2>1. CASE q = r
      <3>1. store' = reqs[r].val
        BY <1>1, <2>1 DEF Write
      <3>2. reqs[r].val = Patched(Was(store), reqs[r].change)
        BY TypeOfReq DEF IInv, Req, Is
      <3>3. QED
        BY <3>1, <3>2
    <2>2. CASE q # r
      <3>1. reqs' = Stirred(q)
        BY <1>1 DEF Write
      <3>2. reqs'[r] = [reqs[r] EXCEPT !.calm = FALSE]
        BY <2>2, <3>1 DEF Stirred
      <3>3. reqs'[r].pc = "write"
        BY <3>2, TypeOfReq DEF IInv, Req, Is
      <3>4. QED
        BY <3>3
    <2>3. QED
      BY <2>1, <2>2
  <1>2. ASSUME NEW q \in Reqs, Delete(q)
        PROVE  FALSE
    <2>1. q # r /\ reqs' = Stirred(q)
      BY <1>2 DEF Delete, Answer
    <2>2. reqs'[r] = [reqs[r] EXCEPT !.calm = FALSE]
      BY <2>1 DEF Stirred
    <2>3. QED
      BY <2>2, TypeOfReq DEF IInv, Req, Is
  <1>3. ASSUME NEW q \in Reqs, DeleteDataset(q)
        PROVE  FALSE
    <2>1. q # r
      BY <1>3 DEF DeleteDataset, Is
    <2>2. reqs'[r] = [reqs[r] EXCEPT !.calm = FALSE, !.known = @ \cup {None}]
      BY <1>3, <2>1 DEF DeleteDataset, Is
    <2>3. QED
      BY <2>2, TypeOfReq DEF IInv, Req, Is
  <1>4. QED
    BY <1>1, <1>2, <1>3, ZenonT(30) DEF Next, Begin, CheckRead, Read, DatasetRead, CheckWrite, Existing, ExistingRemoved, ReadPatch,
       Recheck, ReadFragment, Validate, List, DatasetList, CacheSchema, WriteSchema, Store

(* A patch that nothing else came between changes the field it names and leaves the other as it  *)
(* is in the store at the moment of the write (patch, setProp).                                  *)
THEOREM PatchesKeepTheRest == Spec => PatchKeepsTheRest
  <1> DEFINE Kept == \A r \in Reqs :
            Is(r, "write") /\ reqs[r].kind = "patch" /\ reqs[r].calm /\ store' # store /\ reqs'[r].pc = "idle"
                => LET was == IF store = None THEN Empty ELSE store IN
                   IF reqs[r].change.field = "own" THEN store' = [own |-> reqs[r].change.to, a |-> was.a]
                   ELSE store' = [own |-> was.own, a |-> reqs[r].change.to]
  <1>1. IInv /\ [Next]_vars => [Kept]_vars
    <2> SUFFICES ASSUME IInv, Next, NEW r \in Reqs,
                        Is(r, "write"), reqs[r].kind = "patch", reqs[r].calm, store' # store, reqs'[r].pc = "idle"
                 PROVE  IF reqs[r].change.field = "own" THEN store' = [own |-> reqs[r].change.to, a |-> Was(store).a]
                        ELSE store' = [own |-> Was(store).own, a |-> reqs[r].change.to]
      BY DEF Was
    <2>1. Was(store) \in Records /\ reqs[r].change \in Changes
      BY EmptyIsRecord, TypeOfReq DEF IInv, StoreInv, Req, Was
    <2>2. store' = Patched(Was(store), reqs[r].change)
      BY PatchIsItsOwn
    <2>3. QED
      BY <2>1, <2>2, PatchedOneField
  <1>2. QED
    BY <1>1, Invariant, PTL DEF Spec, PatchKeepsTheRest

=============================================================================
