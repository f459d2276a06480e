------------------------------- MODULE Stores -------------------------------
(***************************************************************************)
(* The stores: MongoDB, Elasticsearch, and files in a bucket with the      *)
(* service that serves them.  They share nothing, so that a behaviour of   *)
(* all is one of each: a behaviour here exercises one of them, chosen at   *)
(* the start, and the others stay as they are.                             *)
(***************************************************************************)
EXTENDS MongoData, Sequences

CONSTANTS
    Users, MaxUses, MaxLosses,                                          \* ElasticData
    Keys, Longer, Default, Deletable, Entries, MaxSize, PageSize,       \* FileService
    Reqs, MaxReqs, Configs, Starts

VARIABLES
    store,
    index, type, found, shown, schemasIndex, schema, uses, used, losses, told, gone, deleted,
    config, bucket, reqs, made, failures

E == INSTANCE ElasticData WITH Unset <- None, docs <- found
F == INSTANCE FileService WITH MaxFaults <- MaxLosses, NoRange <- None

ASSUME LossesConstant == MaxLosses \in Nat
\* None is no field and no type of one.
ASSUME NoFieldConstant == None \notin E!Types \cup E!Fields

ASSUME SizeConstant == MaxSize \in Nat
\* A path names at least the file; None is no range.
ASSUME PathsConstant == Default \in STRING /\ \A p \in F!Paths : p \in Seq(STRING) /\ p # <<>>
ASSUME NoRangeConstant == None \notin [start : Nat, end : Nat]

elasticVars == <<index, type, found, shown, schemasIndex, schema, uses, used, losses, told, gone, deleted>>
fileVars == <<config, bucket, reqs, made, failures>>
storesVars == <<store, vars, elasticVars, fileVars>>

\* Those that are not exercised begin in one way only.
StoresInit ==
    /\ store \in {"mongo", "elastic", "files"}
    /\ Init /\ E!Init /\ F!Init
    /\ store # "files" => config = (CHOOSE c \in Configs : TRUE) /\ \A p \in F!Paths : bucket[p] = 0

StoresNext ==
    /\ UNCHANGED store
    /\ \/ store = "mongo" /\ Next /\ UNCHANGED <<elasticVars, fileVars>>
       \/ store = "elastic" /\ E!Next /\ UNCHANGED <<vars, fileVars>>
       \/ store = "files" /\ F!Next /\ UNCHANGED <<vars, elasticVars>>

StoresSpec == StoresInit /\ [][StoresNext]_storesVars

-----------------------------------------------------------------------------
(* Properties: those of the stores *)

AllTypesOK == TypeOK /\ E!TypeOK /\ F!TypeOK

(* What a store has answered is so: what it says was written or deleted is or is not found, a      *)
(* schema it stores is the one its index has, a zip that was saved is there as a whole, and a file *)
(* is as long as it was said to be (waitForWrite, writeSchema, writeAction, get).                  *)
AnswersAreTrue == E!ShownWhenAnswered /\ E!MappedAsStored /\ F!ZipIsWhole /\ F!SizesAreTrue

(* "The item was deleted successfully": so says openApi.ts of 200 as an answer to DELETE. *)
DeletedWhenTold == F!DeletedWhenTold
=============================================================================
