---------------------------- MODULE FileService ----------------------------
(***************************************************************************)
(* The file service (services/file.ts) over a store of objects             *)
(* (adapter/S3FileAdapter.ts), which may serve as a store of data as well  *)
(* (adapter/fileToDataAdapter.ts).  The bucket has objects only: that a    *)
(* path is a directory is worked out from the first key that begins with   *)
(* it.  Each request to the bucket is one step; it may fail, and then its  *)
(* work may be done or not.                                                *)
(*                                                                         *)
(* A path is a sequence of names, a file is its size.  Extensions, dates   *)
(* and the escaping of names are left out.                                 *)
(***************************************************************************)
EXTENDS Integers, Sequences, SequencesExt, FiniteSets

CONSTANTS
    Keys,           \* the objects there may be, in the order the bucket lists them
    Longer,         \* pairs of names: the second is the first and something that is sorted before "/"
    Default,        \* defaultResource
    Deletable,      \* names with the suffix that may go with their directory
    Entries,        \* the names in a zip
    MaxSize, PageSize,
    Reqs, MaxReqs, MaxFaults,
    Configs,        \* [parent, default]: parentIfMissing, and whether there is a defaultResource
    Starts,         \* sets of the objects there may be at the start
    NoRange

VARIABLES
    config,
    bucket,         \* the size of each object, 0 when it is not there
    reqs, made, failures

fileVars == <<config, bucket, reqs, made, failures>>

Paths == ToSet(Keys)
Kinds == {"get", "head", "list", "put", "zip", "delete", "deleteDirectory", "readKey"}

\* size, range and told: what a GET has seen of the file, asks for and says of its length; calm: the file
\* has not been written since.  files: what is left of a listing.  done: the object has been deleted.
NoReq == [pc |-> "idle", kind |-> "get", path |-> <<>>, slash |-> FALSE, at |-> 1, calm |-> TRUE, range |-> NoRange,
          told |-> 0, bytes |-> 0, files |-> <<>>, entries |-> [e \in Entries |-> "none"], done |-> FALSE, answer |-> "none"]

Init ==
    /\ config \in Configs
    /\ \E start \in Starts : bucket = [p \in Paths |-> IF p \in start THEN MaxSize ELSE 0]
    /\ reqs = [r \in Reqs |-> NoReq] /\ made = 0 /\ failures = 0

Fails == failures < MaxFaults /\ failures' = failures + 1
Works == UNCHANGED failures
Is(r, pc) == reqs[r].pc = pc
Becomes(r, new) == reqs' = [reqs EXCEPT ![r] = new]
Goes(r, pc) == Becomes(r, [reqs[r] EXCEPT !.pc = pc])
\* Of a request that has been answered, how it went is remembered.
Ended(req, answer) ==
    [req EXCEPT !.pc = "answered", !.answer = answer, !.slash = FALSE, !.at = 1, !.files = <<>>,
                !.path = IF \E e \in Entries : req.entries[e] = "checked" THEN @ ELSE <<>>]
Answers(r, answer) == Becomes(r, Ended(reqs[r], answer))
Rest == UNCHANGED <<config, made>>

-----------------------------------------------------------------------------
(* The bucket *)

Size(p) == IF p \in Paths THEN bucket[p] ELSE 0
Begins(p, k) ==
    \/ IsPrefix(p, k)
    \/ Len(k) >= Len(p) /\ IsPrefix(Front(p), k) /\ <<Last(p), k[Len(p)]>> \in Longer
With(p) == SelectSeq(Keys, LAMBDA k : bucket[k] > 0 /\ Begins(p, k))

\* check: of the first key that begins with the path, which may be that of another file.
KindOf(p, slash) ==
    LET first == With(p) IN
    CASE first = <<>> -> "none"
      [] first # <<>> /\ first[1] = p -> "file"
      [] first # <<>> /\ first[1] # p /\ (slash \/ IsPrefix(p, first[1])) -> "directory"
      [] OTHER -> "none"
\* A listing that fails finds nothing.
Check(p, slash, kind) == (Works /\ kind = KindOf(p, slash)) \/ (Fails /\ kind = "none")

\* listPrefixed: one page of what is in a directory, the files of it before the directories.  A directory
\* is listed once, at its first key, which stands for it.
Listing(d) ==
    LET under == SelectSeq(Keys, LAMBDA k : bucket[k] > 0 /\ IsStrictPrefix(d, k))
        IsFile(k) == Len(k) = Len(d) + 1
        Beside(k) == SelectSeq(under, LAMBDA l : ~IsFile(l) /\ l[Len(d) + 1] = k[Len(d) + 1])
        found == SelectSeq(under, LAMBDA k : IsFile(k) \/ k = Head(Beside(k)))
        page == SubSeq(found, 1, IF Len(found) < PageSize THEN Len(found) ELSE PageSize) IN
    SelectSeq(page, IsFile) \o SelectSeq(page, LAMBDA k : ~IsFile(k))

\* Whoever has seen the file has seen what it was.
Stirred(p) == [r \in Reqs |-> IF reqs[r].path = p THEN [reqs[r] EXCEPT !.calm = FALSE] ELSE reqs[r]]
Write(p, size) == bucket' = IF p \in Paths THEN [bucket EXCEPT ![p] = size] ELSE bucket

-----------------------------------------------------------------------------
Begin(r) ==
    /\ reqs[r].pc \in {"idle", "answered"} /\ \A e \in Entries : reqs[r].entries[e] # "checked"
    /\ made < MaxReqs /\ made' = made + 1
    /\ \/ \E kind \in Kinds, p \in Paths, slash \in BOOLEAN :
           /\ kind \in {"get", "head", "delete", "readKey"} => ~slash
           /\ kind \in {"list", "deleteDirectory"} => slash
           /\ Becomes(r, [NoReq EXCEPT !.kind = kind, !.path = p, !.slash = slash,
                 !.pc = CASE kind \in {"list", "deleteDirectory"} -> "list" [] kind = "readKey" -> "read" [] OTHER -> "look"])
       \* A GET of the root is one of its default resource, when there is one.
       \/ config.default /\ Becomes(r, [NoReq EXCEPT !.kind = "get", !.path = <<Default>>, !.slash = FALSE, !.pc = "look"])
    /\ UNCHANGED <<config, bucket, failures>>

(* GET.  Ranges are what getRequestRange may make of the header and the size. *)
Ranges(size) == {NoRange} \cup {[start |-> s, end |-> e] : s \in 0..size - 1, e \in 0..MaxSize}

EndOf(range, size) == IF range.end < size THEN range.end ELSE size - 1

Serve(r, p) ==
    \/ Size(p) > 0 /\ Answers(r, "unsatisfiable")
    \/ \E range \in Ranges(Size(p)) :
        /\ range # NoRange => range.start <= range.end
        /\ IF reqs[r].kind = "head" THEN Answers(r, "ok")
           ELSE Becomes(r, [reqs[r] EXCEPT !.path = p, !.range = range, !.calm = TRUE, !.at = 1, !.pc = "read",
                    !.told = IF range = NoRange THEN Size(p) ELSE EndOf(range, Size(p)) - range.start + 1])

Look(r) ==
    /\ Is(r, "look") /\ reqs[r].kind \in {"get", "head"} /\ UNCHANGED bucket /\ Rest
    /\ \E kind \in {"none", "file", "directory"} :
        /\ Check(reqs[r].path, FALSE, kind)
        /\ CASE kind = "file" -> Serve(r, reqs[r].path)
             [] kind = "directory" /\ ~config.default -> Goes(r, "list")
             [] kind = "directory" /\ config.default ->
                    Becomes(r, [reqs[r] EXCEPT !.path = Append(@, Default), !.pc = "default"])
             [] kind = "none" /\ config.parent /\ Len(reqs[r].path) > 1 -> Goes(r, "climb")
             [] OTHER -> Answers(r, "missing")

\* The default resource; one that is a directory is read all the same.
LookForDefault(r) ==
    /\ Is(r, "default") /\ UNCHANGED bucket /\ Rest
    /\ \E kind \in {"none", "file", "directory"} :
        /\ Check(reqs[r].path, FALSE, kind)
        /\ CASE kind # "none" -> Serve(r, reqs[r].path)
             [] kind = "none" /\ config.parent -> Goes(r, "climb")
             [] OTHER -> Answers(r, "missing")

\* findParent goes down from the root while there are directories, and looks again at where it stops.
Climbed(r) == SubSeq(reqs[r].path, 1, reqs[r].at)
Climb(r) ==
    /\ Is(r, "climb") /\ UNCHANGED bucket /\ Rest
    /\ \E kind \in {"none", "file", "directory"} :
        /\ Check(Climbed(r), FALSE, kind)
        /\ CASE kind # "directory" -> Goes(r, "parent")
             [] kind = "directory" /\ reqs[r].at < Len(reqs[r].path) -> Becomes(r, [reqs[r] EXCEPT !.at = @ + 1])
             [] OTHER -> Answers(r, "missing")
Parent(r) ==
    /\ Is(r, "parent") /\ UNCHANGED bucket /\ Rest
    /\ \E kind \in {"none", "file", "directory"} :
        /\ Check(Climbed(r), FALSE, kind)
        /\ IF kind = "file" THEN Serve(r, Climbed(r)) ELSE Answers(r, "missing")

\* read: a range that begins and ends at the first byte is none.
Asked(r) == reqs[r].range # NoRange /\ (reqs[r].range.start # 0 \/ reqs[r].told # 1)
Bytes(r, size) ==
    IF ~Asked(r) THEN size
    ELSE IF reqs[r].range.start + reqs[r].told <= size THEN reqs[r].told ELSE size - reqs[r].range.start
Read(r) ==
    /\ Is(r, "read") /\ UNCHANGED bucket /\ Rest
    /\ LET size == Size(reqs[r].path) IN
       \/ Works /\ IF size = 0 \/ (Asked(r) /\ reqs[r].range.start >= size) THEN Answers(r, "missing")
                   ELSE Becomes(r, Ended([reqs[r] EXCEPT !.bytes = Bytes(r, size),
                                        !.told = IF reqs[r].kind = "readKey" THEN size ELSE @], "ok"))
       \/ Fails /\ Answers(r, "failed")

\* readDirectory: a listing that fails is one of nothing.
List(r) ==
    /\ Is(r, "list") /\ reqs[r].kind # "deleteDirectory" /\ UNCHANGED bucket /\ Rest
    /\ (Works \/ Fails) /\ Answers(r, "ok")

-----------------------------------------------------------------------------
(* PUT and POST.  Once a file is written it has the size the request brings. *)
\* One that brings nothing is refused at once.  A zip has some of the files, or none.
LookToWrite(r) ==
    /\ Is(r, "look") /\ reqs[r].kind \in {"put", "zip"} /\ UNCHANGED bucket /\ Rest
    /\ \/ Works /\ Answers(r, "no data")
       \/ \E kind \in {"none", "file", "directory"} :
            /\ Check(reqs[r].path, reqs[r].slash, kind)
            /\ CASE kind # "directory" /\ ~(kind = "none" /\ reqs[r].slash) -> Goes(r, "write")
                 [] reqs[r].kind = "zip" /\ (kind = "directory" \/ (kind = "none" /\ reqs[r].slash)) ->
                        \E files \in SUBSET Entries : Becomes(r, [reqs[r] EXCEPT !.pc = "unzip",
                            !.entries = [e \in Entries |-> IF e \in files THEN "todo" ELSE "none"]])
                 [] OTHER -> Answers(r, "forbidden")

WriteFile(r) ==
    /\ Is(r, "write") /\ Rest
    /\ \E size \in 1..MaxSize :
        \/ Works /\ Write(reqs[r].path, size)
           /\ reqs' = [Stirred(reqs[r].path) EXCEPT ![r] = Ended(@, "ok")]
        \/ Fails /\ Write(reqs[r].path, size)
           /\ reqs' = [Stirred(reqs[r].path) EXCEPT ![r] = Ended(@, "failed")]
        \/ Fails /\ UNCHANGED bucket /\ Answers(r, "failed")

\* The files of a zip are written by themselves, each as by a request of its own.
EntryPath(r, e) == Append(reqs[r].path, e)
Entry(r, e, state) == Becomes(r, [reqs[r] EXCEPT !.entries[e] = state])
LookAtEntry(r, e) ==
    /\ Is(r, "unzip") /\ reqs[r].entries[e] = "todo" /\ UNCHANGED bucket /\ Rest
    /\ \E kind \in {"none", "file", "directory"} :
        Check(EntryPath(r, e), FALSE, kind) /\ Entry(r, e, IF kind = "directory" THEN "failed" ELSE "checked")
WriteEntry(r, e) ==
    /\ reqs[r].entries[e] = "checked" /\ Rest
    /\ \E done \in BOOLEAN, size \in 1..MaxSize :
        /\ IF done THEN Write(EntryPath(r, e), size) ELSE UNCHANGED bucket
        /\ \E ok \in BOOLEAN :
            /\ (ok /\ done /\ Works) \/ (~ok /\ Fails)
            /\ reqs' = LET all == IF done THEN Stirred(EntryPath(r, e)) ELSE reqs IN
                       [all EXCEPT ![r].entries[e] = IF ok THEN "written" ELSE "failed"]

\* MUTANT: the last entry decides.
Failing(r) == \A e \in Entries : reqs[r].entries[e] = "failed"

Failed(r) == \E e \in Entries : reqs[r].entries[e] = "failed"
\* A zip of nothing fails, as the request without a body that it is; one of directories only is saved.
Unzipped(r) ==
    /\ Is(r, "unzip") /\ \A e \in Entries : reqs[r].entries[e] \in {"none", "written", "failed"}
    /\ UNCHANGED <<bucket, failures>> /\ Rest
    /\ \/ Answers(r, IF Failed(r) THEN "failed" ELSE "ok")
       \/ (\A e \in Entries : reqs[r].entries[e] = "none") /\ Answers(r, "failed")
\* A zip that cannot be read to its end: what has begun goes on.
Left(r) == [e \in Entries |-> IF reqs[r].entries[e] = "todo" THEN "unread" ELSE reqs[r].entries[e]]
Unzipping(r) ==
    /\ Is(r, "unzip") /\ \E e \in Entries : reqs[r].entries[e] = "todo"
    /\ UNCHANGED <<bucket, failures>> /\ Rest
    /\ Becomes(r, Ended([reqs[r] EXCEPT !.entries = Left(r)], "failed"))

-----------------------------------------------------------------------------
(* DELETE of a file, and of each file of a directory. *)
Target(r) == IF reqs[r].kind = "delete" THEN reqs[r].path ELSE Head(reqs[r].files)
LookToDelete(r) ==
    /\ (Is(r, "look") /\ reqs[r].kind = "delete") \/ Is(r, "next")
    /\ Is(r, "next") => reqs[r].files # <<>> /\ Len(Target(r)) = Len(reqs[r].path) + 1 /\ Last(Target(r)) \in Deletable
    /\ UNCHANGED bucket /\ Rest
    /\ \E kind \in {"none", "file", "directory"} :
        Check(Target(r), FALSE, kind) /\ IF kind = "none" THEN Answers(r, "missing") ELSE Goes(r, "remove")

\* The request to delete may be refused with a status that is neither 404 nor 500, which the service
\* takes for success.
Deleted(r) ==
    IF reqs[r].kind = "delete" THEN Ended([reqs[r] EXCEPT !.done = TRUE], "ok")
    ELSE [reqs[r] EXCEPT !.pc = "next", !.files = Tail(@)]
RemoveFile(r) ==
    /\ Is(r, "remove") /\ Rest
    /\ \/ Works /\ Write(Target(r), 0) /\ reqs' = [Stirred(Target(r)) EXCEPT ![r] = Deleted(r)]
       \/ Fails /\ Write(Target(r), 0)
          /\ reqs' = [Stirred(Target(r)) EXCEPT ![r] = Ended([@ EXCEPT !.done = TRUE], "failed")]
       \/ Fails /\ UNCHANGED bucket /\ \E answer \in {"ok", "failed"} : Answers(r, answer)

\* deleteDirectory deletes as it goes, up to what may not be deleted; one that cannot be listed is none.
ListToDelete(r) ==
    /\ Is(r, "list") /\ reqs[r].kind = "deleteDirectory" /\ UNCHANGED bucket /\ Rest
    /\ \/ Works /\ Becomes(r, [reqs[r] EXCEPT !.pc = "next", !.files = Listing(reqs[r].path)])
       \/ Fails /\ Answers(r, "ok")
DirectoryDone(r) ==
    /\ Is(r, "next") /\ UNCHANGED <<bucket, failures>> /\ Rest
    /\ \/ reqs[r].files = <<>> /\ Answers(r, "ok")
       \/ /\ reqs[r].files # <<>> /\ (Len(Target(r)) > Len(reqs[r].path) + 1 \/ Last(Target(r)) \notin Deletable)
          /\ Answers(r, "not empty")

Next ==
    \E r \in Reqs :
        \/ Begin(r) \/ Look(r) \/ LookForDefault(r) \/ Climb(r) \/ Parent(r) \/ Read(r) \/ List(r) \/ LookToWrite(r)
        \/ WriteFile(r) \/ Unzipped(r) \/ Unzipping(r) \/ LookToDelete(r) \/ RemoveFile(r) \/ ListToDelete(r) \/ DirectoryDone(r)
        \/ \E e \in Entries : LookAtEntry(r, e) \/ WriteEntry(r, e)

Spec == Init /\ [][Next]_fileVars

-----------------------------------------------------------------------------
(* Types: a path to climb is one, and files of a zip are under way in a zip only. *)
TypeOK ==
    /\ bucket \in [Paths -> 0..MaxSize] /\ failures \in 0..MaxFaults
    /\ \A r \in Reqs :
        /\ reqs[r].pc \in {"climb", "parent"} => reqs[r].at \in 1..Len(reqs[r].path)
        /\ \A e \in Entries : reqs[r].entries[e] = "todo" => Is(r, "unzip")

(* A file that is served has as many bytes as its answer says, in whole or in part, if nobody has     *)
(* written it since it was looked at (get, read).  But the range of the first byte alone is answered  *)
(* with the whole file: read takes a start and an end of 0 for none.                                  *)
SizesAreTrue ==
    \A r \in Reqs :
        reqs[r].kind \in {"get", "readKey"} /\ Is(r, "answered") /\ reqs[r].answer = "ok" /\ reqs[r].calm =>
            reqs[r].bytes = reqs[r].told \/ (reqs[r].range # NoRange /\ reqs[r].range.start = 0 /\ reqs[r].told = 1)

(* When a zip has been saved, each of its files has (writeAction). *)
ZipIsWhole ==
    \A r \in Reqs : reqs[r].kind = "zip" /\ Is(r, "answered") /\ reqs[r].answer = "ok" =>
        \A e \in Entries : reqs[r].entries[e] \in {"none", "written"}     \* none: not one of them

(* "The item was deleted successfully": so says openApi.ts of 200 as an answer to DELETE. *)
DeletedWhenTold ==
    \A r \in Reqs : reqs[r].kind = "delete" /\ Is(r, "answered") /\ reqs[r].answer = "ok" => reqs[r].done
=============================================================================
