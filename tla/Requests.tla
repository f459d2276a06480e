------------------------------ MODULE Requests ------------------------------
(***************************************************************************)
(* How a request is served (handleRequest.ts, ServiceFactory.ts,           *)
(* ServiceWrapper.ts, makeServiceContext.ts, mimeHandlers.ts): the call is *)
(* routed, an adapter is got for it, the caller's roles are checked, the   *)
(* service runs between its pipelines, a listing is worked out, and the    *)
(* adapters are closed.  Any of it may make more calls or throw.           *)
(*                                                                         *)
(* What a message says is left out, but for whether it is ok or not, as a  *)
(* redirect or a failure is not.  That calls are bounded stands for        *)
(* services that do not call each other for ever.                          *)
(***************************************************************************)
EXTENDS Integers, Sequences, FiniteSets

CONSTANTS
    MaxCalls,       \* bound on calls
    MaxAdapters,    \* bound on the adapters of a call
    MaxLoose        \* bound on the parts of pipelines that nobody waits for, and on their requests

VARIABLE calls      \* in the order they were made; a call is named by its place
vars == <<calls>>

Ids == DOMAIN calls
Sources == {"External", "Internal", "Outer"}
Inner == {"pre", "func", "post"}        \* what internal() runs in its try block
Results == {"ok", "not", "throw"}

\* A call by the world has by = 0.  owner: the call whose adapters it uses, itself unless it is an
\* item of a listing; open: adapters it has; closed: their closing has begun; tees: a pipeline that it
\* runs has a part that it does not wait for; loose: such a part made it.
NewCall(kind, by, source, loose) ==
    [kind |-> kind, by |-> by, source |-> source, owner |-> Len(calls) + 1,
     listing |-> "no", pc |-> "route", out |-> "ok", open |-> 0, closed |-> FALSE,
     tees |-> FALSE, loose |-> loose]

Init == calls = <<>>

Ended(c) == calls[c].pc \in {"answered", "thrown"}
Of(c) == {d \in Ids : calls[d].by = c}

\* A zip awaits its first entry; all the items at once are awaited until one is rejected; everything
\* else is awaited, but for what is loose.
Left(c) == {d \in Of(c) : ~Ended(d) /\ ~calls[d].loose}
Awaits(c) ==
    LET left == Left(c)
        items == {d \in Of(c) : calls[d].kind = "item"} IN
    CASE calls[c].pc = "mime" /\ calls[c].listing = "zip" -> left # {} /\ \A d \in items : ~Ended(d)
      [] calls[c].pc = "mime" /\ calls[c].listing = "items" ->
            left # {} /\ \A d \in items : Ended(d) => calls[d].out = "ok"
      [] OTHER -> \E d \in left : calls[d].kind # "item" \/ calls[c].listing = "recursive"

At(c, pc) == c \in Ids /\ calls[c].pc = pc /\ ~Awaits(c)
Goes(c, pc, out) == calls' = [calls EXCEPT ![c] = [@ EXCEPT !.pc = pc, !.out = out]]
\* What a call that has ended was like is forgotten, and so is the answer that nobody waits for.
Ends(c, pc, out) ==
    LET kind == IF calls[c].kind # "item" /\ pc = "answered" THEN "private" ELSE calls[c].kind
        seen == IF calls[c].loose THEN "ok" ELSE out
    IN  calls' = [calls EXCEPT ![c] =
                    [@ EXCEPT !.pc = pc, !.out = seen, !.source = "Internal", !.listing = "no", !.kind = kind]]

-----------------------------------------------------------------------------
(* Routing.  Each way in has its own idea of what becomes of an exception. *)

\* handleIncomingRequest of a client.
Arrive ==
    /\ Len(calls) < MaxCalls /\ \A c \in Ids : calls[c].by # 0
    /\ calls' = Append(calls, NewCall("incoming", 0, "External", FALSE))

\* getMessageFunctionForService and extendContextWithAdapter: whatever fails, the adapter comes last.
\* From here on an incoming request is as an outgoing one; only External is told apart.
Served(c) == \E n \in 0..1 :
    LET kind == IF calls[c].kind = "incoming" THEN "outgoing" ELSE calls[c].kind
        source == IF calls[c].source = "External" THEN "External" ELSE "Internal"
        pc == IF calls[c].source = "Internal" THEN "pre" ELSE "permit"
    IN  calls' = [calls EXCEPT ![c] = [@ EXCEPT !.open = n, !.kind = kind, !.source = source, !.pc = pc]]

\* No tenant or no service, which is a success for OPTIONS; or either cannot be had.
Incoming(c) ==
    /\ At(c, "route") /\ calls[c].kind = "incoming"
    /\ Served(c) \/ Ends(c, "answered", "not") \/ Ends(c, "thrown", "throw")
       \/ Ends(c, "answered", "ok")

\* A relative URL or a service that cannot be had throws; without a tenant the request leaves.
Outgoing(c) ==
    /\ At(c, "route") /\ calls[c].kind = "outgoing"
    /\ Served(c) \/ Ends(c, "thrown", "throw") \/ \E out \in {"ok", "not"} : Ends(c, "answered", out)

Private(c) ==
    /\ At(c, "route") /\ calls[c].kind = "private"
    /\ Served(c) \/ Ends(c, "answered", "not") \/ Ends(c, "thrown", "throw")

\* MUTANT: requests within the runtime pass on their exceptions.
CaughtOutside(c) ==
    /\ At(c, "thrown") /\ calls[c].kind = "outgoing"
    /\ \E out \in {"ok", "not"} : Ends(c, "answered", out)

\* The catch blocks of the first two, which answer OPTIONS with a success; a private call has none.
Caught(c) ==
    /\ At(c, "thrown") /\ calls[c].kind \in {"incoming", "outgoing"}
    /\ \E out \in {"ok", "not"} : Ends(c, "answered", out)

-----------------------------------------------------------------------------
(* What the wrapper of a service does. *)

\* shouldRejectUnsafeCookieRequest and isPermitted; authType of the service may throw.
Permit(c) ==
    /\ At(c, "permit")
    /\ Goes(c, "pre", "ok") \/ Goes(c, "close", "not") \/ Goes(c, "close", "throw")

\* makeRequest: by the source and the first element of the path; pipelines give no source.
Makes(c, kind, source, loose) ==
    Len(calls) < MaxCalls /\ calls' = Append(calls, NewCall(kind, c, source, loose))
Request(c) ==
    /\ \E pc \in Inner : At(c, pc)
    /\ \/ \E source \in Sources : Makes(c, "private", source, FALSE)
       \/ Makes(c, "incoming", "External", FALSE)
       \/ \E source \in {"Internal", "Outer"} : Makes(c, "outgoing", source, FALSE)

\* A pipeline has parts that it does not wait for: those it tees to, and what still comes when the
\* message that it gives is out.  They go on making requests when the call is over.
Tee(c) ==
    /\ \E pc \in Inner : At(c, pc)
    /\ Len(calls) < MaxCalls /\ ~calls[c].tees /\ Cardinality({d \in Ids : calls[d].tees}) < MaxLoose
    /\ calls' = [calls EXCEPT ![c].tees = TRUE]
LooseRequest(c) ==
    /\ c \in Ids /\ calls[c].tees /\ Cardinality({d \in Ids : calls[d].loose}) < MaxLoose
    /\ \E kind \in {"private", "outgoing"} : Makes(c, kind, "Internal", TRUE)

\* context.getAdapter, by the service itself.
GetAdapter(c) ==
    /\ At(c, "func") /\ calls[calls[c].owner].open < MaxAdapters
    /\ calls' = [calls EXCEPT ![calls[c].owner].open = @ + 1]

\* The pipelines and the service run one after the other while the message is ok; the catch block
\* makes a failure of what they throw.
After(pc, out) ==
    IF out # "ok" THEN "mime" ELSE CASE pc = "pre" -> "func" [] pc = "func" -> "post" [] pc = "post" -> "mime"
Run(c) ==
    \E pc \in Inner, out \in Results :
        At(c, pc) /\ Goes(c, After(pc, out), IF out = "throw" THEN "not" ELSE out)

\* Or they never end: a pipeline that stalls, a service that waits for what does not come.
Hang(c) == \E pc \in Inner : At(c, pc) /\ Goes(c, "stuck", "ok")

\* The handler of a directory listing asks this wrapper again, with the same context.
List(c) ==
    /\ At(c, "mime") /\ calls[c].listing = "no" /\ calls[c].out = "ok"
    /\ \E l \in {"recursive", "items", "zip"} : calls' = [calls EXCEPT ![c].listing = l]
Asks(c) ==
    /\ c \in Ids /\ calls[c].pc = "mime" /\ calls[c].listing # "no" /\ Len(calls) < MaxCalls
    /\ calls[c].listing = "recursive" => ~Awaits(c)
    /\ calls[c].listing # "recursive" => \A d \in Of(c) : calls[d].kind = "item" => ~Ended(d)
Item(c) == [NewCall("item", c, "Internal", FALSE) EXCEPT !.owner = calls[c].owner, !.pc = "pre"]

Ask(c) == Asks(c) /\ calls' = Append(calls, Item(c))

\* What is thrown here is not caught: by the log of a failure whose body cannot be read, by the
\* handlers of JSON and of listings.  Only External calls are matched with their ETag.
Worked(c, out) ==
    IF calls[c].kind = "item" THEN Ends(c, IF out = "throw" THEN "thrown" ELSE "answered", out)
    ELSE LET pc == IF out # "throw" /\ calls[c].source = "External" THEN "match" ELSE "close"
         IN  calls' = [calls EXCEPT ![c] = [@ EXCEPT !.pc = pc, !.out = out, !.listing = "no"]]
Mime(c) ==
    /\ At(c, "mime")
    /\ \/ Worked(c, calls[c].out)
       \/ calls[c].listing = "zip" /\ Worked(c, "not")
       \/ Worked(c, "throw")

\* checkMatch: too late to undo anything.
Match(c) == At(c, "match") /\ (Goes(c, "close", calls[c].out) \/ (calls[c].out = "ok" /\ Goes(c, "close", "not")))

-----------------------------------------------------------------------------
(* The finally block, and what comes after it. *)

\* MUTANT: without the finally block.
CloseUnlessThrown(c) ==
    /\ At(c, "close")
    /\ calls' = [calls EXCEPT ![c] = [@ EXCEPT !.pc = "closed", !.closed = calls[c].out # "throw",
                                               !.open = IF calls[c].out = "throw" THEN @ ELSE 0]]

\* closeDisposableAdapters, in any case; one that cannot be closed is given up.
Close(c) ==
    /\ At(c, "close")
    /\ calls' = [calls EXCEPT ![c] = [@ EXCEPT !.closed = TRUE, !.open = 0, !.pc = "closed"]]

\* attachFilter, if the URL has one: it asks with the answer, whatever it is, and gives what it gets.
Filter(c) ==
    /\ At(c, "closed") /\ calls[c].kind # "private" /\ calls[c].out # "throw" /\ Len(calls) < MaxCalls
    /\ calls' = Append([calls EXCEPT ![c].pc = "filter"], NewCall("outgoing", c, "Outer", FALSE))
Filtered(c) ==
    /\ At(c, "filter")
    /\ \E d \in Of(c) :
        /\ ~calls[d].loose /\ \A e \in Of(c) : e > d => calls[e].loose
        /\ Ends(c, "answered", calls[d].out)

Return(c) == At(c, "closed") /\ Ends(c, IF calls[c].out = "throw" THEN "thrown" ELSE "answered", calls[c].out)

Step(c) ==
    \/ Incoming(c) \/ Outgoing(c) \/ Private(c) \/ Caught(c) \/ Permit(c)
    \/ Request(c) \/ Tee(c) \/ LooseRequest(c) \/ GetAdapter(c) \/ Run(c) \/ Hang(c) \/ List(c) \/ Ask(c) \/ Mime(c) \/ Match(c) \/ Close(c) \/ Filter(c) \/ Filtered(c) \/ Return(c)

Next == Arrive \/ \E c \in 1..MaxCalls : Step(c)

\* Some call goes on while any can; whether its pipelines and its service end is not assumed.
Spec == Init /\ [][Next]_vars /\ WF_vars(\E c \in 1..MaxCalls : Step(c))

-----------------------------------------------------------------------------
\* An item that its listing no longer waits for, or whatever is done for one.
Adrift(c) == \E d \in Ids : calls[d].kind = "item" /\ d <= c /\ calls[calls[d].by].pc # "mime"

(* Who calls comes first, an item has its lister's adapters and every other call its own; and the *)
(* adapters of a call are open while it works, its pipelines and all they wait for included, and   *)
(* closed when it has ended, with an answer or an exception.  Only what is adrift goes on without, *)
(* or opens them again: the rest of a zip, or of a list of items of which one has failed.          *)
AdapterLifetimes ==
    \A c \in Ids :
        /\ calls[c].by < c /\ calls[c].open \in 0..MaxAdapters
        /\ calls[c].owner = IF calls[c].kind = "item" THEN calls[calls[c].by].owner ELSE c
        /\ calls[c].pc \in Inner \cup {"mime"} /\ calls[calls[c].owner].closed => Adrift(c)
        /\ Ended(c) /\ calls[c].open > 0 =>
                \E d \in Ids : calls[d].owner = c /\ d # c /\ calls[d].kind = "item"

\* A call that is stuck, or waits for one that is held up.
HeldUp(c) ==
    /\ \E d \in Ids : calls[d].pc = "stuck"
    /\ \E held \in SUBSET Ids :
        c \in held /\ \A d \in held : calls[d].pc = "stuck" \/ (Awaits(d) /\ \E e \in Left(d) : e \in held)

(* A client, whose call is the first, is answered however deep something throws             *)
(* (handleIncomingRequest, zip), unless it waits for ever for a pipeline or a service that  *)
(* never ends: what hangs but is not awaited, a part that is teed to or an item beside one  *)
(* that failed, keeps nobody from an answer.                                                *)
ClientsAreAnswered == 1 \in Ids ~> ((1 \in Ids /\ calls[1].pc = "answered") \/ []HeldUp(1))
=============================================================================
