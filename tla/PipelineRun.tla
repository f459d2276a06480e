---------------------------- MODULE PipelineRun ----------------------------
(***************************************************************************)
(* One run of a pipeline (pipeline/pipeline.ts and the splitters, joiners  *)
(* and steps it is made of).  A pipeline is a list of elements; a message  *)
(* that reaches an element is processed by its callback as soon as it      *)
(* arrives, whatever the others do, so messages of one split overtake each *)
(* other.  A sub-pipeline is entered by one message and may give many.     *)
(*                                                                         *)
(* A message is where it is (at: the pipelines it is in, outermost first,  *)
(* and its place in each), and what was done to it since the joiner it     *)
(* came out of, if any (trace, base), which stands for its body.           *)
(* Services answer the same request in the same way, so that the order of  *)
(* their answers is all that varies.  A call may also throw: what waits    *)
(* for it without catching waits for ever.  AsyncQueue, Message and the    *)
(* limiter, which a call that throws leaves too, are rs-core's.            *)
(***************************************************************************)
EXTENDS Integers, Sequences, FiniteSets, SequencesExt

CONSTANTS
    Body,       \* pipeline -> its elements
    Cases,      \* what is run, how services answer, and how long lists are (two at most)
    Limit       \* concurrencyLimiter

VARIABLES
    main,       \* the pipeline that is run
    service,    \* <<request, index>> -> "ok", "error", "empty" (no body), "text" (no JSON), or "throws"
    size,       \* of every list that is split or fanned out
    messages,   \* on their way
    joins,      \* place of a joiner in a run -> what it has written
    outputs     \* the messages that came out of the whole pipeline, the last of which it returns

vars == <<main, service, size, messages, joins, outputs>>

-----------------------------------------------------------------------------
(* Modes *)

ModeSpecs == [par : BOOLEAN, fail : {"stop", "next", "end"}, succeed : {"next", "end"}, cond : BOOLEAN,
              tee : {"no", "tee", "wait"}]

\* Assumed by the module that instantiates this one.
PipelineConstants ==
    /\ \A p \in DOMAIN Body :
        /\ Body[p] # <<>> /\ Len(Body[p]) \in Nat /\ DOMAIN Body[p] = 1..Len(Body[p])
        /\ \A i \in DOMAIN Body[p] :
            LET e == Body[p][i] IN
            /\ e.kind \in {"step", "transform", "split", "join", "sub", "mode"}
            /\ e.kind = "step" => e.try \in BOOLEAN /\ e.assign \in BOOLEAN /\ e.many \in BOOLEAN
            /\ e.kind = "sub" => e.of \in DOMAIN Body
            /\ e.kind = "mode" => e.mode \in ModeSpecs
    /\ \A c \in Cases : c.main \in DOMAIN Body /\ c.size \in 0..2
    /\ Limit \in Nat

SerialMode == [par |-> FALSE, fail |-> "next", succeed |-> "next", cond |-> FALSE, tee |-> "no"]
ParallelMode == [SerialMode EXCEPT !.par = TRUE, !.fail = "stop"]
Conditional == [SerialMode EXCEPT !.succeed = "end", !.cond = TRUE]

\* runPipelineOne, as it builds its chain: the mode when i elements are built is that of the
\* last directive, unless a try came after it.
ModeAfter(p, below, i) ==
    LET kind(j) == Body[p][j].kind
        from == CHOOSE j \in 0..i : (j > 0 => kind(j) = "mode") /\ \A k \in j + 1..i : kind(k) # "mode"
        mode == IF from > 0 THEN Body[p][from].mode ELSE IF below THEN ParallelMode ELSE SerialMode
    IN  IF ~mode.par /\ \E k \in from + 1..i : kind(k) = "step" /\ Body[p][k].try THEN Conditional ELSE mode

\* The mode at each element, and beyond the last.
\* "below" says that the parent is serial and not conditional, which is all that is asked of it.
Modes ==
    [p \in DOMAIN Body |-> [below \in BOOLEAN |->
        [i \in 1..Len(Body[p]) + 1 |-> ModeAfter(p, below, i - 1)]]]

\* runPipeline: what the pipeline begins with says whether its elements are branches.
Branches ==
    [p \in DOMAIN Body |-> [below \in BOOLEAN |->
        Modes[p][below][IF Body[p][1].kind = "mode" THEN 2 ELSE 1].par]]

\* What the callback of a sub-pipeline finds in the variable: the chain is built by then.
LastMode(p, below) == Modes[p][below][Len(Body[p]) + 1]

\* Only a serial pipeline tees.
TeeOf(p, below) == IF Branches[p][below] THEN "no" ELSE LastMode(p, below).tee

Below(mode) == ~mode.par /\ ~mode.cond

-----------------------------------------------------------------------------
(* Places *)

Frame(t) == t.at[Len(t.at)]
Here(t) == Body[Frame(t).pipe][Frame(t).pos]
Finished(t) == Frame(t).pos > Len(Body[Frame(t).pipe])
Parallel(f) == Branches[f.pipe][f.below]
Mode(t) == IF Parallel(Frame(t)) THEN ParallelMode
           ELSE Modes[Frame(t).pipe][Frame(t).below][Frame(t).pos]

\* Directives are not stages: the first element from i on that is one.
Stage(p, i) ==
    CHOOSE j \in i..Len(Body[p]) + 1 :
        /\ \A k \in i..j - 1 : Body[p][k].kind = "mode"
        /\ j <= Len(Body[p]) => Body[p][j].kind # "mode"

\* On to the next stage.  A branch of a parallel pipeline has one.
Onward(t) ==
    LET f == Frame(t)
    IN  [t EXCEPT !.phase = "ready",
                  !.at[Len(t.at)].pos = IF Parallel(f) THEN Len(Body[f.pipe]) + 1
                                        ELSE Stage(f.pipe, f.pos + 1)]

\* The run a message is in at depth d, whatever its place there.
RunAt(t, d) == [SubSeq(t.at, 1, d) EXCEPT ![d].pos = 0]

\* Nobody at depth d waits for a message in a sub-pipeline that tees without waiting.
Aside(t, d) == \E n \in d + 1..Len(t.at) : TeeOf(t.at[n].pipe, t.at[n].below) = "tee"

\* Messages that may yet come to place j of a run.
Upstream(run, j) ==
    {t \in messages : /\ Len(t.at) >= Len(run) /\ RunAt(t, Len(run)) = run /\ t.at[Len(run)].pos <= j
                      /\ ~Aside(t, Len(run))}

Id(t) == [base |-> t.base, trace |-> t.trace]

JoinOf(t) == [run |-> RunAt(t, Len(t.at)), pos |-> Frame(t).pos]

-----------------------------------------------------------------------------
(* What an element does to a message *)

\* PipelineStep.test: a condition is on the status; in conditional mode the one that
\* a try has put away counts.
Satisfies(test, t, mode) ==
    LET failed == t.status = "error" \/ (mode.cond /\ t.masked)
    IN  test = "any" \/ (test = "failed" <=> failed)

FirstStep(p) == {i \in DOMAIN Body[p] : Body[p][i].kind = "step" /\ \A j \in 1..i - 1 : Body[p][j].kind # "step"}

\* testPipeline for a sub-pipeline.
Tests(t, mode) ==
    CASE Here(t).kind = "step" -> Satisfies(Here(t).test, t, mode)
      [] Here(t).kind = "sub" -> \A i \in FirstStep(Here(t).of) : Satisfies(Body[Here(t).of][i].test, t, mode)
      [] OTHER -> TRUE

\* Ended messages and null messages pass the elements of a serial pipeline.
Passes(t) == ~Parallel(Frame(t)) /\ (t.ended \/ (t.body = "null" /\ Here(t).kind # "split"))

\* processStepFailed
OnFail(t, mode) ==
    CASE mode.fail = "stop" -> {}
      [] mode.fail = "next" -> {Onward(t)}
      [] mode.fail = "end" -> {[Onward(t) EXCEPT !.ended = TRUE]}

\* processStepSucceeded; only one message, not a queue of them, ends by its error.
OnSuccess(t, mode, single) ==
    [Onward(t) EXCEPT !.ended = mode.succeed = "end" \/ (single /\ ~mode.par /\ t.status = "error")]

\* A service's answer, then the rest of execute: try puts an error away, and an
\* assignment to a variable takes it and leaves the body as it was, if there was one.
\* A call that throws is caught, and its message gets an error text.
Answer(t, outcome) ==
    LET step == Here(t)
        threw == outcome = "throws"
        assigned == step.assign /\ ~step.many /\ ~threw
        failed == outcome = "error"
    IN  [t EXCEPT
            !.trace = Append(@, step.request),
            !.status = IF threw \/ (failed /\ (step.many \/ ~(step.try \/ step.assign))) THEN "error" ELSE "ok",
            !.masked = IF assigned THEN @ ELSE failed /\ ~step.many /\ step.try,
            !.body = CASE assigned /\ t.body # "none" -> @
                       [] outcome = "empty" -> "none"
                       [] outcome \in {"text", "throws"} -> "text"
                       [] OTHER -> "data"]

\* A transform makes its body anew; if it cannot, the error does not end the message.
Transformed(t, outcome) ==
    [Onward(t) EXCEPT !.trace = Append(@, Here(t).request), !.body = "data", !.masked = FALSE,
                      !.status = IF outcome = "error" THEN "error" ELSE @]

Mark == <<"#1", "#2", "#3">>

Items(t, n) ==
    IF n = 0 \/ t.body = "null" THEN {[t EXCEPT !.body = "null"]}
    ELSE {[t EXCEPT !.trace = Append(@, Mark[i]), !.body = "data"] : i \in 1..n}

\* A sub-pipeline of a branch has a parallel parent.
SubBelow(f) == ~Parallel(f) /\ Below(LastMode(f.pipe, f.below))

\* A message enters a sub-pipeline: one for each of its elements if it is parallel.
Entered(t, below) ==
    LET p == Here(t).of
        f == [pipe |-> p, pos |-> Stage(p, 1), below |-> below, by |-> Id(t)]
        inside == [t EXCEPT !.at = Append(@, f), !.ended = FALSE]
    IN  IF Parallel(f)
        THEN {[inside EXCEPT !.trace = Append(@, Mark[i]), !.at[Len(t.at) + 1].pos = i] :
                i \in {j \in DOMAIN Body[p] : Body[p][j].kind # "mode"}}
        ELSE {inside}

\* exitConditionalMode
Unmasked(t) == [t EXCEPT !.status = IF t.masked THEN "error" ELSE @, !.masked = FALSE]

-----------------------------------------------------------------------------
(* The run *)

First(p) ==
    LET f == [pipe |-> p, pos |-> 1, below |-> FALSE, by |-> <<>>]
        t == [at |-> <<f>>, base |-> {}, trace |-> <<>>, status |-> "ok", masked |-> FALSE,
              body |-> "data", ended |-> FALSE, phase |-> "ready"]
    IN  IF Parallel(f)
        THEN {[t EXCEPT !.trace = <<Mark[i]>>, !.at[1].pos = i] : i \in {j \in DOMAIN Body[p] : Body[p][j].kind # "mode"}}
        ELSE {[t EXCEPT !.at[1].pos = Stage(p, 1)]}

Init ==
    /\ \E c \in Cases : main = c.main /\ service = c.service /\ size = c.size
    /\ messages = First(main)
    /\ joins = <<>> /\ outputs = <<>>

Becomes(t, ts) ==
    /\ messages' = (messages \ {t}) \cup ts
    /\ UNCHANGED <<main, service, size, joins, outputs>>

Ready(t, kinds) == t \in messages /\ t.phase = "ready" /\ ~Finished(t) /\ Here(t).kind \in kinds

Pass(t) == Ready(t, {"step", "transform", "sub", "split"}) /\ Passes(t) /\ Becomes(t, {Onward(t)})

\* MUTANT: a branch whose condition fails gives no null to the queue.
FailWaits(t) ==
    /\ Ready(t, {"step", "sub"}) /\ ~Passes(t) /\ ~Tests(t, Mode(t))
    /\ Becomes(t, IF Mode(t).par THEN {[t EXCEPT !.phase = "held"]} ELSE OnFail(t, Mode(t)))

Fail(t) ==
    /\ Ready(t, {"step", "sub"}) /\ ~Passes(t) /\ ~Tests(t, Mode(t))
    /\ Becomes(t, OnFail(t, Mode(t)))

\* A bare condition has nothing to send.
Bare(t) ==
    /\ Ready(t, {"step"}) /\ ~Passes(t) /\ Tests(t, Mode(t)) /\ Here(t).request = "none"
    /\ Becomes(t, {OnSuccess(t, Mode(t), TRUE)})

Transform(t) ==
    Ready(t, {"transform"}) /\ ~Passes(t) /\ Becomes(t, {Transformed(t, service[Here(t).request, 0])})

\* execute up to the limiter.  A spec that stands for a list makes a message of each
\* item, and a null message of an empty list.
Send(t) ==
    /\ Ready(t, {"step"}) /\ ~Passes(t) /\ Tests(t, Mode(t)) /\ Here(t).request # "none"
    /\ Becomes(t, IF ~Here(t).many THEN {[t EXCEPT !.phase = "sent"]}
                  ELSE {IF u.body = "null" THEN OnSuccess(u, Mode(t), FALSE)
                        ELSE [u EXCEPT !.phase = "sent"] : u \in Items(t, size)})

Running == {t \in messages : t.phase = "running"}

LimiterLets == Cardinality(Running) < Limit

Start(t) ==
    /\ t \in messages /\ t.phase = "sent" /\ LimiterLets
    /\ Becomes(t, {[t EXCEPT !.phase = "running"]})

Index(t) == IF ~Here(t).many THEN 0 ELSE IF t.trace[Len(t.trace)] = Mark[1] THEN 1 ELSE 2

\* A fan-out counts its answers: one whose call throws never comes.
Answered(t) ==
    LET outcome == service[Here(t).request, Index(t)]
    IN  /\ t \in Running
        /\ Becomes(t, IF Here(t).many /\ outcome = "throws"
                      THEN {[t EXCEPT !.phase = "lost"]}
                      ELSE {OnSuccess(Answer(t, outcome), Mode(t), ~Here(t).many)})

\* jsonSplit: with no body, or one that is no JSON, its queue is never closed.
Split(t) ==
    /\ Ready(t, {"split"}) /\ ~Passes(t)
    /\ Becomes(t, IF t.body \in {"none", "text"} THEN {[t EXCEPT !.phase = "held"]}
                  ELSE {Onward(u) : u \in Items(t, size)})

\* A sub-pipeline that tees goes on by itself; who entered it goes on at once, or when
\* everything in it is over.
Enter(t) ==
    LET below == SubBelow(Frame(t))
        tee == TeeOf(Here(t).of, below)
    IN  /\ Ready(t, {"sub"}) /\ ~Passes(t) /\ Tests(t, Mode(t))
        /\ Becomes(t, Entered(t, below) \cup
                        CASE tee = "no" -> {}
                          [] tee = "tee" -> {OnSuccess(t, Mode(t), FALSE)}
                          [] tee = "wait" -> {[t EXCEPT !.phase = "teed"]})

LeftNobodyIn(t) ==
    \A u \in messages : Len(u.at) > Len(t.at) =>
        \/ RunAt(u, Len(t.at)) # RunAt(t, Len(t.at)) \/ u.at[Len(t.at) + 1].by # Id(t)
        \/ Aside(u, Len(t.at) + 1)

TeeOver(t) ==
    /\ t \in messages /\ t.phase = "teed" /\ LeftNobodyIn(t)
    /\ Becomes(t, {OnSuccess(t, Mode(t), FALSE)})

\* The end of a run: out of a sub-pipeline, out of the pipeline, or nowhere.
Leave(t) ==
    LET f == Frame(t)
        u == IF Parallel(f) THEN t ELSE Unmasked(t)
        out == [u EXCEPT !.at = SubSeq(t.at, 1, Len(t.at) - 1)]
    IN  /\ t \in messages /\ t.phase = "ready" /\ Finished(t)
        /\ IF TeeOf(f.pipe, f.below) # "no" THEN Becomes(t, {})
           ELSE IF Len(t.at) > 1 THEN Becomes(t, {OnSuccess(out, Mode(out), FALSE)})
           ELSE /\ messages' = messages \ {t} /\ outputs' = Append(outputs, u)
                /\ UNCHANGED <<main, service, size, joins>>

-----------------------------------------------------------------------------
(* jsonObject *)

NoJoin(k) == k \notin DOMAIN joins

JoinWrites(k, members, closed) ==
    joins' = [x \in DOMAIN joins \cup {k} |-> IF x = k THEN [members |-> members, closed |-> closed] ELSE joins[x]]

Kept(j) == {u \in messages : u.phase = "kept" /\ JoinOf(u) = j}

HasData(t) == t.body \in {"data", "text"}

Joined(t, base) == [Onward(t) EXCEPT !.base = base, !.trace = <<>>, !.body = "data"]

\* The first message with a body begins the stream, which goes on down the pipeline as a
\* copy of it, with its status, and not ended though it had been.
JoinFirst(t) ==
    /\ Ready(t, {"join"}) /\ HasData(t) /\ NoJoin(JoinOf(t))
    /\ JoinWrites(JoinOf(t), {Id(t)}, FALSE)
    /\ messages' = (messages \ (Kept(JoinOf(t)) \cup {t})) \cup {Joined([t EXCEPT !.ended = FALSE], {JoinOf(t)})}
    /\ UNCHANGED <<main, service, size, outputs>>

\* MUTANT: the last message to come closes the stream without having been written.
JoinMoreLast(t) ==
    /\ Ready(t, {"join"}) /\ ~NoJoin(JoinOf(t))
    /\ JoinWrites(JoinOf(t), joins[JoinOf(t)].members \cup
            (IF HasData(t) /\ Upstream(JoinOf(t).run, Frame(t).pos) # {t} THEN {Id(t)} ELSE {}), FALSE)
    /\ messages' = messages \ {t}
    /\ UNCHANGED <<main, service, size, outputs>>

\* The others are written to it as they come; those without a body are not.
JoinMore(t) ==
    /\ Ready(t, {"join"}) /\ ~NoJoin(JoinOf(t))
    /\ JoinWrites(JoinOf(t), joins[JoinOf(t)].members \cup (IF HasData(t) THEN {Id(t)} ELSE {}), FALSE)
    /\ messages' = messages \ {t}
    /\ UNCHANGED <<main, service, size, outputs>>

\* The last one without a body is kept until one with a body comes, or nothing does.
JoinKeeps(t) ==
    /\ Ready(t, {"join"}) /\ ~HasData(t) /\ NoJoin(JoinOf(t))
    /\ Becomes(t, {[t EXCEPT !.phase = "kept"]})
    /\ Kept(JoinOf(t)) = {}

JoinDrops(t) ==
    /\ Ready(t, {"join"}) /\ ~HasData(t) /\ NoJoin(JoinOf(t))
    /\ \E u \in Kept(JoinOf(t)) : messages' = (messages \ {t, u}) \cup {[t EXCEPT !.phase = "kept"]}
    /\ UNCHANGED <<main, service, size, joins, outputs>>

\* Nothing came with a body: the message that was kept is given an empty object.  It is the
\* same message: if it was ended it stays so.
LastToCome(t) == NoJoin(JoinOf(t)) /\ Upstream(JoinOf(t).run, JoinOf(t).pos) = {t}

JoinEmpty(t) ==
    /\ t \in messages /\ t.phase = "kept" /\ LastToCome(t)
    /\ messages' = (messages \ {t}) \cup {Joined(t, {JoinOf(t)})}
    /\ JoinWrites(JoinOf(t), {}, TRUE)
    /\ UNCHANGED <<main, service, size, outputs>>

\* The stream is closed once nothing more can come, and its parts are closed, which
\* it reads to their end.
StreamEnds(k) ==
    /\ ~joins[k].closed /\ Upstream(k.run, k.pos) = {}
    /\ \A m \in joins[k].members : \A x \in m.base : joins[x].closed

JoinCloses(k) ==
    /\ k \in DOMAIN joins /\ StreamEnds(k)
    /\ JoinWrites(k, joins[k].members, TRUE)
    /\ UNCHANGED <<main, service, size, messages, outputs>>

-----------------------------------------------------------------------------

Goes(t) ==
    \/ Pass(t) \/ Fail(t) \/ Bare(t) \/ Transform(t) \/ Send(t) \/ Start(t) \/ Answered(t)
    \/ Split(t) \/ Enter(t) \/ TeeOver(t) \/ Leave(t)
    \/ JoinFirst(t) \/ JoinMore(t) \/ JoinKeeps(t) \/ JoinDrops(t) \/ JoinEmpty(t)

Next == (\E t \in messages : Goes(t)) \/ (\E k \in DOMAIN joins : JoinCloses(k))

Spec == Init /\ [][Next]_vars

-----------------------------------------------------------------------------
(* Properties *)

TypeOK ==
    /\ main \in DOMAIN Body
    /\ \A t \in messages \cup Range(outputs) :
        /\ t.status \in {"ok", "error"} /\ t.body \in {"data", "text", "none", "null"}
        /\ t.masked => t.status = "ok"
        /\ t.phase \in {"ready", "sent", "running", "held", "lost", "teed", "kept"}
    /\ \A t \in messages : \A d \in DOMAIN t.at : t.at[d].pos \in 1..Len(Body[t.at[d].pipe]) + 1
    /\ Cardinality(Running) <= Limit
    /\ \A k \in DOMAIN joins : joins[k].closed \in BOOLEAN

Hung == \E t \in messages : t.phase = "lost" \/ (t.phase = "held" /\ Here(t).kind = "split")
Over == messages = {} /\ \A k \in DOMAIN joins : joins[k].closed

\* What an action of t waits for: nothing, if t comes to an element or to the end of its run,
\* as every element then passes it on, fails it, serves it, keeps it or drops it.
CanGo(t) ==
    \/ t.phase = "ready" /\ (Finished(t) \/ Here(t).kind # "mode")
    \/ t.phase = "sent" /\ LimiterLets
    \/ t.phase = "running"
    \/ t.phase = "teed" /\ LeftNobodyIn(t)
    \/ t.phase = "kept" /\ LastToCome(t)

\* No run stalls: until its messages are out and its streams closed somebody can go on,
\* unless a message was split that has no body or one that is no JSON, or a call of a
\* fan-out threw: their queues are never closed, and the run never returns.  As no step
\* takes a message back, every other run ends.
NoPipelineStalls ==
    Over \/ Hung \/ (\E t \in messages : CanGo(t)) \/ \E k \in DOMAIN joins : StreamEnds(k)
=============================================================================
