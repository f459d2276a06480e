--------------------------- MODULE PipelineOrder ---------------------------
(***************************************************************************)
(* What the order in which services answer decides of what a pipeline      *)
(* does.  The reference is the same pipeline run one element at a time,    *)
(* whoever comes first to its joiners.                                     *)
(***************************************************************************)
EXTENDS PipelineRun

(* The same pipeline run one element at a time: all messages of a run that are at *)
(* its first place are taken through it before any goes on.  Each of what may     *)
(* result is the set of what comes out.                                           *)
RECURSIVE RunOut(_)

Out(t) == [(IF Parallel(Frame(t)) THEN t ELSE Unmasked(t)) EXCEPT !.at = SubSeq(@, 1, Len(@) - 1)]

Through(t) ==
    LET mode == Mode(t)
        below == SubBelow(Frame(t))
    IN  CASE Passes(t) -> {{Onward(t)}}
          [] ~Passes(t) /\ ~Tests(t, mode) -> {OnFail(t, mode)}
          [] ~Passes(t) /\ Tests(t, mode) ->
             CASE Here(t).kind = "transform" -> {{Transformed(t, service[Here(t).request, 0])}}
               [] Here(t).kind = "split" -> {{Onward(u) : u \in Items(t, size)}}
               [] Here(t).kind = "sub" ->
                    IF TeeOf(Here(t).of, below) # "no" THEN {{OnSuccess(t, mode, FALSE)}}
                    ELSE {{OnSuccess(u, mode, FALSE) : u \in ts} : ts \in RunOut(Entered(t, below))}
               [] Here(t).kind = "step" /\ Here(t).request = "none" -> {{OnSuccess(t, mode, TRUE)}}
               [] Here(t).kind = "step" /\ Here(t).request # "none" ->
                    {{IF u.body = "null" THEN OnSuccess(u, mode, FALSE)
                      ELSE OnSuccess(Answer(u, service[Here(t).request, Index(u)]), mode, ~Here(t).many) :
                         u \in IF Here(t).many THEN Items(t, size) ELSE {t}}}

\* Each of them taken on, in every way there is for each.
AllThrough(now) == FoldSet(LAMBDA t, all : {a \cup b : a \in Through(t), b \in all}, {{}}, now)

RunOut(ts) ==
    LET rest == {t \in ts : ~Finished(t)}
        place == CHOOSE i \in {Frame(t).pos : t \in rest} : \A t \in rest : i <= Frame(t).pos
        now == {t \in rest : Frame(t).pos = place}
        full == {t \in now : HasData(t)}
        into == {Id(u) : u \in full}
    IN  IF rest = {} THEN {{Out(t) : t \in ts}}
        ELSE UNION {RunOut((ts \ now) \cup on) : on \in
                IF Body[Frame(CHOOSE t \in now : TRUE).pipe][place].kind # "join"
                THEN AllThrough(now)
                ELSE IF full = {} THEN {{Joined(t, {into})} : t \in now}
                ELSE {{Joined([t EXCEPT !.ended = FALSE], {into})} : t \in full}}

RECURSIVE Contents(_)
Contents(id) ==
    [base |-> {{Contents(m) : m \in joins[k].members} : k \in id.base}, trace |-> id.trace]

\* All that the order decides in which services answer and messages overtake each other is
\* who comes first to a joiner, and gives what comes out of it its status, and who comes out
\* of the pipeline last and is returned.  But for that, whatever the order, what comes out
\* of a pipeline, with its status, and what its joiners have written, is what comes out if
\* it is run element by element: nothing is joined twice or left out.
OrderDoesNotMatter ==
    Over =>
        {[id |-> Contents(Id(t)), status |-> t.status, body |-> t.body] : t \in Range(outputs)} \in
            {{[id |-> Id(t), status |-> t.status, body |-> t.body] : t \in ts} : ts \in RunOut(First(main))}
=============================================================================
