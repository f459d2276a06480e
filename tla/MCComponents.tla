---------------------------- MODULE MCComponents ----------------------------
EXTENDS Components

O == INSTANCE PipelineOrder

CONSTANTS twos, threes, moved, t1, t2, p1, p2

(* The log collector: three configurations, two that differ in their interval, *)
(* and one that has the interval of the first, as after its URL was changed.   *)

MCBatchSize == [x \in {twos, threes, moved} |-> IF x = threes THEN 3 ELSE 2]
MCMaxSize == [x \in {twos, threes, moved} |-> 2]
MCInterval == [x \in {twos, threes, moved} |-> IF x = threes THEN 5 ELSE 10]

(* The load of a tenant: a site, a service that a chord adds, and a local service *)
(* below the site whose manifest is a file of the site or below the chord's.      *)

MCUrls == {"/site/page", "/site/app/x", "/site/app.rsm.json", "/lib/app.rsm.json", "/nowhere"}

MCPrefixes ==
    [url \in MCUrls |->
        CASE url = "/site/app/x"       -> <<"/site/app", "/site">>
          [] url = "/lib/app.rsm.json" -> <<"/lib">>
          [] url = "/nowhere"          -> <<>>
          [] OTHER                     -> <<"/site">>]

MCSourcesOf == [l \in {"/site/app"} |-> {"/site/app.rsm.json", "/lib/app.rsm.json"}]

(* Timers and tokens. *)

MCSpecs == [auto : BOOLEAN, repeats : {0, 1, 2}, duration : {1}]
MCTokens == {t1, t2}

(* Pipelines that between them have every element, and services that answer all *)
(* requests but one or two with "ok".                                           *)

Step(r) == [kind |-> "step", request |-> r, test |-> "any", try |-> FALSE, assign |-> FALSE, many |-> FALSE]
Try(r) == [Step(r) EXCEPT !.try = TRUE]
Set(r) == [Step(r) EXCEPT !.assign = TRUE]
Many(r) == [Step(r) EXCEPT !.many = TRUE]
If(test, r) == [Step(r) EXCEPT !.test = test]
Form(r) == [kind |-> "transform", request |-> r]
As(mode) == [kind |-> "mode", mode |-> mode]
Sub(p) == [kind |-> "sub", of |-> p]
SplitUp == [kind |-> "split"]
Join == [kind |-> "join"]

Serial == [par |-> FALSE, fail |-> "next", succeed |-> "next", cond |-> FALSE, tee |-> "no"]
EndOnFail == [Serial EXCEPT !.fail = "end"]
Tee(how) == [Serial EXCEPT !.tee = how]

MCBody == [
    split |-> <<Step("c"), SplitUp, Step("a"), Join, Set("b")>>,
    nested |-> <<SplitUp, Sub("pair"), Join>>,
    pair |-> <<As(Serial), Sub("both"), Join, Form("d")>>,
    both |-> <<Step("a"), If("ok", "b")>>,
    fan |-> <<Step("a"), Many("b"), Step("c"), Join, Sub("either")>>,
    either |-> <<Step("c"), If("ok", "d")>>,
    late |-> <<Sub("both"), Try("c"), If("failed", "a"), Sub("guarded")>>,
    guarded |-> <<As(EndOnFail), If("ok", "none"), Set("d")>>,
    tees |-> <<SplitUp, Sub("aside"), Sub("awaited"), Join>>,
    aside |-> <<As(Tee("tee")), Step("a")>>,
    awaited |-> <<As(Tee("wait")), Step("b"), Step("c")>>]

Calls == {"a", "b", "c", "d", "none"} \X {0, 1, 2}

\* One answer is not "ok", or both a and another are errors.
Answers(odd, outcome, both) ==
    [c \in Calls |-> IF c = odd THEN outcome ELSE IF c[1] = "a" /\ both THEN "error" ELSE "ok"]

Odd(m) ==
    CASE m = "split" -> {<<"a", 0>>, <<"b", 0>>, <<"c", 0>>}
      [] m = "nested" -> {<<"b", 0>>}
      [] m = "fan" -> {<<"a", 0>>, <<"b", 1>>, <<"b", 2>>, <<"c", 0>>}
      [] m = "late" -> {<<"a", 0>>, <<"c", 0>>, <<"d", 0>>}
      [] m = "tees" -> {<<"b", 0>>}

Outcomes(m) ==
    CASE m \in {"nested", "tees"} -> {"error"}
      [] m = "fan" -> {"ok", "error", "empty", "throws"}
      [] OTHER -> {"ok", "error", "empty", "text", "throws"}

WithItems ==
    UNION {{[main |-> m, service |-> Answers(odd, outcome, both), size |-> 2] :
                odd \in Odd(m), outcome \in Outcomes(m),
                both \in IF m = "late" THEN BOOLEAN ELSE {FALSE}} :
           m \in {"split", "nested", "fan", "late", "tees"}}

MCCases == WithItems \cup {[c EXCEPT !.size = 0] : c \in WithItems}

\* Whatever the order of answers, what comes out of a pipeline is what comes out if it is run
\* element by element, but for who comes first to its joiners.
OrderDoesNotMatter == part = "pipeline" => O!OrderDoesNotMatter
=============================================================================
