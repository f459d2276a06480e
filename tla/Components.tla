----------------------------- MODULE Components -----------------------------
(***************************************************************************)
(* Components whose models are small, checked together: the log collector, *)
(* the load of a tenant, the run of a pipeline, three services that keep   *)
(* state of their own (a timer, the session of a client of server-sent     *)
(* events, the tokens of temporary access), and the calls of services.     *)
(* They share nothing, so that a behaviour of all is one of each: a        *)
(* behaviour here exercises one of them, chosen at the start, and the      *)
(* others stay as they are.                                                *)
(***************************************************************************)
EXTENDS LogForwarder, Integers

CONSTANTS
    Callers, Remote, Chord, Local, Urls, Prefixes, SourcesOf,       \* TenantLoad
    Body, Cases, Limit,                                             \* PipelineRun
    Specs, MaxTicks, MaxChanges,                                    \* Timers
    Connections, Pushes,                                            \* EventSessions
    Tokens, ExpirySecs, MaxPosts, MaxTime,                          \* TemporaryAccess
    MaxCalls, MaxAdapters, MaxLoose,                                \* Requests
    Parts                                                           \* those that are exercised

VARIABLES
    part,
    tenant, promise, loadTimer, load, configs, ready, inited, requests,
    main, service, size, messages, joins, outputs,
    spec, boot, config, paused, ended, count, loop, changes,
    session, streams, conn, push, out, crossed,
    validTokenExpiries, tokenBaseUrls, time, posts, granted, answer,
    calls

L == INSTANCE TenantLoad WITH timer <- loadTimer
P == INSTANCE PipelineRun
T == INSTANCE Timers WITH NoSpec <- None
E == INSTANCE EventSessions
A == INSTANCE TemporaryAccess
R == INSTANCE Requests

ASSUME LoadConstants == L!TenantConstants
ASSUME PipelineConstants == P!PipelineConstants
ASSUME TimerConstants == MaxTicks \in Nat /\ MaxChanges \in Nat
ASSUME SessionConstants == Connections \in Nat /\ Pushes \in Nat
ASSUME TokenConstants ==
    ExpirySecs \in Nat /\ MaxPosts \in Nat /\ MaxTime \in Nat \ {0} /\ "none" \notin Tokens
ASSUME CallConstants == MaxCalls \in Nat /\ MaxAdapters \in Nat \ {0} /\ MaxLoose \in Nat

loadVars == <<tenant, promise, loadTimer, load, configs, ready, inited, requests>>
pipelineVars == <<main, service, size, messages, joins, outputs>>
timerVars == <<spec, boot, config, paused, ended, count, loop, changes>>
sessionVars == <<session, streams, conn, push, out, crossed>>
tokenVars == <<validTokenExpiries, tokenBaseUrls, time, posts, granted, answer>>
allVars == <<part, vars, loadVars, pipelineVars, timerVars, sessionVars, tokenVars, calls>>

\* Those that are not exercised begin in one way only.
PartsInit ==
    /\ part \in Parts
    /\ Init /\ L!Init /\ P!Init /\ T!Init /\ E!Init /\ A!Init /\ R!Init
    /\ part # "pipeline" => [main |-> main, service |-> service, size |-> size] = CHOOSE c \in Cases : TRUE
    /\ part # "timer" => spec = None

PartsNext ==
    /\ UNCHANGED part
    /\ \/ part = "logs" /\ Next
          /\ UNCHANGED <<loadVars, pipelineVars, timerVars, sessionVars, tokenVars, calls>>
       \/ part = "load" /\ L!Next
          /\ UNCHANGED <<vars, pipelineVars, timerVars, sessionVars, tokenVars, calls>>
       \/ part = "pipeline" /\ P!Next
          /\ UNCHANGED <<vars, loadVars, timerVars, sessionVars, tokenVars, calls>>
       \/ part = "timer" /\ T!Next
          /\ UNCHANGED <<vars, loadVars, pipelineVars, sessionVars, tokenVars, calls>>
       \/ part = "sessions" /\ E!Next
          /\ UNCHANGED <<vars, loadVars, pipelineVars, timerVars, tokenVars, calls>>
       \/ part = "tokens" /\ A!Next
          /\ UNCHANGED <<vars, loadVars, pipelineVars, timerVars, sessionVars, calls>>
       \/ part = "calls" /\ R!Next
          /\ UNCHANGED <<vars, loadVars, pipelineVars, timerVars, sessionVars, tokenVars>>

Of(p, Step) == part = p /\ Step

PartsSteps == PartsInit /\ [][PartsNext]_allVars

\* What each part's own specification is fair to: see there.  Calls have a run of their own.
PartsSpec ==
    /\ PartsSteps
    /\ WF_vars(Of("logs", ProcessEntry)) /\ WF_vars(Of("logs", TimerFires))
    /\ \A e \in Entries : WF_vars(Of("logs", AnswersWith(e)))
    /\ \A r \in L!Requests : WF_loadVars(Of("load", L!Wake(r) \/ L!Dispatch(r)))
    /\ WF_loadVars(Of("load", L!LoadTimeout)) /\ WF_loadVars(Of("load", L!LoadStep))
    /\ WF_timerVars(Of("timer", T!Load)) /\ WF_timerVars(Of("timer", T!Fire))
    /\ WF_timerVars(Of("timer", T!Answered))

CallsSpec == PartsSteps /\ WF_calls(Of("calls", \E c \in 1..MaxCalls : R!Step(c)))

-----------------------------------------------------------------------------
(* Properties: those of the parts *)

AllTypesOK == TypeOK /\ L!TypeOK /\ P!TypeOK /\ T!TypeOK /\ E!TypeOK /\ A!TypeOK

ServedAfterInit == L!ServedAfterInit
NoLoadStalls == L!NoLoadStalls
EveryRequestEnds == L!EveryRequestEnds
NoPipelineStalls == part = "pipeline" => P!NoPipelineStalls
KeepsTicking == part = "timer" => T!KeepsTicking
WholeEvents == E!WholeEvents
AccessForItsTime == A!AccessForItsTime
AdapterLifetimes == R!AdapterLifetimes
ClientsAreAnswered == R!ClientsAreAnswered
=============================================================================
