------------------------------ MODULE Timers ------------------------------
(***************************************************************************)
(* One timer of a timer store (services/timer-store.ts): the spec in the   *)
(* store, the state the service keeps for it, and its run loop.  Specs are *)
(* read when the service starts, while requests already come; a state made *)
(* by a request has no loop until they are.                                *)
(* The wait of a loop is one timeout.  Where it is cleared the loop waits  *)
(* for ever, for nothing else resolves its promise.                        *)
(***************************************************************************)
EXTENDS Integers

CONSTANTS
    Specs,          \* [auto, repeats, duration]: autoStart, maxRepeats (0 is none), repeatDuration
    NoSpec,
    MaxTicks,       \* bound on triggers
    MaxChanges      \* bound on requests that change the timer

VARIABLES
    spec,           \* in the store, or NoSpec
    boot,           \* whether the specs have yet to be read: "no", "yes", "over"
    config,         \* of the state, NoSpec if there is no state
    paused, ended, count,
    loop,           \* "none", "waiting", "hung", "calling", "over"
    changes

vars == <<spec, boot, config, paused, ended, count, loop, changes>>

Init ==
    /\ spec \in Specs \cup {NoSpec}
    /\ boot = "yes" /\ config = NoSpec
    /\ paused = FALSE /\ ended = FALSE /\ count = 0 /\ loop = "none" /\ changes = 0

\* stop: what waits is never woken.
Stop(l) ==
    /\ ended' = TRUE
    /\ loop' = IF l = "waiting" THEN "hung" ELSE l

\* getSpecs, then load of the substate: one that a request has made meanwhile is used.
Load ==
    /\ boot = "yes" /\ boot' = "over"
    /\ IF spec = NoSpec THEN UNCHANGED <<config, paused, loop>>
       ELSE /\ config' = spec
            /\ paused' = (paused \/ ~spec.auto)
            /\ loop' = IF ended THEN "over" ELSE "waiting"
    /\ UNCHANGED <<spec, ended, count, changes>>

Changes == changes < MaxChanges /\ changes' = changes + 1

State == config' = IF config = NoSpec THEN spec ELSE config

\* POST <timer>/start, pause and stop.
Start ==
    /\ spec # NoSpec /\ Changes /\ State /\ paused' = FALSE
    /\ UNCHANGED <<spec, boot, ended, count, loop>>

Pause ==
    /\ spec # NoSpec /\ Changes /\ State /\ paused' = TRUE
    /\ UNCHANGED <<spec, boot, ended, count, loop>>

StopTimer ==
    /\ spec # NoSpec /\ Changes /\ State /\ Stop(loop)
    /\ UNCHANGED <<spec, boot, paused, count>>

\* The config setter.  Its restart does nothing: it asks for a timer that has ended where the
\* setter asks for one that has not.  A state that was never loaded takes the spec as it is.
SetConfig(s) ==
    /\ config' = s
    /\ IF loop # "none" /\ ~ended /\ s.repeats > 0 /\ s.repeats < count
       THEN Stop(loop) ELSE UNCHANGED <<ended, loop>>

\* PUT sets the spec of the state, and by its answer keeps it from the store.
Put(s) == Changes /\ SetConfig(s) /\ UNCHANGED <<spec, boot, paused, count>>

\* The service is unloaded: the timers there are are stopped.
Unload ==
    /\ config # NoSpec /\ Changes /\ Stop(loop)
    /\ UNCHANGED <<spec, boot, config, paused, count>>

\* The timeout: a trigger, unless the timer is paused.
Fire ==
    /\ loop = "waiting"
    /\ IF paused \/ ended THEN UNCHANGED <<count, loop>>
       ELSE count < MaxTicks /\ count' = count + 1 /\ loop' = "calling"
    /\ UNCHANGED <<spec, boot, config, paused, ended, changes>>

\* MUTANT: the loop of a timer that was paused meanwhile ends.
AnsweredOver ==
    /\ loop = "calling" /\ loop' = IF ended \/ paused THEN "over" ELSE "waiting"
    /\ UNCHANGED <<spec, boot, config, paused, ended, count, changes>>

\* The trigger is answered, with whatever status.
Answered ==
    /\ loop = "calling" /\ loop' = IF ended THEN "over" ELSE "waiting"
    /\ UNCHANGED <<spec, boot, config, paused, ended, count, changes>>

Next ==
    \/ Load \/ Start \/ Pause \/ StopTimer \/ Unload \/ Fire \/ Answered
    \/ \E s \in Specs : Put(s)

-----------------------------------------------------------------------------
(* Properties *)

TypeOK ==
    /\ spec \in Specs \cup {NoSpec} /\ config \in Specs \cup {NoSpec}
    /\ boot \in {"yes", "over"} /\ paused \in BOOLEAN /\ ended \in BOOLEAN
    /\ count \in 0..MaxTicks /\ changes \in 0..MaxChanges
    /\ loop \in {"none", "waiting", "hung", "calling", "over"}

Runs == loop # "none" /\ ~paused /\ ~ended

\* A timer that runs goes on to its next trigger, whatever changes of its spec come, until
\* it is paused or stopped.
KeepsTicking == \A n \in 0..MaxTicks - 1 : (Runs /\ count = n) ~> (count > n \/ ~Runs)
=============================================================================
