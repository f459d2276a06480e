------------------------- MODULE ReadersWriterLock -------------------------
(***************************************************************************)
(* What the per-path lock manager promises, with no queue, counter, timer  *)
(* or Map: callers ask for a lock on a path and are told, at once or       *)
(* later, that they hold it or that they will not get it.  The locks held  *)
(* never conflict, and a path that nobody holds has nobody waiting for it. *)
(***************************************************************************)
CONSTANTS Paths, Requests, None

VARIABLE lock   \* Requests -> what the caller has been told so far

Told == [status : {"idle", "queued", "held", "rejected"},
         mode : {"read", "write"}, path : Paths \cup {None}]

Nothing == [status |-> "idle", mode |-> "read", path |-> None]

\* No two holders of a path unless both read.
Compatible(l) ==
    \A r1, r2 \in Requests :
        /\ l[r1].status = "held" /\ l[r2].status = "held"
        /\ l[r1].path = l[r2].path /\ r1 # r2
        => l[r1].mode = "read" /\ l[r2].mode = "read"

\* Whoever waits, waits for a holder.
NobodyWaitsForNobody(l) ==
    \A r \in Requests :
        l[r].status = "queued" =>
            \E h \in Requests : l[h].status = "held" /\ l[h].path = l[r].path

Init == lock = [r \in Requests |-> Nothing]

\* A lock is asked for: the answer is that it is held, or to wait.
Ask(r) ==
    /\ lock[r].status = "idle"
    /\ lock'[r].status \in {"queued", "held"}
    /\ lock'[r].path \in Paths
    /\ \A q \in Requests \ {r} : lock'[q] = lock[q]

\* Of those who wait for the path that r leaves, some may be granted it.
OthersKeepOrGet(r) ==
    \A q \in Requests \ {r} :
        \/ lock'[q] = lock[q]
        \/ /\ lock[q].status = "queued" /\ lock[q].path = lock[r].path
           /\ lock'[q] = [lock[q] EXCEPT !.status = "held"]

GiveBack(r) ==
    /\ lock[r].status = "held"
    /\ lock'[r] = Nothing
    /\ OthersKeepOrGet(r)

Reject(r) ==
    /\ lock[r].status = "queued"
    /\ lock'[r] = [lock[r] EXCEPT !.status = "rejected"]
    /\ OthersKeepOrGet(r)

GiveUp(r) ==
    /\ lock[r].status = "rejected"
    /\ lock'[r] = Nothing
    /\ \A q \in Requests \ {r} : lock'[q] = lock[q]

Next ==
    /\ \E r \in Requests :
        /\ lock'[r] # lock[r]
        /\ Ask(r) \/ GiveBack(r) \/ Reject(r) \/ GiveUp(r)
    /\ lock' \in [Requests -> Told]
    /\ Compatible(lock')
    /\ NobodyWaitsForNobody(lock')

Spec == Init /\ [][Next]_lock
=============================================================================
