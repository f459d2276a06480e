-------------------------- MODULE TemporaryAccess --------------------------
(***************************************************************************)
(* The tokens of services/temporary-access.ts: a queue of expiries, swept  *)
(* from its head by every request, beside the record of what each token    *)
(* gives access to.  Clients may name their tokens, and name one again     *)
(* when it has expired or was deleted.                                     *)
(***************************************************************************)
EXTENDS Integers, Sequences, SequencesExt

CONSTANTS
    Tokens,
    ExpirySecs,
    MaxPosts,       \* bound on tokens posted
    MaxTime

VARIABLES
    validTokenExpiries,     \* <<expiry, token>>, in the order of posts
    tokenBaseUrls,          \* the tokens that give access
    time, posts,
    granted,                \* when a token was last posted, and not deleted since; 0 if it was not
    answer                  \* the last request, and whether it was let through

vars == <<validTokenExpiries, tokenBaseUrls, time, posts, granted, answer>>

Init ==
    /\ validTokenExpiries = <<>> /\ tokenBaseUrls = {} /\ time = 1 /\ posts = 0
    /\ granted = [k \in Tokens |-> 0] /\ answer = <<"none", FALSE>>

\* MUTANT: what has expired is forgotten one at a time.
SweptOne == IF validTokenExpiries # <<>> /\ validTokenExpiries[1][1] < time THEN 1 ELSE 0

\* How many at the head have expired.
Swept ==
    CHOOSE n \in 0..Len(validTokenExpiries) :
        /\ \A i \in 1..n : validTokenExpiries[i][1] < time
        /\ n < Len(validTokenExpiries) => validTokenExpiries[n + 1][1] >= time

Kept == SubSeq(validTokenExpiries, Swept + 1, Len(validTokenExpiries))
Valid == tokenBaseUrls \ {validTokenExpiries[i][2] : i \in 1..Swept}

\* A request below a token.
Access(k) ==
    /\ validTokenExpiries' = Kept /\ tokenBaseUrls' = Valid
    /\ answer' = <<k, k \in Valid>>
    /\ UNCHANGED <<time, posts, granted>>

\* A token that is valid cannot be posted again.
Post(k) ==
    /\ posts < MaxPosts /\ posts' = posts + 1 /\ k \notin Valid
    /\ validTokenExpiries' = Append(Kept, <<time + ExpirySecs, k>>)
    /\ tokenBaseUrls' = Valid \cup {k}
    /\ granted' = [granted EXCEPT ![k] = time]
    /\ answer' = <<"none", FALSE>> /\ UNCHANGED time

\* A token that is valid has one entry (TypeOK).
Delete(k) ==
    /\ k \in Valid
    /\ \E i \in DOMAIN Kept : Kept[i][2] = k /\ validTokenExpiries' = RemoveAt(Kept, i)
    /\ tokenBaseUrls' = Valid \ {k}
    /\ granted' = [granted EXCEPT ![k] = 0]
    /\ answer' = <<"none", FALSE>> /\ UNCHANGED <<time, posts>>

Tick == time < MaxTime /\ time' = time + 1 /\ answer' = <<"none", FALSE>>
        /\ UNCHANGED <<validTokenExpiries, tokenBaseUrls, posts, granted>>

Next == Tick \/ \E k \in Tokens : Access(k) \/ Post(k) \/ Delete(k)

-----------------------------------------------------------------------------
(* Properties *)

TypeOK ==
    /\ validTokenExpiries \in Seq((1..MaxTime + ExpirySecs) \X Tokens)
    /\ tokenBaseUrls = {validTokenExpiries[i][2] : i \in DOMAIN validTokenExpiries}
    /\ \A i, j \in DOMAIN validTokenExpiries : validTokenExpiries[i][2] = validTokenExpiries[j][2] => i = j
    /\ time \in 1..MaxTime /\ posts \in 0..MaxPosts

\* A token gives access for exactly its time since it was last posted, unless it is
\* deleted, however often it has been posted before.
AccessForItsTime ==
    \A k \in Tokens : answer[1] = k =>
        (answer[2] <=> granted[k] # 0 /\ time <= granted[k] + ExpirySecs)
=============================================================================
