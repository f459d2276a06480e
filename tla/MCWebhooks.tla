----------------------------- MODULE MCWebhooks -----------------------------
(* One event, one subscription, and the clients of one other URL.  *)
EXTENDS WebhookTriggers

CONSTANTS c1, c2, w1, w2, t1, t2, d1, s1, s2, k

MCCallers == {c1, c2, w1, w2, t1, t2}
MCUrls == {"absolute", "relative"} \cup Foreign
MCAbsolute == [key \in Keys |-> "absolute"]
MCRelative == [key \in Keys |-> "relative"]
MCSecret == [c \in {c1, c2, w1, w2} |-> IF c \in {c1, w1} THEN s1 ELSE s2]

\* Two clients and a dispatch; a subscription written before or while a tenant is
\* replaced; one written twice; one beside a client; one that is told of an event.
MCCasts == {{c1, c2, d1}, {w1, t1, t2}, {w1, w2}, {c1, w1}, {w1, d1}}
=============================================================================
