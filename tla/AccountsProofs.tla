--------------------------- MODULE AccountsProofs ---------------------------
(***************************************************************************)
(* Proofs about Accounts: its type and its safety properties, for any      *)
(* number of overlapping requests, attempts and tokens.                    *)
(*                                                                         *)
(* A request holds a copy of the record from its read to its save, so what *)
(* is said of the record has to hold of every copy.  A copy that is good   *)
(* stays good (RecordFine, PendingFine): that gives the type and           *)
(* EnabledIsConfirmed, whatever is overtaken.  The other two are said only *)
(* while no save has undone another: then the record a request saves is    *)
(* the one it read, changed, and the counts the record keeps bound what    *)
(* the user was told (LockoutInv), and a token that may be used has not    *)
(* been (TokensInv).                                                       *)
(***************************************************************************)
EXTENDS Accounts, TLAPS

Hashed == [hashed : {1}, of : Passwords]
Given == {Mask} \cup {Chosen(p) : p \in Passwords}

\* The second factors a record may have: none, one that was confirmed, one that its user has put.
Good == chosen \cup {<<FALSE, FALSE, s>> : s \in Nat} \cup {<<TRUE, TRUE, s>> : s \in confirmed}
Factors == BOOLEAN \X BOOLEAN \X Nat

\* A copy of the record, given the tokens t, the secrets s and the second factors c of the time,
\* and that at most n codes were refused.
Fine(u, P, t, s, c, n) ==
    /\ u \in [password : P, fails : 0..MaxAttempts, lock : 0..MaxTime + LockTime,
              token : 0..t, expiry : 0..MaxTime + TokenLife, verified : BOOLEAN, mfa : BOOLEAN,
              secret : 0..s, enabled : BOOLEAN, codeFails : 0..n, codeLock : 0..MaxTime + LockTime]
    /\ u.lock = 0 => u.fails < MaxAttempts
    /\ Factor(u) \in c

Kinds == {"login", "code", "enroll", "confirm", "disable", "send", "use", "fetched", "put"}

\* What a request has read and is about to save.  Of the services, only logins change the lockout,
\* and only after their read; only what concerns codes changes their count; only send and use change
\* the token.  A client changes no token, and has put its second factor when it is about to be saved.
Entry(e, t, s, c, n) ==
    /\ e = [kind |-> e.kind, read |-> e.read, user |-> e.user, arg |-> e.arg] /\ e.kind \in Kinds
    /\ Fine(e.read, Hashed, t, s, c, n)
    /\ Fine(e.user, IF e.kind = "fetched" THEN Given ELSE Hashed, t, s, IF e.kind = "fetched" THEN Factors ELSE c, n)
    /\ e.kind \in {"login", "code"} => e.user = e.read
    /\ e.kind \notin {"fetched", "put"} => e.user.fails = e.read.fails /\ e.user.lock = e.read.lock
    /\ e.kind \notin {"enroll", "confirm", "disable", "fetched", "put"} => e.user.codeFails = e.read.codeFails
    /\ e.kind = "send" => e.arg \in 1..t /\ e.user.token = e.arg
    /\ e.kind = "use" => /\ e.arg \in 1..t /\ e.arg = e.read.token /\ e.user.token = e.arg
                         /\ e.read.expiry # 0 /\ e.user.expiry = 0
    /\ e.kind \notin {"send", "use"} => e.user.token = e.read.token
    /\ e.kind \notin {"send", "use", "fetched", "put"} => e.user.expiry = e.read.expiry

CountsInv ==
    /\ cookie \in 0..MaxTime + SessionTime /\ challenged \in BOOLEAN
    /\ now \in 1..MaxTime /\ calls \in 0..MaxCalls /\ secrets \in 0..calls + 1 /\ tokens \in 0..calls
    /\ confirmed \subseteq 0..secrets /\ lost \in BOOLEAN

RecordFine == Fine(record, Hashed, tokens, secrets, Good, calls)

\* The record a pending request has read is older than its own call, which may count a code.
PendingFine ==
    /\ pending = [r \in Requests |-> pending[r]]
    /\ \A r \in Requests : pending[r] = None \/ Entry(pending[r], tokens, secrets, Good, calls - 1)

\* The record counts what the user was told, or has locked the account since.
LockoutInv ==
    /\ wrong \in Nat /\ wrongCodes \in Nat
    /\ ~lost => /\ wrong <= IF record.lock # 0 THEN 0 ELSE record.fails
                /\ wrongCodes <= record.codeFails /\ wrongCodes < MaxCodes

\* A token that is being sent is nowhere else.
Fresh(r) ==
    Is(r, "send") =>
        /\ uses[pending[r].arg] = 0 /\ record.token # pending[r].arg
        /\ \A q \in Requests : pending[q] # None =>
              /\ pending[q].read.token # pending[r].arg
              /\ q # r => pending[q].user.token # pending[r].arg

TokensInv ==
    /\ uses \in [1..MaxCalls -> Nat]
    /\ \A t \in 1..MaxCalls : t > tokens => uses[t] = 0
    /\ \A r \in Requests : Fresh(r)
    /\ ~lost => /\ \A t \in 1..MaxCalls : uses[t] <= 1
                /\ record.token > 0 /\ record.expiry # 0 => uses[record.token] = 0

CoreInv == CountsInv /\ RecordFine /\ PendingFine

IInv == CoreInv /\ LockoutInv /\ TokensInv
-----------------------------------------------------------------------------
(* What is done to a copy of the record keeps it fine *)

\* What is fine stays so as tokens, secrets and confirmations are added.
LEMMA FineGrows ==
    ASSUME NEW u, NEW P, NEW t \in Nat, NEW s \in Nat, NEW c, NEW n \in Int,
           NEW t2 \in Nat, NEW s2 \in Nat, NEW c2, NEW n2 \in Int,
           t <= t2, s <= s2, c \subseteq c2, n <= n2, Fine(u, P, t, s, c, n)
    PROVE  Fine(u, P, t2, s2, c2, n2)
  <1>1. 0..t \subseteq 0..t2 /\ 0..s \subseteq 0..s2 /\ 0..n \subseteq 0..n2
    OBVIOUS
  <1>2. QED
    BY <1>1, SMT DEF Fine

\* So does a request under way.
LEMMA EntryGrows ==
    ASSUME NEW e, NEW t \in Nat, NEW s \in Nat, NEW c, NEW n \in Int,
           NEW t2 \in Nat, NEW s2 \in Nat, NEW c2, NEW n2 \in Int,
           t <= t2, s <= s2, c \subseteq c2, n <= n2, Entry(e, t, s, c, n)
    PROVE  Entry(e, t2, s2, c2, n2)
  <1>1. Fine(e.read, Hashed, t2, s2, c2, n2)
    BY FineGrows DEF Entry
  <1>2. Fine(e.user, IF e.kind = "fetched" THEN Given ELSE Hashed, t2, s2, IF e.kind = "fetched" THEN Factors ELSE c2, n2)
    <2>1. CASE e.kind = "fetched"
      <3>1. Fine(e.user, Given, t, s, Factors, n)
        BY <2>1 DEF Entry
      <3>2. Fine(e.user, Given, t2, s2, Factors, n2)
        BY <3>1, FineGrows
      <3>3. QED
        BY <2>1, <3>2
    <2>2. CASE e.kind # "fetched"
      <3>1. Fine(e.user, Hashed, t, s, c, n)
        BY <2>2 DEF Entry
      <3>2. Fine(e.user, Hashed, t2, s2, c2, n2)
        BY <3>1, FineGrows
      <3>3. QED
        BY <2>2, <3>2
    <2>3. QED
      BY <2>1, <2>2
  <1>3. e.kind \in {"send", "use"} => e.arg \in 1..t2
    BY DEF Entry
  <1>4. QED
    BY <1>1, <1>2, <1>3 DEF Entry

\* A refused password is counted, from the start if a lock has passed.
LEMMA FailedIsFine ==
    ASSUME NEW u, NEW t, NEW s, NEW c, NEW n, Fine(u, Hashed, t, s, c, n), now \in 1..MaxTime
    PROVE  /\ Fine(Failed(u), Hashed, t, s, c, n)
           /\ Failed(u).token = u.token /\ Failed(u).expiry = u.expiry /\ Failed(u).codeFails = u.codeFails
           /\ u.lock = 0 /\ Failed(u).lock = 0 => Failed(u).fails = u.fails + 1
           /\ u.lock # 0 /\ Failed(u).lock = 0 => Failed(u).fails = 1
  <1> DEFINE n1 == (IF u.lock # 0 THEN 0 ELSE u.fails) + 1
  <1>1. n1 \in 0..MaxAttempts /\ now + LockTime \in 0..MaxTime + LockTime /\ now + LockTime # 0
    BY AccountsConstants DEF Fine
  <1> HIDE DEF n1
  <1> DEFINE l1 == IF n1 >= MaxAttempts THEN now + LockTime ELSE 0
  <1>2. Failed(u) = [u EXCEPT !.fails = n1, !.lock = l1]
    BY DEF Failed, n1
  <1>3. l1 \in 0..MaxTime + LockTime /\ (l1 = 0 => n1 < MaxAttempts)
    BY <1>1, AccountsConstants
  <1> HIDE DEF l1
  <1>4. Fine([u EXCEPT !.fails = n1, !.lock = l1], Hashed, t, s, c, n)
    BY <1>1, <1>3 DEF Fine, Factor
  <1>5. QED
    BY <1>2, <1>4 DEF n1, Fine

LEMMA WrongCodeIsFine ==
    ASSUME NEW u, NEW t, NEW s, NEW c, NEW n \in Nat, Fine(u, Hashed, t, s, c, n), now \in 1..MaxTime
    PROVE  /\ Fine(WrongCode(u), Hashed, t, s, c, n + 1)
           /\ WrongCode(u).token = u.token /\ WrongCode(u).expiry = u.expiry
           /\ WrongCode(u).fails = u.fails /\ WrongCode(u).lock = u.lock
           /\ WrongCode(u).codeFails = u.codeFails + 1
           /\ WrongCode(u).codeLock <= now => u.codeFails + 1 < MaxCodes
  <1> DEFINE k == u.codeFails + 1
             l == IF k >= MaxCodes THEN now + LockTime ELSE u.codeLock
  <1>1. k \in 0..n + 1 /\ l \in 0..MaxTime + LockTime /\ (l <= now => k < MaxCodes)
    BY AccountsConstants DEF Fine
  <1>2. WrongCode(u) = [u EXCEPT !.codeFails = k, !.codeLock = l]
    BY DEF WrongCode, Fine
  <1>3. 0..n \subseteq 0..n + 1
    OBVIOUS
  <1> HIDE DEF k, l
  <1>4. Fine([u EXCEPT !.codeFails = k, !.codeLock = l], Hashed, t, s, c, n + 1)
    BY <1>1, <1>3 DEF Fine, Factor
  <1>5. QED
    BY <1>1, <1>2, <1>4 DEF Fine, k

\* A request begins: it has read the record, and nothing is saved.
LEMMA BeginKeeps ==
    ASSUME CoreInv, CountsInv', NEW r \in Requests, NEW e, pending' = [pending EXCEPT ![r] = e],
           calls' = calls + 1, record' = record,
           tokens <= tokens', secrets <= secrets', Good \subseteq Good',
           Entry(e, tokens', secrets', Good', calls)
    PROVE  RecordFine' /\ PendingFine'
  <1> USE DEF CoreInv
  <1>1. /\ tokens \in Nat /\ secrets \in Nat /\ calls \in Nat
        /\ tokens' \in Nat /\ secrets' \in Nat /\ calls - 1 \in Int
    BY AccountsConstants DEF CountsInv
  <1>2. Fine(record, Hashed, tokens', secrets', Good', calls')
    BY <1>1, FineGrows DEF RecordFine
  <1>3. ASSUME NEW q \in Requests
        PROVE  pending'[q] = None \/ Entry(pending'[q], tokens', secrets', Good', calls' - 1)
    <2>1. CASE q = r
      BY <2>1, <1>1 DEF PendingFine
    <2>2. CASE q # r
      <3>1. pending'[q] = pending[q]
        BY <2>2 DEF PendingFine
      <3>2. calls - 1 <= calls' - 1 /\ calls' - 1 \in Int
        BY <1>1
      <3>3. CASE pending[q] = None
        BY <3>1, <3>3
      <3>4. CASE Entry(pending[q], tokens, secrets, Good, calls - 1)
        <4>1. Entry(pending[q], tokens', secrets', Good', calls' - 1)
          BY <3>2, <3>4, <1>1, EntryGrows
        <4>2. QED
          BY <4>1, <3>1
      <3>5. QED
        BY <3>3, <3>4 DEF PendingFine
    <2>3. QED
      BY <2>1, <2>2
  <1>4. pending' = [q \in Requests |-> pending'[q]]
    BY DEF PendingFine
  <1>5. QED
    BY <1>2, <1>3, <1>4 DEF RecordFine, PendingFine

\* A request ends, with what it saves or with nothing.
LEMMA EndKeeps ==
    ASSUME CoreInv, NEW r \in Requests, Over(r), UNCHANGED <<calls, secrets, tokens, Good>>,
           Fine(record', Hashed, tokens, secrets, Good, calls)
    PROVE  RecordFine' /\ PendingFine'
  BY DEF CoreInv, RecordFine, PendingFine, Over

\* Nothing is read or saved.
LEMMA IdleKeeps ==
    ASSUME CoreInv, calls' \in {calls, calls + 1}, UNCHANGED <<record, pending, secrets, tokens, Good>>
    PROVE  RecordFine' /\ PendingFine'
  <1> USE DEF CoreInv
  <1>1. tokens \in Nat /\ secrets \in Nat /\ calls \in Nat /\ calls - 1 \in Int
    BY AccountsConstants DEF CountsInv
  <1>2. RecordFine'
    BY <1>1, FineGrows DEF RecordFine
  <1>3. ASSUME NEW q \in Requests, Entry(pending[q], tokens, secrets, Good, calls - 1)
        PROVE  Entry(pending[q], tokens, secrets, Good, calls' - 1)
    BY <1>1, <1>3, EntryGrows
  <1>4. QED
    BY <1>2, <1>3 DEF PendingFine

\* What a request under way is about to save is fine.
LEMMA UserIsFine ==
    ASSUME CoreInv, NEW r \in Requests, pending[r] # None
    PROVE  /\ Entry(pending[r], tokens, secrets, Good, calls - 1)
           /\ calls - 1 \in Nat
           /\ pending[r].kind # "fetched" =>
                /\ Fine(pending[r].user, Hashed, tokens, secrets, Good, calls - 1)
                /\ Fine(pending[r].user, Hashed, tokens, secrets, Good, calls)
  <1> USE DEF CoreInv
  <1>1. Entry(pending[r], tokens, secrets, Good, calls - 1)
    BY DEF PendingFine
  <1>2. tokens \in Nat /\ secrets \in Nat /\ calls \in Nat
    BY AccountsConstants DEF CountsInv
  <1>3. calls - 1 \in Nat
    <2>1. pending[r].user.codeFails \in 0..calls - 1
      BY <1>1 DEF Entry, Fine
    <2>2. QED
      BY <2>1, <1>2
  <1>4. ASSUME pending[r].kind # "fetched"
        PROVE  Fine(pending[r].user, Hashed, tokens, secrets, Good, calls - 1)
    BY <1>1, <1>4 DEF Entry
  <1>5. ASSUME pending[r].kind # "fetched"
        PROVE  Fine(pending[r].user, Hashed, tokens, secrets, Good, calls)
    BY <1>4, <1>5, <1>2, <1>3, FineGrows
  <1>6. QED
    BY <1>1, <1>3, <1>4, <1>5
-----------------------------------------------------------------------------
(* The type: what every step keeps, whatever it overtakes *)

\* A request that reads the record, and changes no counts but its own.
LEMMA ReadsKeepsCore ==
    ASSUME CoreInv, NEW r \in Requests, NEW kind \in Kinds \ {"send", "use"}, NEW user, NEW arg,
           Reads(r, kind, user, arg), Good \subseteq Good', confirmed' \subseteq 0..secrets,
           cookie' \in 0..MaxTime + SessionTime, UNCHANGED challenged,
           Fine(user, IF kind = "fetched" THEN Given ELSE Hashed, tokens, secrets,
                IF kind = "fetched" THEN Factors ELSE Good', calls),
           kind \in {"login", "code"} => user = record,
           kind # "fetched" => user.fails = record.fails /\ user.lock = record.lock,
           kind \notin {"enroll", "confirm", "disable", "fetched"} => user.codeFails = record.codeFails,
           user.token = record.token, kind # "fetched" => user.expiry = record.expiry
    PROVE  CoreInv'
  <1> DEFINE e == [kind |-> kind, read |-> record, user |-> user, arg |-> arg]
  <1>1. CountsInv'
    BY AccountsConstants DEF CoreInv, CountsInv, Reads, Arrives
  <1>2. Fine(record, Hashed, tokens, secrets, Good', calls)
    BY DEF CoreInv, RecordFine, Fine
  <1>3. Entry(e, tokens', secrets', Good', calls)
    BY <1>2 DEF Entry, Reads
  <1>4. RecordFine' /\ PendingFine'
    <2>1. tokens <= tokens' /\ secrets <= secrets'
      BY DEF CoreInv, CountsInv, Reads
    <2>2. pending' = [pending EXCEPT ![r] = e] /\ calls' = calls + 1 /\ record' = record
      BY DEF Reads, Arrives
    <2> HIDE DEF e
    <2>3. QED
      BY <1>1, <1>3, <2>1, <2>2, BeginKeeps
  <1>5. QED
    BY <1>1, <1>4 DEF CoreInv

\* A request that saves a fine record.
LEMMA SavesKeepsCore ==
    ASSUME CoreInv, NEW r \in Requests, NEW user, Saves(r, user),
           cookie' \in 0..MaxTime + SessionTime, challenged' \in BOOLEAN, UNCHANGED <<confirmed, Good>>,
           Fine(user, Hashed, tokens, secrets, Good, calls)
    PROVE  CoreInv'
  <1>1. CountsInv'
    BY DEF CoreInv, CountsInv, Saves
  <1>2. RecordFine' /\ PendingFine'
    BY EndKeeps DEF Saves
  <1>3. QED
    BY <1>1, <1>2 DEF CoreInv

\* A request that ends without a save.
LEMMA NotSavedKeepsCore ==
    ASSUME CoreInv, NEW r \in Requests, NotSaved(r),
           cookie' \in 0..MaxTime + SessionTime, challenged' \in BOOLEAN, lost' \in BOOLEAN,
           UNCHANGED <<confirmed, Good>>
    PROVE  CoreInv'
  <1>1. Fine(record', Hashed, tokens, secrets, Good, calls)
    BY DEF CoreInv, RecordFine, NotSaved
  <1>2. RecordFine' /\ PendingFine'
    BY <1>1, EndKeeps DEF NotSaved
  <1>3. CountsInv'
    BY DEF CoreInv, CountsInv, NotSaved
  <1>4. QED
    BY <1>2, <1>3 DEF CoreInv

LEMMA LoginKeepsCore ==
    ASSUME CoreInv, NEW r \in Requests, NEW p \in Passwords, Login(r, p)
    PROVE  CoreInv'
  <1>1. Fine(record, Hashed, tokens, secrets, Good, calls)
    BY DEF CoreInv, RecordFine
  <1>2. "login" \in Kinds \ {"send", "use"}
    BY DEF Kinds
  <1>3. Reads(r, "login", record, p) /\ UNCHANGED <<cookie, challenged, confirmed, Good>>
    BY DEF Good, Login, past
  <1>4. cookie' \in 0..MaxTime + SessionTime /\ confirmed' \subseteq 0..secrets
    BY <1>3 DEF CoreInv, CountsInv
  <1>5. QED
    BY <1>1, <1>2, <1>3, <1>4, ReadsKeepsCore

LEMMA VerifyKeepsCore ==
    ASSUME CoreInv, NEW r \in Requests, NEW code \in 0..secrets, Verify(r, code)
    PROVE  CoreInv'
  <1>1. Fine(record, Hashed, tokens, secrets, Good, calls)
    BY DEF CoreInv, RecordFine
  <1>2. "code" \in Kinds \ {"send", "use"}
    BY DEF Kinds
  <1>3. Reads(r, "code", record, code) /\ UNCHANGED <<cookie, challenged, confirmed, Good>>
    BY DEF Good, Verify, past
  <1>4. cookie' \in 0..MaxTime + SessionTime /\ confirmed' \subseteq 0..secrets
    BY <1>3 DEF CoreInv, CountsInv
  <1>5. QED
    BY <1>1, <1>2, <1>3, <1>4, ReadsKeepsCore

\* A session that is renewed ends within its time.
LEMMA RenewsInTime ==
    ASSUME CoreInv, Renews
    PROVE  cookie' \in 0..MaxTime + SessionTime
  BY AccountsConstants DEF CoreInv, CountsInv, Renews

LEMMA ConfirmKeepsCore ==
    ASSUME CoreInv, NEW r \in Requests, Confirm(r)
    PROVE  CoreInv'
  <1> DEFINE user == [record EXCEPT !.enabled = TRUE, !.codeFails = 0, !.codeLock = 0, !.mfa = TRUE]
  <1>1. confirmed' = confirmed \cup {record.secret} /\ chosen' = chosen /\ record.secret \in 0..secrets
    BY DEF Confirm, CoreInv, RecordFine, Fine
  <1>2. Good \subseteq Good' /\ <<TRUE, TRUE, record.secret>> \in Good' /\ confirmed' \subseteq 0..secrets
    BY <1>1 DEF Good, CoreInv, CountsInv
  <1>10. 0 \in 0..calls /\ 0 \in 0..MaxTime + LockTime
    BY AccountsConstants DEF CoreInv, CountsInv
  <1>11. Factor(user) = <<TRUE, TRUE, record.secret>>
    BY DEF CoreInv, RecordFine, Fine, Factor
  <1>3. Fine(user, Hashed, tokens, secrets, Good', calls)
    BY <1>2, <1>10, <1>11 DEF CoreInv, RecordFine, Fine
  <1>4. user.fails = record.fails /\ user.lock = record.lock /\ user.token = record.token /\ user.expiry = record.expiry
    BY DEF CoreInv, RecordFine, Fine
  <1>5. "confirm" \in Kinds \ {"send", "use"}
    BY DEF Kinds
  <1>6. Reads(r, "confirm", user, record.secret) /\ UNCHANGED challenged /\ Renews
    BY DEF Confirm
  <1> HIDE DEF user
  <1>7. QED
    BY <1>2, <1>3, <1>4, <1>5, <1>6, RenewsInTime, ReadsKeepsCore

LEMMA DisableKeepsCore ==
    ASSUME CoreInv, NEW r \in Requests, Disable(r)
    PROVE  CoreInv'
  <1> DEFINE user == [record EXCEPT !.secret = 0, !.enabled = FALSE, !.codeFails = 0, !.codeLock = 0, !.mfa = FALSE]
  <1>1. Good' = Good /\ confirmed' \subseteq 0..secrets
    BY DEF Disable, past, Good, CoreInv, CountsInv
  <1>2. 0 \in 0..calls /\ 0 \in 0..secrets /\ 0 \in 0..MaxTime + LockTime
    BY AccountsConstants DEF CoreInv, CountsInv
  <1>8. Factor(user) \in Good'
    BY <1>1 DEF CoreInv, RecordFine, Fine, Factor, Good
  <1>3. Fine(user, Hashed, tokens, secrets, Good', calls)
    BY <1>2, <1>8 DEF CoreInv, RecordFine, Fine
  <1>4. user.fails = record.fails /\ user.lock = record.lock /\ user.token = record.token /\ user.expiry = record.expiry
    BY DEF CoreInv, RecordFine, Fine
  <1>5. "disable" \in Kinds \ {"send", "use"}
    BY DEF Kinds
  <1>6. Reads(r, "disable", user, record.secret) /\ UNCHANGED challenged /\ Renews
    BY DEF Disable
  <1> HIDE DEF user
  <1>7. QED
    BY <1>1, <1>3, <1>4, <1>5, <1>6, RenewsInTime, ReadsKeepsCore

\* What a client makes of the record it got.
LEMMA EditsAreFine ==
    ASSUME CoreInv, NEW user \in Edits
    PROVE  Fine(user, Given, tokens, secrets, Factors, calls) /\ user.token = record.token
  <1> DEFINE masked == [record EXCEPT !.password = Mask]
  <1>1. /\ record.fails \in 0..MaxAttempts /\ record.lock \in 0..MaxTime + LockTime
        /\ Fine(record, Hashed, tokens, secrets, Good, calls)
    BY DEF CoreInv, RecordFine, Fine
  <1>2. /\ 0 \in 0..MaxAttempts /\ 0 < MaxAttempts /\ 0 \in 0..calls /\ 0 \in 0..MaxTime + LockTime
        /\ now + TokenLife \in 0..MaxTime + TokenLife /\ {0} \cup confirmed \subseteq 0..secrets /\ 0..secrets \subseteq Nat
    BY AccountsConstants DEF CoreInv, CountsInv
  <1>3. ASSUME NEW u, u \in [password : Given, fails : 0..MaxAttempts, lock : 0..MaxTime + LockTime,
              token : 0..tokens, expiry : 0..MaxTime + TokenLife, verified : BOOLEAN, mfa : BOOLEAN,
              secret : 0..secrets, enabled : BOOLEAN, codeFails : 0..calls, codeLock : 0..MaxTime + LockTime]
        PROVE  Factor(u) \in Factors
    BY <1>2, <1>3 DEF Factor, Factors
  <1>4. Mask \in Given /\ \A p \in Passwords : Chosen(p) \in Given
    BY DEF Given
  <1>5. masked \in [password : Given, fails : 0..MaxAttempts, lock : 0..MaxTime + LockTime,
              token : 0..tokens, expiry : 0..MaxTime + TokenLife, verified : BOOLEAN, mfa : BOOLEAN,
              secret : 0..secrets, enabled : BOOLEAN, codeFails : 0..calls, codeLock : 0..MaxTime + LockTime]
        /\ (masked.lock = 0 => masked.fails < MaxAttempts) /\ masked.token = record.token
    BY <1>1, <1>4 DEF Fine
  <1>6. CASE \E p \in Passwords : user = [record EXCEPT !.password = Chosen(p)]
    BY <1>1, <1>3, <1>4, <1>6 DEF Fine
  <1> HIDE DEF masked
  <1>7. CASE \E b \in BOOLEAN : user = [masked EXCEPT !.mfa = b]
    BY <1>3, <1>5, <1>7 DEF Fine
  <1>8. CASE \E b \in BOOLEAN : user = [masked EXCEPT !.enabled = b]
    BY <1>3, <1>5, <1>8 DEF Fine
  <1>9. CASE \E s \in {0} \cup confirmed : user = [masked EXCEPT !.secret = s]
    BY <1>2, <1>3, <1>5, <1>9 DEF Fine
  <1>10. CASE user = [masked EXCEPT !.fails = 0, !.lock = 0, !.codeFails = 0, !.codeLock = 0]
    BY <1>2, <1>3, <1>5, <1>10 DEF Fine
  <1>11. CASE user = [masked EXCEPT !.expiry = now + TokenLife]
    BY <1>2, <1>3, <1>5, <1>11 DEF Fine
  <1>12. QED
    BY <1>6, <1>7, <1>8, <1>9, <1>10, <1>11 DEF Edits, masked

LEMMA FetchKeepsCore ==
    ASSUME CoreInv, NEW r \in Requests, NEW user \in Edits, Fetch(r, user)
    PROVE  CoreInv'
  <1>1. Good' = Good /\ confirmed' \subseteq 0..secrets
    BY DEF Fetch, past, Good, CoreInv, CountsInv
  <1>2. Fine(user, Given, tokens, secrets, Factors, calls) /\ user.token = record.token
    BY EditsAreFine
  <1>3. "fetched" \in Kinds \ {"send", "use"}
    BY DEF Kinds
  <1>4. Reads(r, "fetched", user, 0) /\ UNCHANGED challenged /\ Renews
    BY DEF Fetch
  <1>5. QED
    BY <1>1, <1>2, <1>3, <1>4, RenewsInTime, ReadsKeepsCore

LEMMA EnrollKeepsCore ==
    ASSUME CoreInv, NEW r \in Requests, Enroll(r)
    PROVE  CoreInv'
  <1> DEFINE user == Enrolled(record)
             e == [kind |-> "enroll", read |-> record, user |-> user, arg |-> 0]
  <1>1. CountsInv'
    <2>1. cookie' \in 0..MaxTime + SessionTime
      BY RenewsInTime DEF Enroll
    <2>2. confirmed' = confirmed /\ 0..secrets \subseteq 0..secrets + 1
      BY DEF Enroll, past, CoreInv, CountsInv
    <2>3. QED
      BY <2>1, <2>2, AccountsConstants DEF CoreInv, CountsInv, Enroll, Arrives
  <1>2. /\ 0 \in 0..calls /\ secrets' = secrets + 1 /\ secrets + 1 \in 0..secrets' /\ 0 \in 0..MaxTime + LockTime
        /\ 0..secrets \subseteq 0..secrets'
    BY AccountsConstants DEF CoreInv, CountsInv, Enroll
  <1>3. Fine(record, Hashed, tokens, secrets', Good, calls)
    BY <1>2 DEF CoreInv, RecordFine, Fine
  <1>4. /\ Fine(user, Hashed, tokens, secrets', Good, calls)
        /\ user.fails = record.fails /\ user.lock = record.lock /\ user.token = record.token /\ user.expiry = record.expiry
    <2>1. Factor(user) \in Good
      BY <1>2 DEF CoreInv, RecordFine, CountsInv, Fine, Factor, Good, Enrolled
    <2>2. QED
      BY <1>2, <1>3, <2>1 DEF Fine, Enrolled
  <1>5. /\ pending' = [pending EXCEPT ![r] = e] /\ calls' = calls + 1 /\ record' = record
        /\ tokens' = tokens /\ Good' = Good
    BY DEF Enroll, Arrives, past, Good
  <1>6. Entry(e, tokens', secrets', Good', calls)
    BY <1>3, <1>4, <1>5 DEF Entry, Kinds
  <1>7. tokens <= tokens' /\ secrets <= secrets'
    BY <1>2, <1>5 DEF CoreInv, CountsInv
  <1> HIDE DEF e
  <1>8. RecordFine' /\ PendingFine'
    BY <1>1, <1>5, <1>6, <1>7, BeginKeeps
  <1>9. QED
    BY <1>1, <1>8 DEF CoreInv

LEMMA SendTokenKeepsCore ==
    ASSUME CoreInv, NEW r \in Requests, SendToken(r)
    PROVE  CoreInv'
  <1> DEFINE user == [record EXCEPT !.token = tokens + 1, !.expiry = now + TokenLife]
             e == [kind |-> "send", read |-> record, arg |-> tokens + 1, user |-> user]
  <1>1. CountsInv'
    BY AccountsConstants DEF CoreInv, CountsInv, SendToken, Arrives, past
  <1>2. /\ tokens' = tokens + 1 /\ tokens + 1 \in 1..tokens' /\ tokens + 1 \in 0..tokens'
        /\ now + TokenLife \in 0..MaxTime + TokenLife
        /\ 0..tokens \subseteq 0..tokens'
    BY AccountsConstants DEF CoreInv, CountsInv, SendToken
  <1>3. Fine(record, Hashed, tokens', secrets, Good, calls)
    BY <1>2 DEF CoreInv, RecordFine, Fine
  <1>4. /\ Fine(user, Hashed, tokens', secrets, Good, calls)
        /\ user.fails = record.fails /\ user.lock = record.lock /\ user.codeFails = record.codeFails
        /\ user.token = tokens + 1
    <2>1. Factor(user) = Factor(record)
      BY DEF CoreInv, RecordFine, Fine, Factor
    <2>2. QED
      BY <1>2, <1>3, <2>1 DEF Fine
  <1>5. /\ pending' = [pending EXCEPT ![r] = e] /\ calls' = calls + 1 /\ record' = record
        /\ secrets' = secrets /\ Good' = Good
    BY DEF SendToken, Arrives, past, Good
  <1> HIDE DEF user
  <1>6. Entry(e, tokens', secrets', Good', calls)
    BY <1>2, <1>3, <1>4, <1>5 DEF Entry, Kinds
  <1>7. tokens <= tokens' /\ secrets <= secrets'
    BY <1>2, <1>5 DEF CoreInv, CountsInv
  <1> HIDE DEF e
  <1>8. RecordFine' /\ PendingFine'
    BY <1>1, <1>5, <1>6, <1>7, BeginKeeps
  <1>9. QED
    BY <1>1, <1>8 DEF CoreInv

\* A token is used for a change that leaves everything but what a use may change.
LEMMA UseTokenKeepsCore ==
    ASSUME CoreInv, NEW r \in Requests, NEW token \in 1..tokens, NEW change, UseToken(r, token, change),
           Fine(change, Hashed, tokens, secrets, Good, calls),
           change.fails = record.fails, change.lock = record.lock, change.codeFails = record.codeFails,
           change.token = record.token
    PROVE  CoreInv'
  <1> DEFINE user == [change EXCEPT !.expiry = 0]
             e == [kind |-> "use", read |-> record, user |-> user, arg |-> token]
  <1>1. Reads(r, "use", user, token) /\ UNCHANGED <<cookie, challenged, confirmed, Good>>
    BY DEF Good, UseToken, past
  <1>2. CountsInv'
    BY <1>1, AccountsConstants DEF CoreInv, CountsInv, Reads, Arrives
  <1>3. record.token = token /\ record.expiry # 0
    BY DEF UseToken, Accepts
  <1>4. Fine(record, Hashed, tokens, secrets, Good, calls)
    BY DEF CoreInv, RecordFine
  <1>5. 0 \in 0..MaxTime + TokenLife
    BY AccountsConstants
  <1>6. /\ Fine(user, Hashed, tokens, secrets, Good, calls)
        /\ user.fails = record.fails /\ user.lock = record.lock /\ user.codeFails = record.codeFails
        /\ user.token = token /\ user.expiry = 0
    BY <1>3, <1>5 DEF Fine, Factor
  <1>7. /\ pending' = [pending EXCEPT ![r] = e] /\ calls' = calls + 1 /\ record' = record
        /\ UNCHANGED <<tokens, secrets, Good>>
    BY <1>1 DEF Reads, Arrives
  <1> HIDE DEF user
  <1>8. Entry(e, tokens', secrets', Good', calls)
    BY <1>3, <1>4, <1>6, <1>7 DEF Entry, Kinds
  <1>9. tokens <= tokens' /\ secrets <= secrets'
    BY <1>7 DEF CoreInv, CountsInv
  <1> HIDE DEF e
  <1>10. RecordFine' /\ PendingFine'
    BY <1>2, <1>7, <1>8, <1>9, BeginKeeps
  <1>11. QED
    BY <1>2, <1>10 DEF CoreInv

LEMMA UpdatePasswordKeepsCore ==
    ASSUME CoreInv, NEW r \in Requests, NEW token \in 1..tokens, NEW p \in Passwords, UpdatePassword(r, token, p)
    PROVE  CoreInv'
  <1> DEFINE change == [record EXCEPT !.password = Hash(Chosen(p))]
  <1>1. Hash(Chosen(p)) \in Hashed
    BY DEF Hash, Chosen, Hashed
  <1>2. /\ Fine(change, Hashed, tokens, secrets, Good, calls)
        /\ change.fails = record.fails /\ change.lock = record.lock /\ change.codeFails = record.codeFails
        /\ change.token = record.token
    BY <1>1 DEF CoreInv, RecordFine, Fine, Factor
  <1>3. UseToken(r, token, change)
    BY DEF UpdatePassword
  <1> HIDE DEF change
  <1>4. QED
    BY <1>2, <1>3, UseTokenKeepsCore

LEMMA ConfirmEmailKeepsCore ==
    ASSUME CoreInv, NEW r \in Requests, NEW token \in 1..tokens, ConfirmEmail(r, token)
    PROVE  CoreInv'
  <1> DEFINE change == [record EXCEPT !.verified = TRUE]
  <1>1. /\ Fine(change, Hashed, tokens, secrets, Good, calls)
        /\ change.fails = record.fails /\ change.lock = record.lock /\ change.codeFails = record.codeFails
        /\ change.token = record.token
    BY DEF CoreInv, RecordFine, Fine, Factor
  <1>2. UseToken(r, token, change)
    BY DEF ConfirmEmail
  <1> HIDE DEF change
  <1>3. QED
    BY <1>1, <1>2, UseTokenKeepsCore

\* The filter gives back the password the record has, or hashes a new one.  A second factor that
\* is not the one that was read is one the user has put.
LEMMA PutKeepsCore ==
    ASSUME CoreInv, NEW r \in Requests, Put(r)
    PROVE  CoreInv'
  <1> DEFINE password == Filtered(pending[r].user, record)
             user == [pending[r].user EXCEPT !.password = password]
             e == [pending[r] EXCEPT !.kind = "put", !.user = user]
  <1>1. pending[r].kind = "fetched" /\ Entry(pending[r], tokens, secrets, Good, calls - 1)
    BY UserIsFine DEF Put, Is, None
  <1>2. pending[r].user.password \in Given
    BY <1>1 DEF Entry, Fine
  <1>3. password \in Hashed
    <2>1. record.password \in Hashed
      BY DEF CoreInv, RecordFine, Fine
    <2>2. \A p \in Passwords : Hash(Chosen(p)) \in Hashed
      BY DEF Hash, Chosen, Hashed
    <2>3. QED
      BY <1>2, <2>1, <2>2 DEF Filtered, Given
  <1>4. Fine(pending[r].user, Given, tokens, secrets, Factors, calls - 1)
    BY <1>1 DEF Entry
  <1>5. /\ Good \subseteq Good'
        /\ Factor(pending[r].user) \in Good'
    <2>1. /\ chosen' = chosen \cup ({Factor(pending[r].user)} \ {Factor(pending[r].read)})
          /\ confirmed' = confirmed
      BY DEF Put
    <2>2. Good \subseteq Good'
      BY <2>1 DEF Good
    <2>3. Factor(pending[r].read) \in Good
      BY <1>1 DEF Entry, Fine
    <2>4. CASE Factor(pending[r].user) = Factor(pending[r].read)
      BY <2>2, <2>3, <2>4
    <2>5. CASE Factor(pending[r].user) # Factor(pending[r].read)
      <3>1. Factor(pending[r].user) \in chosen'
        BY <2>1, <2>5
      <3>2. chosen' \subseteq Good'
        BY DEF Good
      <3>3. QED
        BY <2>2, <3>1, <3>2
    <2>6. QED
      BY <2>4, <2>5
  <1>6. /\ tokens \in Nat /\ secrets \in Nat /\ calls - 1 \in Int /\ calls \in Int
    BY AccountsConstants DEF CoreInv, CountsInv
  <1> HIDE DEF password
  <1>7. Fine(user, Hashed, tokens, secrets, Good', calls - 1) /\ user.token = pending[r].user.token
    <2>1. Factor(user) = Factor(pending[r].user)
      BY <1>4 DEF Fine, Factor
    <2>2. QED
      BY <1>3, <1>4, <1>5, <2>1 DEF Fine
  <1> HIDE DEF user
  <1>8. e = [kind |-> "put", read |-> pending[r].read, user |-> user, arg |-> pending[r].arg]
    <2>1. pending[r] = [kind |-> pending[r].kind, read |-> pending[r].read, user |-> pending[r].user, arg |-> pending[r].arg]
      BY <1>1 DEF Entry
    <2> DEFINE put == [pending[r] EXCEPT !.kind = "put"]
    <2>2. put = [kind |-> "put", read |-> pending[r].read, user |-> pending[r].user, arg |-> pending[r].arg]
      BY <2>1
    <2>3. e = [put EXCEPT !.user = user]
      OBVIOUS
    <2> HIDE DEF put, e
    <2>4. [put EXCEPT !.user = user] = [kind |-> "put", read |-> pending[r].read, user |-> user, arg |-> pending[r].arg]
      BY <2>2
    <2>5. QED
      BY <2>3, <2>4
  <1>9. pending' = [pending EXCEPT ![r] = e]
    BY <1>1 DEF Put, Entry, PendingFine, CoreInv, user, password
  <1>10. UNCHANGED <<record, cookie, challenged, now, calls, secrets, tokens, confirmed, lost>>
    BY DEF Put
  <1>11. Entry(e, tokens, secrets, Good', calls - 1)
    <2>1. Fine(pending[r].read, Hashed, tokens, secrets, Good', calls - 1)
      <3>1. Fine(pending[r].read, Hashed, tokens, secrets, Good, calls - 1)
        BY <1>1 DEF Entry
      <3>2. QED
        BY <3>1, <1>5, <1>6, FineGrows
    <2>2. pending[r].user.token = pending[r].read.token
      BY <1>1 DEF Entry
    <2>3. QED
      BY <1>7, <1>8, <2>1, <2>2 DEF Entry, Kinds
  <1> HIDE DEF e
  <1>12. RecordFine'
    BY <1>5, <1>6, <1>10, FineGrows DEF CoreInv, RecordFine
  <1>13. ASSUME NEW q \in Requests
         PROVE  pending'[q] = None \/ Entry(pending'[q], tokens, secrets, Good', calls - 1)
    <2>1. CASE q = r
      BY <1>9, <1>11, <2>1 DEF CoreInv, PendingFine
    <2>2. CASE q # r
      <3>1. pending'[q] = pending[q]
        BY <1>9, <2>2 DEF CoreInv, PendingFine
      <3>2. CASE pending[q] = None
        BY <3>1, <3>2
      <3>3. CASE Entry(pending[q], tokens, secrets, Good, calls - 1)
        <4>1. Entry(pending[q], tokens, secrets, Good', calls - 1)
          BY <3>3, <1>5, <1>6, EntryGrows
        <4>2. QED
          BY <3>1, <4>1
      <3>4. QED
        BY <3>2, <3>3 DEF CoreInv, PendingFine
    <2>3. QED
      BY <2>1, <2>2
  <1>14. PendingFine'
    BY <1>9, <1>10, <1>13 DEF CoreInv, PendingFine
  <1>15. QED
    BY <1>10, <1>12, <1>14 DEF CoreInv, CountsInv

LEMMA EnrollSavedKeepsCore ==
    ASSUME CoreInv, NEW r \in Requests, EnrollSaved(r)
    PROVE  CoreInv'
  <1>1. pending[r] # None /\ pending[r].kind # "fetched"
    BY DEF EnrollSaved, Is, None
  <1>2. Saves(r, pending[r].user) /\ UNCHANGED <<cookie, challenged, confirmed, Good>>
    BY DEF Good, EnrollSaved, past
  <1>3. cookie' \in 0..MaxTime + SessionTime /\ challenged' \in BOOLEAN
    BY <1>2 DEF CoreInv, CountsInv
  <1>4. QED
    BY <1>1, <1>2, <1>3, UserIsFine, SavesKeepsCore

LEMMA ConfirmSavedKeepsCore ==
    ASSUME CoreInv, NEW r \in Requests, ConfirmSaved(r)
    PROVE  CoreInv'
  <1>1. pending[r] # None /\ pending[r].kind # "fetched"
    BY DEF ConfirmSaved, Is, None
  <1>2. Saves(r, pending[r].user) /\ UNCHANGED <<cookie, challenged, confirmed, Good>>
    BY DEF Good, ConfirmSaved, past
  <1>3. cookie' \in 0..MaxTime + SessionTime /\ challenged' \in BOOLEAN
    BY <1>2 DEF CoreInv, CountsInv
  <1>4. QED
    BY <1>1, <1>2, <1>3, UserIsFine, SavesKeepsCore

LEMMA DisableSavedKeepsCore ==
    ASSUME CoreInv, NEW r \in Requests, DisableSaved(r)
    PROVE  CoreInv'
  <1>1. pending[r] # None /\ pending[r].kind # "fetched"
    BY DEF DisableSaved, Is, None
  <1>2. Saves(r, pending[r].user) /\ UNCHANGED <<cookie, challenged, confirmed, Good>>
    BY DEF Good, DisableSaved, past
  <1>3. cookie' \in 0..MaxTime + SessionTime /\ challenged' \in BOOLEAN
    BY <1>2 DEF CoreInv, CountsInv
  <1>4. QED
    BY <1>1, <1>2, <1>3, UserIsFine, SavesKeepsCore

LEMMA TokenSentKeepsCore ==
    ASSUME CoreInv, NEW r \in Requests, TokenSent(r)
    PROVE  CoreInv'
  <1>1. pending[r] # None /\ pending[r].kind # "fetched"
    BY DEF TokenSent, Is, None
  <1>2. Saves(r, pending[r].user) /\ UNCHANGED <<cookie, challenged, confirmed, Good>>
    BY DEF Good, TokenSent, past
  <1>3. cookie' \in 0..MaxTime + SessionTime /\ challenged' \in BOOLEAN
    BY <1>2 DEF CoreInv, CountsInv
  <1>4. QED
    BY <1>1, <1>2, <1>3, UserIsFine, SavesKeepsCore

LEMMA TokenUsedKeepsCore ==
    ASSUME CoreInv, NEW r \in Requests, TokenUsed(r)
    PROVE  CoreInv'
  <1>1. pending[r] # None /\ pending[r].kind # "fetched"
    BY DEF TokenUsed, Is, None
  <1>2. Saves(r, pending[r].user) /\ UNCHANGED <<cookie, challenged, confirmed, Good>>
    BY DEF Good, TokenUsed, past
  <1>3. cookie' \in 0..MaxTime + SessionTime /\ challenged' \in BOOLEAN
    BY <1>2 DEF CoreInv, CountsInv
  <1>4. QED
    BY <1>1, <1>2, <1>3, UserIsFine, SavesKeepsCore

LEMMA PutSavedKeepsCore ==
    ASSUME CoreInv, NEW r \in Requests, PutSaved(r)
    PROVE  CoreInv'
  <1>1. pending[r] # None /\ pending[r].kind # "fetched"
    BY DEF PutSaved, Is, None
  <1>2. Saves(r, pending[r].user) /\ UNCHANGED <<cookie, challenged, confirmed, Good>>
    BY DEF Good, PutSaved, past
  <1>3. cookie' \in 0..MaxTime + SessionTime /\ challenged' \in BOOLEAN
    BY <1>2 DEF CoreInv, CountsInv
  <1>4. QED
    BY <1>1, <1>2, <1>3, UserIsFine, SavesKeepsCore

LEMMA LoginFailsKeepsCore ==
    ASSUME CoreInv, NEW r \in Requests, LoginFails(r)
    PROVE  CoreInv'
  <1>1. pending[r] # None /\ pending[r].kind # "fetched"
    BY DEF LoginFails, Is, None
  <1>2. Saves(r, Failed(pending[r].user)) /\ UNCHANGED <<cookie, challenged, confirmed, Good>>
    BY DEF Good, LoginFails
  <1>3. Fine(Failed(pending[r].user), Hashed, tokens, secrets, Good, calls)
    BY <1>1, UserIsFine, FailedIsFine DEF CoreInv, CountsInv
  <1>4. cookie' \in 0..MaxTime + SessionTime /\ challenged' \in BOOLEAN
    BY <1>2 DEF CoreInv, CountsInv
  <1>5. QED
    BY <1>2, <1>3, <1>4, SavesKeepsCore

LEMMA LoginSucceedsKeepsCore ==
    ASSUME CoreInv, NEW r \in Requests, LoginSucceeds(r)
    PROVE  CoreInv'
  <1> DEFINE user == pending[r].user
             cleared == [user EXCEPT !.fails = 0, !.lock = 0]
  <1>1. Fine(user, Hashed, tokens, secrets, Good, calls)
    BY UserIsFine DEF LoginSucceeds, Is, None
  <1>2. Fine(cleared, Hashed, tokens, secrets, Good, calls)
    <2>1. 0 \in 0..MaxAttempts /\ 0 < MaxAttempts /\ 0 \in 0..MaxTime + LockTime
      BY AccountsConstants
    <2>2. Factor(cleared) = Factor(user)
      BY <1>1 DEF Fine, Factor
    <2>3. QED
      BY <1>1, <2>1, <2>2 DEF Fine
  <1>3. cookie' \in 0..MaxTime + SessionTime /\ challenged' \in BOOLEAN /\ UNCHANGED <<confirmed, Good>>
    <2>1. now + SessionTime \in 0..MaxTime + SessionTime
      BY AccountsConstants DEF CoreInv, CountsInv
    <2>2. UNCHANGED <<confirmed, Good>>
      BY DEF LoginSucceeds, Good
    <2>3. QED
      BY <2>1, <2>2 DEF CoreInv, CountsInv, LoginSucceeds, Session
  <1> HIDE DEF cleared
  <1>4. CASE Saves(r, cleared)
    BY <1>2, <1>3, <1>4, SavesKeepsCore
  <1>5. CASE Over(r) /\ UNCHANGED <<record, now, calls, secrets, tokens, lost>>
    <2>1. Fine(record', Hashed, tokens, secrets, Good, calls)
      BY <1>5 DEF CoreInv, RecordFine
    <2>2. RecordFine' /\ PendingFine'
      BY <1>3, <1>5, <2>1, EndKeeps
    <2>3. QED
      BY <1>3, <1>5, <2>2 DEF CoreInv, CountsInv
  <1>6. QED
    BY <1>4, <1>5 DEF LoginSucceeds, cleared

\* A code is right: the session does not depend on the save.
LEMMA RightCodeKeepsCore ==
    ASSUME CoreInv, NEW r \in Requests, Verified(r) \/ VerifiedUnsaved(r)
    PROVE  CoreInv'
  <1> DEFINE cleared == [pending[r].user EXCEPT !.codeFails = 0, !.codeLock = 0]
  <1>1. RightCode(r)
    BY DEF Verified, VerifiedUnsaved
  <1>2. Fine(pending[r].user, Hashed, tokens, secrets, Good, calls)
    BY <1>1, UserIsFine DEF RightCode, Is, None
  <1>3. 0 \in 0..calls /\ 0 \in 0..MaxTime + LockTime
    BY AccountsConstants DEF CoreInv, CountsInv
  <1>4. Fine(cleared, Hashed, tokens, secrets, Good, calls)
    BY <1>2, <1>3 DEF Fine, Factor
  <1>5. cookie' \in 0..MaxTime + SessionTime /\ challenged' \in BOOLEAN /\ UNCHANGED <<confirmed, Good>>
    <2>1. now + SessionTime \in 0..MaxTime + SessionTime
      BY AccountsConstants DEF CoreInv, CountsInv
    <2>2. QED
      BY <1>1, <2>1 DEF RightCode, Good
  <1>6. Saves(r, cleared) \/ (NotSaved(r) /\ UNCHANGED lost)
    BY DEF Verified, VerifiedUnsaved
  <1> HIDE DEF cleared
  <1>7. QED
    BY <1>4, <1>5, <1>6, SavesKeepsCore, NotSavedKeepsCore DEF CoreInv, CountsInv

LEMMA BadCodeKeepsCore ==
    ASSUME CoreInv, NEW r \in Requests, Refused(r) \/ RefusedUnsaved(r)
    PROVE  CoreInv'
  <1>1. BadCode(r)
    BY DEF Refused, RefusedUnsaved
  <1>2. /\ Fine(pending[r].user, Hashed, tokens, secrets, Good, calls - 1)
        /\ calls - 1 \in Nat
    BY <1>1, UserIsFine DEF BadCode, Is, None
  <1>3. now \in 1..MaxTime /\ calls - 1 + 1 = calls
    BY <1>2 DEF CoreInv, CountsInv
  <1>4. Fine(WrongCode(pending[r].user), Hashed, tokens, secrets, Good, calls - 1 + 1)
    BY <1>2, <1>3, WrongCodeIsFine
  <1>5. Saves(r, WrongCode(pending[r].user)) \/ (NotSaved(r) /\ lost' = TRUE)
    BY DEF Refused, RefusedUnsaved
  <1>6. UNCHANGED <<cookie, challenged, confirmed, Good>>
    BY <1>1 DEF BadCode, Good
  <1>7. cookie' \in 0..MaxTime + SessionTime /\ challenged' \in BOOLEAN
    BY <1>6 DEF CoreInv, CountsInv
  <1>8. QED
    BY <1>3, <1>4, <1>5, <1>6, <1>7, SavesKeepsCore, NotSavedKeepsCore

LEMMA SaveFailsKeepsCore ==
    ASSUME CoreInv, NEW r \in Requests, SaveFails(r)
    PROVE  CoreInv'
  <1>1. NotSaved(r) /\ UNCHANGED <<cookie, challenged, confirmed, Good, lost>>
    BY DEF SaveFails, past, Good
  <1>2. cookie' \in 0..MaxTime + SessionTime /\ challenged' \in BOOLEAN /\ lost' \in BOOLEAN
    BY <1>1 DEF CoreInv, CountsInv
  <1>3. QED
    BY <1>1, <1>2, NotSavedKeepsCore

LEMMA CoreStep == CoreInv /\ [Next]_vars => CoreInv'
  <1> SUFFICES ASSUME CoreInv, [Next]_vars
               PROVE  CoreInv'
    OBVIOUS
  <1>1. CASE Tick
    <2>1. CountsInv'
      BY <1>1, AccountsConstants DEF CoreInv, CountsInv, Tick, past
    <2>2. RecordFine' /\ PendingFine'
      BY <1>1, IdleKeeps DEF Tick, past, Good
    <2>3. QED
      BY <2>1, <2>2 DEF CoreInv
  <1>2. CASE Logout
    <2>1. CountsInv'
      BY <1>2, AccountsConstants DEF CoreInv, CountsInv, Logout, Arrives, past
    <2>2. RecordFine' /\ PendingFine'
      BY <1>2, IdleKeeps DEF Logout, Arrives, past, Good
    <2>3. QED
      BY <2>1, <2>2 DEF CoreInv
  <1>3. CASE NotRequired
    <2>1. CountsInv'
      <3>1. now + SessionTime \in 0..MaxTime + SessionTime
        BY AccountsConstants DEF CoreInv, CountsInv
      <3>2. cookie' = now + SessionTime /\ challenged' = FALSE /\ UNCHANGED <<now, secrets, tokens, confirmed, lost>>
        BY <1>3 DEF NotRequired, past
      <3>3. calls' \in 0..MaxCalls /\ secrets' \in 0..calls' + 1 /\ tokens' \in 0..calls'
        BY <1>3, AccountsConstants DEF CoreInv, CountsInv, NotRequired, Arrives
      <3>4. QED
        BY <3>1, <3>2, <3>3 DEF CoreInv, CountsInv
    <2>2. RecordFine' /\ PendingFine'
      BY <1>3, IdleKeeps DEF NotRequired, Arrives, past, Good
    <2>3. QED
      BY <2>1, <2>2 DEF CoreInv
  <1>4. CASE UNCHANGED vars
    <2>1. RecordFine' /\ PendingFine'
      BY <1>4, IdleKeeps DEF vars, Good
    <2>2. QED
      BY <1>4, <2>1 DEF CoreInv, CountsInv, vars
  <1>5. ASSUME NEW r \in Requests,
               \/ SaveFails(r) \/ \E p \in Passwords : Login(r, p)
               \/ LoginFails(r) \/ LoginSucceeds(r) \/ \E code \in 0..secrets : Verify(r, code)
               \/ Verified(r) \/ VerifiedUnsaved(r) \/ Refused(r) \/ RefusedUnsaved(r)
        PROVE  CoreInv'
    BY <1>5, SaveFailsKeepsCore, LoginKeepsCore, LoginFailsKeepsCore, LoginSucceedsKeepsCore,
       VerifyKeepsCore, RightCodeKeepsCore, BadCodeKeepsCore
  <1>6. ASSUME NEW r \in Requests,
               \/ Enroll(r) \/ EnrollPage(r) \/ EnrollSaved(r)
               \/ Confirm(r) \/ ConfirmSaved(r) \/ Disable(r) \/ DisableSaved(r)
        PROVE  CoreInv'
    BY <1>6, EnrollKeepsCore, EnrollSavedKeepsCore, ConfirmKeepsCore, ConfirmSavedKeepsCore,
       DisableKeepsCore, DisableSavedKeepsCore DEF EnrollPage
  <1>7. ASSUME NEW r \in Requests,
               \/ SendToken(r) \/ TokenSent(r) \/ TokenUsed(r)
               \/ \E t \in 1..tokens : ConfirmEmail(r, t) \/ \E p \in Passwords : UpdatePassword(r, t, p)
        PROVE  CoreInv'
    BY <1>7, SendTokenKeepsCore, TokenSentKeepsCore, TokenUsedKeepsCore, ConfirmEmailKeepsCore,
       UpdatePasswordKeepsCore
  <1>8. ASSUME NEW r \in Requests,
               \/ \E user \in Edits : Fetch(r, user)
               \/ Put(r) \/ PutSaved(r)
        PROVE  CoreInv'
    BY <1>8, FetchKeepsCore, PutKeepsCore, PutSavedKeepsCore
  <1>9. QED
    BY <1>1, <1>2, <1>3, <1>4, <1>5, <1>6, <1>7, <1>8 DEF Next

LEMMA CoreInit == Init => CoreInv
  <1> SUFFICES ASSUME Init
               PROVE  CoreInv
    OBVIOUS
  <1>1. CountsInv
    <2>1. 0 \in 0..MaxTime + SessionTime /\ 1 \in 1..MaxTime /\ 0 \in 0..MaxCalls /\ 0 \in 0..0
      BY AccountsConstants
    <2>2. secrets \in 0..0 + 1 /\ confirmed = 1..secrets /\ 1..secrets \subseteq 0..secrets
      BY DEF Init
    <2>3. cookie = 0 /\ challenged = FALSE /\ now = 1 /\ calls = 0 /\ tokens = 0 /\ lost = FALSE
      BY DEF Init
    <2>4. QED
      BY <2>1, <2>2, <2>3 DEF CountsInv
  <1>2. Hash(Chosen(First)) \in Hashed
    BY AccountsConstants DEF Hash, Chosen, Hashed
  <1>3. RecordFine
    <2>1. PICK b \in BOOLEAN :
            /\ secrets = (IF b THEN 1 ELSE 0) /\ confirmed = 1..secrets
            /\ record = [password |-> Hash(Chosen(First)), fails |-> 0, lock |-> 0, token |-> 0, expiry |-> 0,
                         verified |-> FALSE, mfa |-> b, secret |-> secrets, enabled |-> b, codeFails |-> 0, codeLock |-> 0]
      BY DEF Init
    <2>2. /\ calls = 0 /\ tokens = 0 /\ secrets \in Nat
          /\ 0 \in 0..MaxAttempts /\ 0 < MaxAttempts /\ 0 \in 0..MaxTime + LockTime /\ 0 \in 0..MaxTime + TokenLife
      BY <2>1, AccountsConstants DEF Init
    <2>3. Factor(record) \in Good
      <3>1. CASE b = TRUE
        <4>1. secrets = 1 /\ confirmed = 1..1 /\ record.mfa = TRUE /\ record.enabled = TRUE /\ record.secret = 1
          BY <2>1, <3>1
        <4>2. 1 \in confirmed
          BY <4>1
        <4>3. <<TRUE, TRUE, 1>> \in Good
          BY <4>2 DEF Good
        <4>4. QED
          BY <4>1, <4>3 DEF Factor
      <3>2. CASE b = FALSE
        <4>1. record.mfa = FALSE /\ record.enabled = FALSE /\ record.secret = 0
          BY <2>1, <3>2
        <4>2. <<FALSE, FALSE, 0>> \in Good
          BY DEF Good
        <4>3. QED
          BY <4>1, <4>2 DEF Factor
      <3>3. QED
        BY <3>1, <3>2
    <2>4. QED
      BY <1>2, <2>1, <2>2, <2>3 DEF RecordFine, Fine
  <1>4. PendingFine
    BY DEF Init, PendingFine
  <1>5. QED
    BY <1>1, <1>3, <1>4 DEF CoreInv

\* What CoreInv says of copies includes the types.
LEMMA CoreTypes == CoreInv => TypeOK /\ EnabledIsConfirmed
  <1> SUFFICES ASSUME CoreInv
               PROVE  TypeOK /\ EnabledIsConfirmed
    OBVIOUS
  <1>1. /\ calls \in Nat /\ secrets \in 0..MaxCalls + 1 /\ tokens \in 0..MaxCalls
        /\ 0..calls \subseteq 0..MaxCalls /\ 0..calls - 1 \subseteq 0..MaxCalls
    BY AccountsConstants DEF CoreInv, CountsInv
  <1>2. \A u, n : Fine(u, Hashed, tokens, secrets, Good, n) /\ 0..n \subseteq 0..MaxCalls => u \in Records
    BY DEF Fine, Records, Hashed
  <1>3. record \in Records
    BY <1>1, <1>2 DEF CoreInv, RecordFine
  <1>4. \A r \in Requests : pending[r] # None => pending[r].read \in Records
    BY <1>1, <1>2 DEF CoreInv, PendingFine, Entry
  <1>5. EnabledIsConfirmed
    <2>1. Factor(record) \in Good
      BY DEF CoreInv, RecordFine, Fine
    <2>2. CASE \E s \in Nat : Factor(record) = <<FALSE, FALSE, s>>
      BY <2>2 DEF Factor, EnabledIsConfirmed
    <2>3. CASE \E s \in confirmed : Factor(record) = <<TRUE, TRUE, s>>
      BY <2>3 DEF Factor, EnabledIsConfirmed
    <2>4. QED
      BY <2>1, <2>2, <2>3 DEF Good, EnabledIsConfirmed
  <1>6. QED
    BY <1>1, <1>3, <1>4, <1>5 DEF CoreInv, CountsInv, TypeOK
-----------------------------------------------------------------------------
(* The lockout: what the user is told is counted *)

\* A step that tells the user nothing, and saves nothing.
LEMMA UntoldKeepsLockout ==
    ASSUME LockoutInv, UNCHANGED <<record, wrong, wrongCodes>>, lost => lost'
    PROVE  LockoutInv'
  BY DEF LockoutInv

\* A save undoes no other only if what it read is still there; and what a client puts has the
\* counts and the expiry it read.
LEMMA SavedWhatWasRead ==
    ASSUME NEW r, NEW user, Saves(r, user), ~lost'
    PROVE  /\ ~lost /\ record = pending[r].read
           /\ pending[r].kind = "put" =>
                /\ user.fails = pending[r].read.fails /\ user.lock = pending[r].read.lock
                /\ user.codeFails = pending[r].read.codeFails /\ user.expiry = pending[r].read.expiry
  BY DEF Saves, Is, Counts

\* A save that changes neither count tells the user nothing.
LEMMA UncountedKeepsLockout ==
    ASSUME CoreInv, LockoutInv, NEW r \in Requests, pending[r] # None,
           pending[r].kind \notin {"enroll", "confirm", "disable", "fetched"},
           Saves(r, pending[r].user), UNCHANGED <<wrong, wrongCodes>>
    PROVE  LockoutInv'
  <1>1. ASSUME ~lost'
        PROVE  /\ pending[r].user.fails = pending[r].read.fails /\ pending[r].user.lock = pending[r].read.lock
               /\ pending[r].user.codeFails = pending[r].read.codeFails
    <2>1. Entry(pending[r], tokens, secrets, Good, calls - 1)
      BY UserIsFine
    <2>2. CASE pending[r].kind = "put"
      BY <1>1, <2>2, SavedWhatWasRead
    <2>3. CASE pending[r].kind # "put"
      BY <2>1, <2>3 DEF Entry
    <2>4. QED
      BY <2>2, <2>3
  <1>2. record' = pending[r].user
    BY DEF Saves
  <1>3. QED
    BY <1>1, <1>2, SavedWhatWasRead DEF LockoutInv

\* One that sets the count of codes to zero forgets what the user was told of codes.
LEMMA EnrolmentKeepsLockout ==
    ASSUME CoreInv, LockoutInv, NEW r \in Requests, pending[r] # None, pending[r].kind \in {"enroll", "confirm", "disable"},
           Saves(r, pending[r].user), UNCHANGED wrong, wrongCodes' = 0
    PROVE  LockoutInv'
  <1>1. /\ pending[r].user.fails = pending[r].read.fails /\ pending[r].user.lock = pending[r].read.lock
        /\ pending[r].user.codeFails \in 0..calls
    BY UserIsFine DEF Entry, Fine
  <1>2. record' = pending[r].user
    BY DEF Saves
  <1>3. calls \in Nat /\ 0 < MaxCodes
    BY AccountsConstants DEF CoreInv, CountsInv
  <1>4. QED
    BY <1>1, <1>2, <1>3, SavedWhatWasRead DEF LockoutInv

\* A refused password is counted where it is told, or the account is locked.
LEMMA LoginFailsKeepsLockout ==
    ASSUME CoreInv, LockoutInv, NEW r \in Requests, LoginFails(r)
    PROVE  LockoutInv'
  <1> DEFINE user == Failed(pending[r].user)
  <1>1. /\ Entry(pending[r], tokens, secrets, Good, calls - 1) /\ pending[r].kind = "login"
        /\ Fine(pending[r].user, Hashed, tokens, secrets, Good, calls)
    BY UserIsFine DEF LoginFails, Is, None
  <1>2. pending[r].read = pending[r].user
    BY <1>1 DEF Entry
  <1>3. /\ user.codeFails = pending[r].user.codeFails
        /\ pending[r].user.lock = 0 /\ user.lock = 0 => user.fails = pending[r].user.fails + 1
        /\ pending[r].user.lock # 0 /\ user.lock = 0 => user.fails = 1
    BY <1>1, FailedIsFine DEF CoreInv, CountsInv
  <1>4. Saves(r, user) /\ wrong' = (IF user.lock # 0 THEN 0 ELSE wrong + 1) /\ UNCHANGED wrongCodes
    BY DEF LoginFails
  <1> HIDE DEF user
  <1>5. record' = user
    BY <1>4 DEF Saves
  <1>6. wrong' \in Nat
    BY <1>4 DEF LockoutInv
  <1>7. ASSUME ~lost'
        PROVE  /\ wrong' <= IF record'.lock # 0 THEN 0 ELSE record'.fails
               /\ wrongCodes' <= record'.codeFails /\ wrongCodes' < MaxCodes
    <2>1. ~lost /\ record = pending[r].user
      BY <1>2, <1>4, <1>7, SavedWhatWasRead
    <2>2. pending[r].user.fails \in Nat
      BY <1>1, AccountsConstants DEF Fine
    <2>3. QED
      BY <1>3, <1>4, <1>5, <2>1, <2>2 DEF LockoutInv
  <1>8. QED
    BY <1>4, <1>6, <1>7 DEF LockoutInv

LEMMA LoginSucceedsKeepsLockout ==
    ASSUME CoreInv, LockoutInv, NEW r \in Requests, LoginSucceeds(r)
    PROVE  LockoutInv'
  <1> DEFINE user == pending[r].user
             cleared == [user EXCEPT !.fails = 0, !.lock = 0]
  <1>1. /\ Entry(pending[r], tokens, secrets, Good, calls - 1) /\ pending[r].kind = "login"
        /\ Fine(user, Hashed, tokens, secrets, Good, calls)
    BY UserIsFine DEF LoginSucceeds, Is, None
  <1>2. pending[r].read = user
    BY <1>1 DEF Entry
  <1>3. cleared.fails = 0 /\ cleared.lock = 0 /\ cleared.codeFails = user.codeFails
    BY <1>1 DEF Fine
  <1>4. record.fails \in Nat
    BY AccountsConstants DEF CoreInv, RecordFine, Fine
  <1>5. wrong' = 0 /\ UNCHANGED wrongCodes
    BY DEF LoginSucceeds
  <1> HIDE DEF cleared
  <1>6. CASE Saves(r, cleared)
    <2>1. record' = cleared
      BY <1>6 DEF Saves
    <2>2. ~lost' => ~lost /\ record = user
      BY <1>2, <1>6, SavedWhatWasRead
    <2>3. QED
      BY <1>3, <1>5, <2>1, <2>2 DEF LockoutInv
  <1>7. CASE UNCHANGED <<record, lost>>
    BY <1>4, <1>5, <1>7 DEF LockoutInv
  <1>8. QED
    BY <1>6, <1>7 DEF LoginSucceeds, cleared

LEMMA VerifiedKeepsLockout ==
    ASSUME CoreInv, LockoutInv, NEW r \in Requests, Verified(r) \/ VerifiedUnsaved(r)
    PROVE  LockoutInv'
  <1> DEFINE cleared == [pending[r].user EXCEPT !.codeFails = 0, !.codeLock = 0]
  <1>1. /\ Entry(pending[r], tokens, secrets, Good, calls - 1) /\ pending[r].kind = "code"
        /\ Fine(pending[r].user, Hashed, tokens, secrets, Good, calls)
    BY UserIsFine DEF Verified, VerifiedUnsaved, RightCode, Is, None
  <1>2. pending[r].read = pending[r].user
    BY <1>1 DEF Entry
  <1>3. cleared.fails = pending[r].user.fails /\ cleared.lock = pending[r].user.lock /\ cleared.codeFails = 0
    BY <1>1 DEF Fine
  <1>4. wrongCodes' = 0 /\ UNCHANGED wrong
    BY DEF Verified, VerifiedUnsaved, RightCode
  <1>5. Saves(r, cleared) \/ UNCHANGED <<record, lost>>
    BY DEF Verified, VerifiedUnsaved, NotSaved
  <1> HIDE DEF cleared
  <1>6. CASE Saves(r, cleared)
    <2>1. record' = cleared
      BY <1>6 DEF Saves
    <2>2. QED
      BY <1>2, <1>3, <1>4, <1>6, <2>1, SavedWhatWasRead, AccountsConstants DEF LockoutInv
  <1>7. CASE UNCHANGED <<record, lost>>
    <2>1. record.codeFails \in 0..calls /\ calls \in Nat
      BY AccountsConstants DEF CoreInv, CountsInv, RecordFine, Fine
    <2>2. QED
      BY <1>4, <1>7, <2>1, AccountsConstants DEF LockoutInv
  <1>8. QED
    BY <1>5, <1>6, <1>7

\* A refused code is counted where it is told, or locks the account: a lock that has passed
\* is no longer one, and the count is still there.
LEMMA RefusedKeepsLockout ==
    ASSUME CoreInv, LockoutInv, NEW r \in Requests, Refused(r) \/ RefusedUnsaved(r)
    PROVE  LockoutInv'
  <1> DEFINE user == WrongCode(pending[r].user)
  <1>1. /\ Entry(pending[r], tokens, secrets, Good, calls - 1) /\ pending[r].kind = "code"
        /\ Fine(pending[r].user, Hashed, tokens, secrets, Good, calls - 1) /\ calls - 1 \in Nat
    BY UserIsFine DEF Refused, RefusedUnsaved, BadCode, Is, None
  <1>2. pending[r].read = pending[r].user
    BY <1>1 DEF Entry
  <1>3. /\ user.fails = pending[r].user.fails /\ user.lock = pending[r].user.lock
        /\ user.codeFails = pending[r].user.codeFails + 1
        /\ user.codeLock <= now => pending[r].user.codeFails + 1 < MaxCodes
        /\ Fine(user, Hashed, tokens, secrets, Good, calls - 1 + 1)
    BY <1>1, WrongCodeIsFine DEF CoreInv, CountsInv
  <1>4. wrongCodes' = (IF user.codeLock > now THEN 0 ELSE wrongCodes + 1) /\ UNCHANGED wrong
    BY DEF Refused, RefusedUnsaved, BadCode
  <1>10. lost' \/ Saves(r, user)
    BY DEF Refused, RefusedUnsaved
  <1>5. user.codeLock \in Nat /\ now \in Nat /\ pending[r].user.codeFails \in Nat
    BY <1>1, <1>3, AccountsConstants DEF Fine, CoreInv, CountsInv
  <1> HIDE DEF user
  <1>7. wrongCodes' \in Nat /\ wrong' \in Nat
    BY <1>4 DEF LockoutInv
  <1>8. ASSUME ~lost'
        PROVE  /\ wrong' <= IF record'.lock # 0 THEN 0 ELSE record'.fails
               /\ wrongCodes' <= record'.codeFails /\ wrongCodes' < MaxCodes
    <2>1. ~lost /\ record = pending[r].user
      BY <1>2, <1>8, <1>10, SavedWhatWasRead
    <2>2. record' = user
      BY <1>8, <1>10 DEF Saves
    <2>3. QED
      BY <1>3, <1>4, <1>5, <2>1, <2>2, AccountsConstants DEF LockoutInv
  <1>9. QED
    BY <1>7, <1>8 DEF LockoutInv

LEMMA LockoutStep == CoreInv /\ LockoutInv /\ [Next]_vars => LockoutInv'
  <1> SUFFICES ASSUME CoreInv, LockoutInv, [Next]_vars
               PROVE  LockoutInv'
    OBVIOUS
  <1>1. CASE Tick \/ Logout \/ NotRequired \/ UNCHANGED vars
    <2>1. UNCHANGED <<record, wrong, wrongCodes, lost>>
      BY <1>1 DEF Tick, Logout, NotRequired, vars, past
    <2>2. QED
      BY <2>1, UntoldKeepsLockout
  <1>2. ASSUME NEW r \in Requests, SaveFails(r)
        PROVE  LockoutInv'
    BY <1>2, UntoldKeepsLockout DEF SaveFails, NotSaved, past
  <1>3. ASSUME NEW r \in Requests,
               \/ \E p \in Passwords : Login(r, p)
               \/ \E code \in 0..secrets : Verify(r, code)
               \/ Enroll(r) \/ EnrollPage(r) \/ Confirm(r) \/ Disable(r) \/ SendToken(r)
               \/ \E t \in 1..tokens : ConfirmEmail(r, t) \/ \E p \in Passwords : UpdatePassword(r, t, p)
               \/ \E user \in Edits : Fetch(r, user)
               \/ Put(r)
        PROVE  LockoutInv'
    <2>1. UNCHANGED <<record, wrong, wrongCodes, lost>>
      BY <1>3 DEF Login, Verify, Enroll, EnrollPage, Confirm, Disable, SendToken, ConfirmEmail,
                  UpdatePassword, UseToken, Fetch, Put, Reads, past
    <2>2. QED
      BY <2>1, UntoldKeepsLockout
  <1>4. ASSUME NEW r \in Requests, LoginFails(r) \/ LoginSucceeds(r) \/ Verified(r) \/ VerifiedUnsaved(r) \/ Refused(r) \/ RefusedUnsaved(r)
        PROVE  LockoutInv'
    BY <1>4, LoginFailsKeepsLockout, LoginSucceedsKeepsLockout, VerifiedKeepsLockout, RefusedKeepsLockout
  <1>5. ASSUME NEW r \in Requests, EnrollSaved(r) \/ ConfirmSaved(r) \/ DisableSaved(r)
        PROVE  LockoutInv'
    BY <1>5, EnrolmentKeepsLockout DEF EnrollSaved, ConfirmSaved, DisableSaved, Is, None
  <1>6. ASSUME NEW r \in Requests, TokenSent(r) \/ TokenUsed(r) \/ PutSaved(r)
        PROVE  LockoutInv'
    BY <1>6, UncountedKeepsLockout DEF TokenSent, TokenUsed, PutSaved, Is, None, past
  <1>7. QED
    BY <1>1, <1>2, <1>3, <1>4, <1>5, <1>6 DEF Next

-----------------------------------------------------------------------------
(* The tokens: what may be used has not been *)

\* A step that leaves the requests and the tokens alone.
LEMMA IdleKeepsTokens ==
    ASSUME TokensInv, UNCHANGED <<record, pending, tokens, uses, lost>>
    PROVE  TokensInv'
  BY DEF TokensInv, Fresh, Is

\* A request that only reads has no token but those there were.
LEMMA ReadsKeepsTokens ==
    ASSUME CoreInv, TokensInv, NEW r \in Requests, NEW e, pending' = [pending EXCEPT ![r] = e],
           UNCHANGED <<record, tokens, uses, lost>>,
           e.kind # "send", e.read = record, e.user.token = record.token, pending[r] = None
    PROVE  TokensInv'
  <1>1. ASSUME NEW q \in Requests
        PROVE  pending'[q] = IF q = r THEN e ELSE pending[q]
    BY DEF CoreInv, PendingFine
  <1>2. ASSUME NEW q \in Requests
        PROVE  Fresh(q)'
    BY <1>1 DEF TokensInv, Fresh, Is
  <1>3. QED
    BY <1>2 DEF TokensInv

\* A token is made: it is one that was never used, and that nobody else has.
LEMMA SendTokenKeepsTokens ==
    ASSUME CoreInv, TokensInv, NEW r \in Requests, SendToken(r)
    PROVE  TokensInv'
  <1> DEFINE T == tokens + 1
             user == [record EXCEPT !.token = T, !.expiry = now + TokenLife]
             e == [kind |-> "send", read |-> record, arg |-> T, user |-> user]
  <1>1. T \in 1..MaxCalls /\ T > tokens /\ tokens \in Nat
    BY AccountsConstants DEF CoreInv, CountsInv, SendToken, Arrives
  <1>2. /\ tokens' = T /\ pending' = [pending EXCEPT ![r] = e] /\ pending[r] = None
        /\ UNCHANGED <<record, uses, lost>>
    BY DEF SendToken, past
  <1>3. record.token \in 0..tokens /\ e.user.token = T /\ e.read = record /\ e.arg = T
    BY DEF CoreInv, RecordFine, Fine
  <1>4. uses[T] = 0
    BY <1>1 DEF TokensInv
  <1> HIDE DEF e, T
  <1>5. ASSUME NEW q \in Requests
        PROVE  pending'[q] = IF q = r THEN e ELSE pending[q]
    BY <1>2 DEF CoreInv, PendingFine
  <1>6. ASSUME NEW q \in Requests, pending[q] # None
        PROVE  /\ pending[q].read.token \in 0..tokens /\ pending[q].user.token \in 0..tokens
               /\ pending[q].kind = "send" => pending[q].arg \in 1..tokens
    BY <1>6, UserIsFine DEF Entry, Fine
  <1>7. Fresh(r)'
    <2>1. pending'[r] = e
      BY <1>5
    <2>2. ASSUME NEW q \in Requests, pending'[q] # None
          PROVE  pending'[q].read.token # T /\ (q # r => pending'[q].user.token # T)
      BY <1>1, <1>3, <1>5, <1>6, <2>2
    <2>3. uses'[T] = 0 /\ record'.token # T
      BY <1>1, <1>2, <1>3, <1>4
    <2>4. QED
      BY <1>3, <2>1, <2>2, <2>3 DEF Fresh
  <1>8. ASSUME NEW p \in Requests, p # r
        PROVE  Fresh(p)'
    <2> SUFFICES ASSUME Is(p, "send")'
                 PROVE  /\ uses'[pending'[p].arg] = 0 /\ record'.token # pending'[p].arg
                        /\ \A q \in Requests : pending'[q] # None =>
                              /\ pending'[q].read.token # pending'[p].arg
                              /\ q # p => pending'[q].user.token # pending'[p].arg
      BY DEF Fresh
    <2>1. pending'[p] = pending[p] /\ pending[p].kind = "send" /\ pending[p] # None
      BY <1>5, <1>8 DEF Is, None
    <2>2. /\ uses[pending[p].arg] = 0 /\ record.token # pending[p].arg
          /\ \A q \in Requests : pending[q] # None =>
                /\ pending[q].read.token # pending[p].arg
                /\ q # p => pending[q].user.token # pending[p].arg
      BY <2>1 DEF TokensInv, Fresh, Is
    <2>3. pending[p].arg # T
      BY <1>1, <1>6, <2>1
    <2>4. QED
      BY <1>2, <1>3, <1>5, <2>1, <2>2, <2>3
  <1>9. \A t \in 1..MaxCalls : t > tokens' => uses'[t] = 0
    BY <1>1, <1>2 DEF TokensInv
  <1>10. QED
    BY <1>2, <1>7, <1>8, <1>9 DEF TokensInv

\* A request that ends without saving.
LEMMA OverKeepsTokens ==
    ASSUME CoreInv, TokensInv, NEW r \in Requests, Over(r), UNCHANGED <<record, tokens, uses>>, lost => lost'
    PROVE  TokensInv'
  <1>1. ASSUME NEW q \in Requests
        PROVE  pending'[q] = IF q = r THEN None ELSE pending[q]
    BY DEF CoreInv, PendingFine, Over
  <1>2. ASSUME NEW q \in Requests
        PROVE  Fresh(q)'
    BY <1>1 DEF TokensInv, Fresh, Is, None
  <1>3. QED
    BY <1>2 DEF TokensInv

\* A save brings no token that is being sent by another.
LEMMA SavesKeepsFresh ==
    ASSUME CoreInv, TokensInv, NEW r \in Requests, NEW user, pending[r] # None, Saves(r, user),
           user.token = pending[r].user.token,
           \A q \in Requests : q # r /\ Is(q, "send") => uses'[pending[q].arg] = uses[pending[q].arg]
    PROVE  \A q \in Requests : Fresh(q)'
  <1>1. ASSUME NEW q \in Requests
        PROVE  pending'[q] = IF q = r THEN None ELSE pending[q]
    BY DEF CoreInv, PendingFine, Saves, Over
  <1>2. record' = user
    BY DEF Saves
  <1>3. ASSUME NEW p \in Requests, Is(p, "send")'
        PROVE  /\ uses'[pending'[p].arg] = 0 /\ record'.token # pending'[p].arg
               /\ \A q \in Requests : pending'[q] # None =>
                     /\ pending'[q].read.token # pending'[p].arg
                     /\ q # p => pending'[q].user.token # pending'[p].arg
    <2>1. p # r /\ pending'[p] = pending[p] /\ Is(p, "send")
      BY <1>1, <1>3 DEF Is, None
    <2>2. /\ uses[pending[p].arg] = 0
          /\ \A q \in Requests : pending[q] # None =>
                /\ pending[q].read.token # pending[p].arg
                /\ q # p => pending[q].user.token # pending[p].arg
      BY <2>1 DEF TokensInv, Fresh
    <2>3. QED
      BY <1>1, <1>2, <2>1, <2>2
  <1>4. QED
    BY <1>3 DEF Fresh

\* A save uses no token: it sends a new one, or leaves the one there was.
LEMMA SavesKeepsTokens ==
    ASSUME CoreInv, TokensInv, NEW r \in Requests, NEW user, pending[r] # None, Saves(r, user), UNCHANGED uses,
           pending[r].kind \notin {"use", "fetched"},
           user.token = pending[r].user.token, user.expiry = pending[r].user.expiry
    PROVE  TokensInv'
  <1>1. \A q \in Requests : Fresh(q)'
    BY SavesKeepsFresh
  <1>2. record' = user /\ UNCHANGED tokens
    BY DEF Saves
  <1>3. Entry(pending[r], tokens, secrets, Good, calls - 1)
    BY UserIsFine
  <1>4. ASSUME ~lost', record'.token > 0, record'.expiry # 0
        PROVE  uses[record'.token] = 0
    <2>1. ~lost /\ record = pending[r].read
      BY <1>4, SavedWhatWasRead
    <2>2. CASE pending[r].kind = "send"
      <3>1. record'.token = pending[r].arg
        BY <1>2, <1>3, <2>2 DEF Entry
      <3>2. QED
        BY <2>2, <3>1 DEF TokensInv, Fresh, Is
    <2>3. CASE pending[r].kind # "send"
      <3>1. record'.token = record.token
        BY <1>2, <1>3, <2>1, <2>3 DEF Entry
      <3>3. record'.expiry = record.expiry
        <4>1. CASE pending[r].kind = "put"
          BY <1>2, <1>4, <2>1, <4>1, SavedWhatWasRead
        <4>2. CASE pending[r].kind # "put"
          BY <1>2, <1>3, <2>1, <2>3, <4>2 DEF Entry
        <4>3. QED
          BY <4>1, <4>2
      <3>2. QED
        BY <1>4, <2>1, <3>1, <3>3 DEF TokensInv
    <2>4. QED
      BY <2>2, <2>3
  <1>5. ~lost' => ~lost
    BY SavedWhatWasRead
  <1>6. QED
    BY <1>1, <1>2, <1>4, <1>5 DEF TokensInv

\* A token that is used loses its expiry with the save that counts its use.
LEMMA TokenUsedKeepsTokens ==
    ASSUME CoreInv, TokensInv, NEW r \in Requests, TokenUsed(r)
    PROVE  TokensInv'
  <1> DEFINE T == pending[r].arg
             user == pending[r].user
  <1>1. pending[r] # None /\ pending[r].kind = "use" /\ Saves(r, user) /\ uses' = [uses EXCEPT ![T] = @ + 1]
    BY DEF TokenUsed, Is, None
  <1>2. /\ T \in 1..tokens /\ T = pending[r].read.token /\ user.token = T
        /\ pending[r].read.expiry # 0 /\ user.expiry = 0
    BY <1>1, UserIsFine DEF Entry
  <1>3. tokens \in Nat /\ tokens <= MaxCalls
    BY AccountsConstants DEF CoreInv, CountsInv
  <1>4. T \in 1..MaxCalls /\ T > 0
    BY <1>2, <1>3, AccountsConstants
  <1>5. record' = user /\ UNCHANGED tokens
    BY <1>1 DEF Saves
  <1> HIDE DEF T, user
  <1>6. uses' \in [1..MaxCalls -> Nat]
    BY <1>1, <1>4 DEF TokensInv
  <1>7. \A t \in 1..MaxCalls : t # T => uses'[t] = uses[t]
    BY <1>1, <1>4 DEF TokensInv
  <1>8. ASSUME NEW q \in Requests, q # r, Is(q, "send")
        PROVE  uses'[pending[q].arg] = uses[pending[q].arg]
    <2>1. T # pending[q].arg
      BY <1>1, <1>2, <1>8 DEF TokensInv, Fresh
    <2>2. pending[q].arg \in 1..MaxCalls
      <3>1. pending[q].arg \in 1..tokens
        <4>1. pending[q] # None /\ pending[q].kind = "send"
          BY <1>8 DEF Is, None
        <4>2. QED
          BY <4>1, UserIsFine DEF Entry
      <3>2. QED
        BY <3>1, <1>3, AccountsConstants
    <2>3. QED
      BY <1>7, <2>1, <2>2
  <1>9. \A q \in Requests : Fresh(q)'
    BY <1>1, <1>8, SavesKeepsFresh DEF user
  <1>10. \A t \in 1..MaxCalls : t > tokens' => uses'[t] = 0
    BY <1>2, <1>3, <1>5, <1>7 DEF TokensInv
  <1>11. ASSUME ~lost'
         PROVE  \A t \in 1..MaxCalls : uses'[t] <= 1
    <2>1. ~lost /\ record = pending[r].read
      BY <1>1, <1>11, SavedWhatWasRead
    <2>2. uses[T] = 0
      BY <1>2, <1>4, <2>1 DEF TokensInv
    <2>3. uses'[T] = 1
      BY <1>1, <1>4, <2>2 DEF TokensInv
    <2>4. QED
      BY <1>7, <2>1, <2>3 DEF TokensInv
  <1>12. record'.expiry = 0
    BY <1>2, <1>5
  <1>13. QED
    BY <1>6, <1>9, <1>10, <1>11, <1>12 DEF TokensInv

\* The filter looks at the password alone.
LEMMA PutKeepsTokens ==
    ASSUME CoreInv, TokensInv, NEW r \in Requests, Put(r)
    PROVE  TokensInv'
  <1> DEFINE password == Filtered(pending[r].user, record)
  <1>1. pending[r] # None /\ pending[r].kind = "fetched"
    BY DEF Put, Is, None
  <1>2. Entry(pending[r], tokens, secrets, Good, calls - 1)
    BY <1>1, UserIsFine
  <1>3. pending' = [pending EXCEPT ![r].kind = "put", ![r].user.password = password]
    BY DEF Put
  <1>4. UNCHANGED <<record, tokens, uses, lost>>
    BY DEF Put, past
  <1> HIDE DEF password
  <1>5. ASSUME NEW q \in Requests, q # r
        PROVE  pending'[q] = pending[q]
    BY <1>3, <1>5 DEF CoreInv, PendingFine
  <1>6. pending'[r] = [[pending[r] EXCEPT !.kind = "put"] EXCEPT !.user = [@ EXCEPT !.password = password]]
    BY <1>3 DEF CoreInv, PendingFine
  <1>7. pending'[r].kind = "put" /\ pending'[r].read = pending[r].read /\ pending'[r].user.token = pending[r].user.token
    BY <1>2, <1>6 DEF Entry, Fine
  <1>8. ASSUME NEW q \in Requests
        PROVE  Fresh(q)'
    BY <1>1, <1>4, <1>5, <1>7 DEF TokensInv, Fresh, Is
  <1>9. QED
    BY <1>4, <1>8 DEF TokensInv

LEMMA TokensStep == CoreInv /\ TokensInv /\ [Next]_vars => TokensInv'
  <1> SUFFICES ASSUME CoreInv, TokensInv, [Next]_vars
               PROVE  TokensInv'
    OBVIOUS
  <1>1. CASE Tick \/ Logout \/ NotRequired \/ UNCHANGED vars
    <2>1. UNCHANGED <<record, pending, tokens, uses, lost>>
      BY <1>1 DEF Tick, Logout, NotRequired, vars, past
    <2>2. QED
      BY <2>1, IdleKeepsTokens
  <1>2. ASSUME NEW r \in Requests, SaveFails(r)
        PROVE  TokensInv'
    BY <1>2, OverKeepsTokens DEF SaveFails, NotSaved, past
  <1>3. ASSUME NEW r \in Requests, NEW kind, NEW user, NEW arg, Reads(r, kind, user, arg), UNCHANGED uses,
               kind # "send", user.token = record.token
        PROVE  TokensInv'
    <2> DEFINE e == [kind |-> kind, read |-> record, user |-> user, arg |-> arg]
    <2>1. pending' = [pending EXCEPT ![r] = e] /\ pending[r] = None /\ UNCHANGED <<record, tokens, uses, lost>>
      BY <1>3 DEF Reads
    <2>2. e.kind # "send" /\ e.read = record /\ e.user.token = record.token
      BY <1>3
    <2> HIDE DEF e
    <2>3. QED
      BY <2>1, <2>2, ReadsKeepsTokens
  <1>4. record = [password |-> record.password, fails |-> record.fails, lock |-> record.lock, token |-> record.token,
                  expiry |-> record.expiry, verified |-> record.verified, mfa |-> record.mfa, secret |-> record.secret,
                  enabled |-> record.enabled, codeFails |-> record.codeFails, codeLock |-> record.codeLock]
    BY DEF CoreInv, RecordFine, Fine
  <1>5. ASSUME NEW r \in Requests, NEW p \in Passwords, Login(r, p)
        PROVE  TokensInv'
    BY <1>5, <1>3 DEF Login, past
  <1>6. ASSUME NEW r \in Requests, NEW code \in 0..secrets, Verify(r, code)
        PROVE  TokensInv'
    BY <1>6, <1>3 DEF Verify, past
  <1>7. ASSUME NEW r \in Requests, Enroll(r)
        PROVE  TokensInv'
    <2> DEFINE e == [kind |-> "enroll", read |-> record, user |-> Enrolled(record), arg |-> 0]
    <2>1. pending' = [pending EXCEPT ![r] = e] /\ pending[r] = None /\ UNCHANGED <<record, tokens, uses, lost>>
      BY <1>7 DEF Enroll, past
    <2>2. Enrolled(record).token = record.token
      BY <1>4 DEF Enrolled
    <2>3. e.kind # "send" /\ e.read = record /\ e.user.token = record.token
      BY <2>2
    <2> HIDE DEF e
    <2>4. QED
      BY <2>1, <2>3, ReadsKeepsTokens
  <1>8. ASSUME NEW r \in Requests, Confirm(r)
        PROVE  TokensInv'
    <2> DEFINE user == [record EXCEPT !.enabled = TRUE, !.codeFails = 0, !.codeLock = 0, !.mfa = TRUE]
    <2>1. user.token = record.token
      BY <1>4
    <2>2. Reads(r, "confirm", user, record.secret) /\ UNCHANGED uses
      BY <1>8 DEF Confirm
    <2> HIDE DEF user
    <2>3. QED
      BY <2>1, <2>2, <1>3
  <1>9. ASSUME NEW r \in Requests, Disable(r)
        PROVE  TokensInv'
    <2> DEFINE user == [record EXCEPT !.secret = 0, !.enabled = FALSE, !.codeFails = 0, !.codeLock = 0, !.mfa = FALSE]
    <2>1. user.token = record.token
      BY <1>4
    <2>2. Reads(r, "disable", user, record.secret) /\ UNCHANGED uses
      BY <1>9 DEF Disable, past
    <2> HIDE DEF user
    <2>3. QED
      BY <2>1, <2>2, <1>3
  <1>10. ASSUME NEW r \in Requests, NEW user \in Edits, Fetch(r, user)
         PROVE  TokensInv'
    <2>1. user.token = record.token
      BY EditsAreFine
    <2>2. Reads(r, "fetched", user, 0) /\ UNCHANGED uses
      BY <1>10 DEF Fetch, past
    <2>3. QED
      BY <2>1, <2>2, <1>3
  <1>11. ASSUME NEW r \in Requests, NEW token, NEW change, UseToken(r, token, change),
                [change EXCEPT !.expiry = 0].token = record.token
         PROVE  TokensInv'
    BY <1>11, <1>3 DEF UseToken, past
  <1>12. ASSUME NEW r \in Requests, NEW token, NEW p \in Passwords,
                ConfirmEmail(r, token) \/ UpdatePassword(r, token, p)
         PROVE  TokensInv'
    <2>1. [[record EXCEPT !.verified = TRUE] EXCEPT !.expiry = 0].token = record.token
      BY <1>4
    <2>2. [[record EXCEPT !.password = Hash(Chosen(p))] EXCEPT !.expiry = 0].token = record.token
      BY <1>4
    <2>3. QED
      BY <1>11, <1>12, <2>1, <2>2 DEF ConfirmEmail, UpdatePassword
  <1>13. ASSUME NEW r \in Requests, LoginFails(r)
         PROVE  TokensInv'
    <2>1. pending[r] # None /\ pending[r].kind = "login" /\ Saves(r, Failed(pending[r].user)) /\ UNCHANGED uses
      BY <1>13 DEF LoginFails, Is, None
    <2>2. /\ Failed(pending[r].user).token = pending[r].user.token
          /\ Failed(pending[r].user).expiry = pending[r].user.expiry
      BY <2>1, UserIsFine, FailedIsFine DEF CoreInv, CountsInv
    <2>3. QED
      BY <2>1, <2>2, SavesKeepsTokens
  <1>14. ASSUME NEW r \in Requests, LoginSucceeds(r)
         PROVE  TokensInv'
    <2> DEFINE cleared == [pending[r].user EXCEPT !.fails = 0, !.lock = 0]
    <2>1. pending[r] # None /\ pending[r].kind = "login" /\ UNCHANGED uses
      BY <1>14 DEF LoginSucceeds, Is, None
    <2>2. cleared.token = pending[r].user.token /\ cleared.expiry = pending[r].user.expiry
      BY <2>1, UserIsFine DEF Fine
    <2>3. Saves(r, cleared) \/ (Over(r) /\ UNCHANGED <<record, tokens, lost>>)
      BY <1>14 DEF LoginSucceeds
    <2> HIDE DEF cleared
    <2>4. QED
      BY <2>1, <2>2, <2>3, SavesKeepsTokens, OverKeepsTokens
  <1>15. ASSUME NEW r \in Requests, Verified(r) \/ VerifiedUnsaved(r)
         PROVE  TokensInv'
    <2> DEFINE cleared == [pending[r].user EXCEPT !.codeFails = 0, !.codeLock = 0]
    <2>1. pending[r] # None /\ pending[r].kind = "code" /\ UNCHANGED uses
      BY <1>15 DEF Verified, VerifiedUnsaved, RightCode, Is, None
    <2>2. cleared.token = pending[r].user.token /\ cleared.expiry = pending[r].user.expiry
      BY <2>1, UserIsFine DEF Fine
    <2>3. Saves(r, cleared) \/ (Over(r) /\ UNCHANGED <<record, tokens, lost>>)
      BY <1>15 DEF Verified, VerifiedUnsaved, NotSaved
    <2> HIDE DEF cleared
    <2>4. QED
      BY <2>1, <2>2, <2>3, SavesKeepsTokens, OverKeepsTokens
  <1>16. ASSUME NEW r \in Requests, Refused(r) \/ RefusedUnsaved(r)
         PROVE  TokensInv'
    <2>1. pending[r] # None /\ pending[r].kind = "code" /\ UNCHANGED uses
      BY <1>16 DEF Refused, RefusedUnsaved, BadCode, Is, None
    <2>2. /\ WrongCode(pending[r].user).token = pending[r].user.token
          /\ WrongCode(pending[r].user).expiry = pending[r].user.expiry
      BY <2>1, UserIsFine, WrongCodeIsFine DEF CoreInv, CountsInv
    <2>3. Saves(r, WrongCode(pending[r].user)) \/ (Over(r) /\ UNCHANGED <<record, tokens>> /\ lost')
      BY <1>16 DEF Refused, RefusedUnsaved, NotSaved
    <2>4. QED
      BY <2>1, <2>2, <2>3, SavesKeepsTokens, OverKeepsTokens
  <1>17. ASSUME NEW r \in Requests,
                EnrollSaved(r) \/ ConfirmSaved(r) \/ DisableSaved(r) \/ TokenSent(r) \/ PutSaved(r)
         PROVE  TokensInv'
    <2>1. pending[r] # None /\ pending[r].kind \notin {"use", "fetched"}
      BY <1>17 DEF EnrollSaved, ConfirmSaved, DisableSaved, TokenSent, PutSaved, Is, None
    <2>2. Saves(r, pending[r].user) /\ UNCHANGED uses
      BY <1>17 DEF EnrollSaved, ConfirmSaved, DisableSaved, TokenSent, PutSaved, past
    <2>3. QED
      BY <2>1, <2>2, SavesKeepsTokens
  <1>18. ASSUME NEW r \in Requests,
                \/ SaveFails(r) \/ \E p \in Passwords : Login(r, p)
                \/ LoginFails(r) \/ LoginSucceeds(r) \/ \E code \in 0..secrets : Verify(r, code)
                \/ Verified(r) \/ VerifiedUnsaved(r) \/ Refused(r) \/ RefusedUnsaved(r)
         PROVE  TokensInv'
    BY <1>18, <1>2, <1>5, <1>6, <1>13, <1>14, <1>15, <1>16
  <1>19. ASSUME NEW r \in Requests,
                \/ Enroll(r) \/ EnrollPage(r) \/ EnrollSaved(r)
                \/ Confirm(r) \/ ConfirmSaved(r) \/ Disable(r) \/ DisableSaved(r)
         PROVE  TokensInv'
    BY <1>19, <1>7, <1>8, <1>9, <1>17 DEF EnrollPage
  <1>20. ASSUME NEW r \in Requests,
                \/ SendToken(r) \/ TokenSent(r) \/ TokenUsed(r)
                \/ \E t \in 1..tokens : ConfirmEmail(r, t) \/ \E p \in Passwords : UpdatePassword(r, t, p)
         PROVE  TokensInv'
    <2>1. ASSUME NEW t \in 1..tokens, ConfirmEmail(r, t)
          PROVE  TokensInv'
      BY <2>1, <1>12, AccountsConstants
    <2>2. QED
      BY <1>20, <2>1, <1>12, <1>17, SendTokenKeepsTokens, TokenUsedKeepsTokens
  <1>21. ASSUME NEW r \in Requests,
                \/ \E user \in Edits : Fetch(r, user)
                \/ Put(r) \/ PutSaved(r)
         PROVE  TokensInv'
    BY <1>21, <1>10, <1>17, PutKeepsTokens
  <1>22. QED
    BY <1>1, <1>18, <1>19, <1>20, <1>21 DEF Next

-----------------------------------------------------------------------------
(* The theorems *)

LEMMA PastInit == Init => LockoutInv /\ TokensInv
  <1> SUFFICES ASSUME Init
               PROVE  LockoutInv /\ TokensInv
    OBVIOUS
  <1>1. LockoutInv
    BY AccountsConstants DEF Init, LockoutInv
  <1>2. \A r \in Requests : Fresh(r)
    BY DEF Init, Fresh, Is, None
  <1>3. uses \in [1..MaxCalls -> Nat] /\ \A t \in 1..MaxCalls : uses[t] = 0
    BY DEF Init
  <1>4. record.token = 0
    BY DEF Init
  <1>5. QED
    BY <1>1, <1>2, <1>3, <1>4 DEF TokensInv

LEMMA Invariant == Spec => []IInv
  <1>1. Init => IInv
    BY CoreInit, PastInit DEF IInv
  <1>2. IInv /\ [Next]_vars => IInv'
    BY CoreStep, LockoutStep, TokensStep DEF IInv
  <1>3. QED
    BY <1>1, <1>2, PTL DEF Spec

(* The record and every copy of it that a request carries are of their type, however requests    *)
(* overlap: the password is a chosen one, hashed once (validateChange, token-update-password).   *)
THEOREM AccountsType == Spec => []TypeOK
  <1>1. IInv => TypeOK
    BY CoreTypes DEF IInv
  <1>2. QED
    BY <1>1, Invariant, PTL

(* The second factor is on only with a secret that a code was given for (confirm, enroll), or is *)
(* as its user has put it through the filter of the user store.                                  *)
THEOREM SecondFactorIsConfirmed == Spec => []EnabledIsConfirmed
  <1>1. IInv => EnabledIsConfirmed
    BY CoreTypes DEF IInv
  <1>2. QED
    BY <1>1, Invariant, PTL

(* The user is refused fewer times than the lockout allows, unless saves have undone each other  *)
(* or the user has put counts (recordFailedLogin, verify).                                       *)
THEOREM LockoutIsInTime == Spec => []LockedInTime
  <1>1. IInv => LockedInTime
    <2> SUFFICES ASSUME IInv, ~lost
                 PROVE  wrong < MaxAttempts /\ wrongCodes < MaxCodes
      BY DEF LockedInTime
    <2>1. record.fails \in Nat /\ (record.lock = 0 => record.fails < MaxAttempts)
      BY AccountsConstants DEF IInv, CoreInv, RecordFine, Fine
    <2>2. QED
      BY <2>1, AccountsConstants DEF IInv, LockoutInv
  <1>2. QED
    BY <1>1, Invariant, PTL

(* A token is accepted once, unless saves have undone each other or the user has put an expiry   *)
(* (verifyToken).                                                                                *)
THEOREM TokenIsUsedOnce == Spec => []TokenOnce
  <1>1. IInv => TokenOnce
    BY DEF IInv, TokensInv, TokenOnce
  <1>2. QED
    BY <1>1, Invariant, PTL

=============================================================================
