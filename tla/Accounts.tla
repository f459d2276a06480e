----------------------------- MODULE Accounts -----------------------------
(***************************************************************************)
(* One user's record, and the requests that change it: logins and their    *)
(* lockout (services/auth.ts), the second factor (services/totp.ts), the   *)
(* tokens sent by mail (services/account.ts) and changes the user makes    *)
(* through the filter of the user store (services/user-filter.ts).         *)
(*                                                                         *)
(* Each reads the record, decides, and saves the whole of it: what others  *)
(* have saved in between is lost.  A request is begun by its read and over *)
(* with its save; one that saves nothing is a step by itself.  rs-core's   *)
(* getUserFromEmail and saveUser are a GET and a PUT of the record.        *)
(***************************************************************************)
EXTENDS Integers, FiniteSets

CONSTANTS
    Requests,       \* what is under way at a time
    Passwords,      \* what the user may choose
    First,          \* the password of the record
    Challenge,      \* mfa.mode: whether a login asks for the second factor
    MaxAttempts,    \* of passwords: loginLockout.maxAttempts
    MaxCodes,       \* of codes: lockout.maxAttempts
    LockTime,       \* both lockMinutes
    TokenLife,      \* tokenExpiryMins
    SessionTime,    \* sessionTimeoutMins, even
    MaxCalls,       \* bound on requests
    MaxTime         \* bound on the clock

\* Every configuration that counts attempts allows one (loginLockoutParams, lockoutParams).
ASSUME AccountsConstants ==
    /\ First \in Passwords
    /\ MaxAttempts \in Nat \ {0} /\ MaxCodes \in Nat \ {0} /\ LockTime \in Nat \ {0}
    /\ TokenLife \in Nat /\ SessionTime \in Nat /\ MaxCalls \in Nat /\ MaxTime \in Nat \ {0}

VARIABLES
    record,         \* what the store has
    pending,        \* the requests between their reads and their saves
    cookie,         \* when the session ends, 0 if there is none
    challenged,     \* whether the second factor has been asked for
    now, calls,
    secrets,        \* how many secrets have been generated
    tokens,         \* how many tokens
    \* what happened
    confirmed,      \* the secrets a code was given for, in confirmation
    chosen,         \* the second factors that clients have put themselves
    uses,           \* token -> how often it was accepted
    wrong,          \* passwords refused since one was accepted or the account locked
    wrongCodes,     \* codes, likewise
    lost            \* whether a save has undone another or failed unnoticed, or a client has
                    \* put counts or an expiry of its own

vars == <<record, pending, cookie, challenged, now, calls, secrets, tokens, confirmed, chosen, uses, wrong, wrongCodes, lost>>
past == <<confirmed, chosen, uses, wrong, wrongCodes>>

None == [kind |-> "none"]
Mask == [hashed |-> 0, of |-> "<hidden>"]
Hash(password) == [password EXCEPT !.hashed = @ + 1]
Chosen(p) == [hashed |-> 0, of |-> p]

\* The user has a second factor, with the first secret, or has none.
Init ==
    /\ \E b \in BOOLEAN :
        /\ secrets = (IF b THEN 1 ELSE 0) /\ confirmed = 1..secrets
        /\ record = [password |-> Hash(Chosen(First)), fails |-> 0, lock |-> 0, token |-> 0, expiry |-> 0,
                     verified |-> FALSE, mfa |-> b, secret |-> secrets, enabled |-> b, codeFails |-> 0, codeLock |-> 0]
    /\ pending = [r \in Requests |-> None]
    /\ cookie = 0 /\ challenged = FALSE /\ now = 1 /\ calls = 0 /\ tokens = 0
    /\ chosen = {} /\ uses = [t \in 1..MaxCalls |-> 0] /\ wrong = 0 /\ wrongCodes = 0 /\ lost = FALSE

-----------------------------------------------------------------------------
(* How requests begin and end *)

Arrives == calls < MaxCalls /\ calls' = calls + 1

\* arg is what the request brings: a password, a code or a token.
Reads(r, kind, user, arg) ==
    /\ Arrives /\ pending[r] = None
    /\ pending' = [pending EXCEPT ![r] = [kind |-> kind, read |-> record, user |-> user, arg |-> arg]]
    /\ UNCHANGED <<record, now, secrets, tokens, lost>>

Is(r, kind) == pending[r].kind = kind

Over(r) == pending' = [pending EXCEPT ![r] = None]

Counts(u) == <<u.fails, u.lock, u.codeFails, u.codeLock, u.expiry>>
Factor(u) == <<u.mfa, u.enabled, u.secret>>

\* saveUser, for the service: the user filter lets an internal call pass as it is.
Saves(r, user) ==
    /\ record' = user
    /\ lost' = \/ lost \/ record # pending[r].read
               \/ Is(r, "put") /\ Counts(user) # Counts(pending[r].read)
    /\ Over(r) /\ UNCHANGED <<now, calls, secrets, tokens>>

NotSaved(r) == Over(r) /\ UNCHANGED <<record, now, calls, secrets, tokens>>

\* The store refuses the save, and the request reports it: all do but the check of a code.
\* A client that has fetched the record may as well not come back.
SaveFails(r) ==
    /\ pending[r] # None /\ ~Is(r, "code")
    /\ NotSaved(r)
    /\ UNCHANGED <<cookie, challenged, past, lost>>

Tick == now < MaxTime /\ now' = now + 1
        /\ UNCHANGED <<record, pending, cookie, challenged, calls, secrets, tokens, past, lost>>

Locked(until) == until > now

-----------------------------------------------------------------------------
(* auth *)

\* setUser: a session that is past its half is renewed by the request that finds it.
SignedIn == cookie > now
Renews == cookie' = IF now > cookie - SessionTime \div 2 THEN now + SessionTime ELSE cookie

Logout == cookie' = 0 /\ Arrives
          /\ UNCHANGED <<record, pending, challenged, now, secrets, tokens, past, lost>>

Login(r, p) ==
    /\ ~Locked(record.lock)
    /\ Reads(r, "login", record, p)
    /\ UNCHANGED <<cookie, challenged, past>>

Matches(r) == pending[r].user.password = Hash(Chosen(pending[r].arg))

\* MUTANT: a lock that has passed is still counted with, one attempt late.
FailedLate(u) ==
    [u EXCEPT !.fails = @ + 1, !.lock = IF u.fails >= MaxAttempts THEN now + LockTime ELSE 0]

\* recordFailedLogin: a lock that has passed starts the count again.
Failed(u) ==
    LET n == (IF u.lock # 0 THEN 0 ELSE u.fails) + 1
    IN  [u EXCEPT !.fails = n, !.lock = IF n >= MaxAttempts THEN now + LockTime ELSE 0]

LoginFails(r) ==
    LET user == Failed(pending[r].user)
    IN  /\ Is(r, "login") /\ ~Matches(r)
        /\ Saves(r, user)
        /\ wrong' = IF user.lock # 0 THEN 0 ELSE wrong + 1
        /\ UNCHANGED <<cookie, challenged, confirmed, chosen, uses, wrongCodes>>

Session(user) ==
    IF Challenge /\ (user.mfa \/ user.enabled)
    THEN challenged' = TRUE /\ UNCHANGED cookie
    ELSE cookie' = now + SessionTime /\ UNCHANGED challenged

\* clearLoginLockout saves only if there is something to clear.
LoginSucceeds(r) ==
    LET user == pending[r].user
    IN  /\ Is(r, "login") /\ Matches(r)
        /\ IF user.fails = 0 /\ user.lock = 0
           THEN Over(r) /\ UNCHANGED <<record, now, calls, secrets, tokens, lost>>
           ELSE Saves(r, [user EXCEPT !.fails = 0, !.lock = 0])
        /\ Session(user) /\ wrong' = 0
        /\ UNCHANGED <<confirmed, chosen, uses, wrongCodes>>

-----------------------------------------------------------------------------
(* totp *)

\* mfa/totp asks verify.  A user who has no second factor by now needs no code.
Verify(r, code) ==
    /\ challenged /\ record.enabled /\ record.secret # 0 /\ ~Locked(record.codeLock)
    /\ Reads(r, "code", record, code)
    /\ UNCHANGED <<cookie, challenged, past>>

NotRequired ==
    /\ challenged /\ (~record.enabled \/ record.secret = 0) /\ Arrives
    /\ cookie' = now + SessionTime /\ challenged' = FALSE
    /\ UNCHANGED <<record, pending, now, secrets, tokens, past, lost>>

\* The answer does not depend on whether the save succeeds.
RightCode(r) ==
    /\ Is(r, "code") /\ pending[r].arg = pending[r].user.secret
    /\ cookie' = now + SessionTime /\ challenged' = FALSE /\ wrongCodes' = 0
    /\ UNCHANGED <<confirmed, chosen, uses, wrong>>

Verified(r) == RightCode(r) /\ Saves(r, [pending[r].user EXCEPT !.codeFails = 0, !.codeLock = 0])
VerifiedUnsaved(r) == RightCode(r) /\ NotSaved(r) /\ UNCHANGED lost

\* The count stays when a lock passes: the next wrong code locks again.
WrongCode(u) ==
    [u EXCEPT !.codeFails = @ + 1, !.codeLock = IF u.codeFails + 1 >= MaxCodes THEN now + LockTime ELSE @]

BadCode(r) ==
    /\ Is(r, "code") /\ pending[r].arg # pending[r].user.secret
    /\ wrongCodes' = IF WrongCode(pending[r].user).codeLock > now THEN 0 ELSE wrongCodes + 1
    /\ UNCHANGED <<cookie, challenged, confirmed, chosen, uses, wrong>>

Refused(r) == BadCode(r) /\ Saves(r, WrongCode(pending[r].user))
RefusedUnsaved(r) == BadCode(r) /\ NotSaved(r) /\ lost' = TRUE

\* A new secret, to be confirmed.
Enrolled(u) == [u EXCEPT !.secret = secrets + 1, !.enabled = FALSE, !.codeFails = 0, !.codeLock = 0, !.mfa = FALSE]

Enroll(r) ==
    /\ SignedIn /\ Renews
    /\ Arrives /\ pending[r] = None
    /\ pending' = [pending EXCEPT ![r] = [kind |-> "enroll", read |-> record, user |-> Enrolled(record), arg |-> 0]]
    /\ secrets' = secrets + 1
    /\ UNCHANGED <<record, challenged, now, tokens, past, lost>>

\* The page enrols a user who is not, and else shows the secret there is.
EnrollPage(r) == record.secret = 0 /\ Enroll(r)

EnrollSaved(r) ==
    /\ Is(r, "enroll") /\ Saves(r, pending[r].user)
    /\ wrongCodes' = 0
    /\ UNCHANGED <<cookie, challenged, confirmed, chosen, uses, wrong>>

\* confirm and disable, with the code of a secret: another is refused and not counted.
Confirm(r) ==
    /\ SignedIn /\ Renews /\ record.secret # 0 /\ ~Locked(record.codeLock)
    /\ Reads(r, "confirm", [record EXCEPT !.enabled = TRUE, !.codeFails = 0, !.codeLock = 0, !.mfa = TRUE], record.secret)
    /\ confirmed' = confirmed \cup {record.secret}
    /\ UNCHANGED <<challenged, chosen, uses, wrong, wrongCodes>>

\* MUTANT: only what confirmation changes is saved, on what the record is by then.
ConfirmMerges(r) ==
    /\ Is(r, "confirm")
    /\ Saves(r, [record EXCEPT !.enabled = TRUE, !.codeFails = 0, !.codeLock = 0, !.mfa = TRUE])
    /\ wrongCodes' = 0
    /\ UNCHANGED <<cookie, challenged, confirmed, chosen, uses, wrong>>

ConfirmSaved(r) ==
    /\ Is(r, "confirm") /\ Saves(r, pending[r].user)
    /\ wrongCodes' = 0
    /\ UNCHANGED <<cookie, challenged, confirmed, chosen, uses, wrong>>

Disable(r) ==
    /\ SignedIn /\ Renews /\ record.secret # 0 /\ ~Locked(record.codeLock)
    /\ Reads(r, "disable", [record EXCEPT !.secret = 0, !.enabled = FALSE, !.codeFails = 0, !.codeLock = 0, !.mfa = FALSE], record.secret)
    /\ UNCHANGED <<challenged, past>>

DisableSaved(r) ==
    /\ Is(r, "disable") /\ Saves(r, pending[r].user)
    /\ wrongCodes' = 0
    /\ UNCHANGED <<cookie, challenged, confirmed, chosen, uses, wrong>>

-----------------------------------------------------------------------------
(* account *)

\* reset-password and verify-email: both keep their token in the same fields.
SendToken(r) ==
    /\ Arrives /\ pending[r] = None /\ tokens' = tokens + 1
    /\ pending' = [pending EXCEPT ![r] =
            [kind |-> "send", read |-> record, arg |-> tokens + 1,
             user |-> [record EXCEPT !.token = tokens + 1, !.expiry = now + TokenLife]]]
    /\ UNCHANGED <<record, cookie, challenged, now, secrets, past, lost>>

TokenSent(r) ==
    /\ Is(r, "send") /\ Saves(r, pending[r].user)
    /\ UNCHANGED <<cookie, challenged, past>>

\* MUTANT: a token whose expiry is gone does not expire.
AcceptsUsed(u, token) == u.token = token /\ (u.expiry = 0 \/ u.expiry > now)

\* verifyToken: a token that was used has lost its expiry.
Accepts(u, token) == u.token = token /\ u.expiry # 0 /\ u.expiry > now

\* token-update-password hashes what it is given, confirm-email notes the confirmation.
UseToken(r, token, change) ==
    /\ token > 0 /\ Accepts(record, token)
    /\ Reads(r, "use", [change EXCEPT !.expiry = 0], token)
    /\ UNCHANGED <<cookie, challenged, past>>

UpdatePassword(r, token, p) == UseToken(r, token, [record EXCEPT !.password = Hash(Chosen(p))])
ConfirmEmail(r, token) == UseToken(r, token, [record EXCEPT !.verified = TRUE])

TokenUsed(r) ==
    /\ Is(r, "use") /\ Saves(r, pending[r].user)
    /\ uses' = [uses EXCEPT ![pending[r].arg] = @ + 1]
    /\ UNCHANGED <<cookie, challenged, confirmed, chosen, wrong, wrongCodes>>

-----------------------------------------------------------------------------
(* user-filter *)

\* The client gets the record without the password.  It may send back anything but other roles
\* and another email: here a new password, or one part of a second factor of its own (a secret
\* is one that there was), or no failures and no locks, or a token whose life begins again.
Edits ==
    LET masked == [record EXCEPT !.password = Mask]
    IN  {[record EXCEPT !.password = Chosen(p)] : p \in Passwords}
        \cup {[masked EXCEPT !.mfa = b] : b \in BOOLEAN} \cup {[masked EXCEPT !.enabled = b] : b \in BOOLEAN}
        \cup {[masked EXCEPT !.secret = s] : s \in {0} \cup confirmed}
        \cup {[masked EXCEPT !.fails = 0, !.lock = 0, !.codeFails = 0, !.codeLock = 0],
              [masked EXCEPT !.expiry = now + TokenLife]}

Fetch(r, user) ==
    /\ SignedIn /\ Renews
    /\ Reads(r, "fetched", user, 0)
    /\ UNCHANGED <<challenged, past>>

\* MUTANT: what is not empty is a new password.
FilteredMask(user, current) == Hash(user.password)

\* validateChange, on the record as it is when the change arrives: no other field is looked at.
Filtered(user, current) ==
    IF user.password = Mask THEN current.password ELSE Hash(user.password)

Put(r) ==
    /\ Is(r, "fetched")
    /\ pending' = [pending EXCEPT ![r].kind = "put", ![r].user.password = Filtered(pending[r].user, record)]
    /\ chosen' = chosen \cup ({Factor(pending[r].user)} \ {Factor(pending[r].read)})
    /\ UNCHANGED <<record, cookie, challenged, now, calls, secrets, tokens, confirmed, uses, wrong, wrongCodes, lost>>

PutSaved(r) ==
    /\ Is(r, "put") /\ Saves(r, pending[r].user)
    /\ UNCHANGED <<cookie, challenged, past>>

-----------------------------------------------------------------------------

Next ==
    \/ Tick \/ Logout \/ NotRequired
    \/ \E r \in Requests :
        \/ SaveFails(r)
        \/ \E p \in Passwords : Login(r, p)
        \/ LoginFails(r) \/ LoginSucceeds(r)
        \/ \E code \in 0..secrets : Verify(r, code)
        \/ Verified(r) \/ VerifiedUnsaved(r) \/ Refused(r) \/ RefusedUnsaved(r)
        \/ Enroll(r) \/ EnrollPage(r) \/ EnrollSaved(r)
        \/ Confirm(r) \/ ConfirmSaved(r) \/ Disable(r) \/ DisableSaved(r)
        \/ SendToken(r) \/ TokenSent(r) \/ TokenUsed(r)
        \/ \E t \in 1..tokens : ConfirmEmail(r, t) \/ \E p \in Passwords : UpdatePassword(r, t, p)
        \/ \E user \in Edits : Fetch(r, user)
        \/ Put(r) \/ PutSaved(r)

Spec == Init /\ [][Next]_vars

-----------------------------------------------------------------------------
(* Properties *)

Records ==
    [password : [hashed : {1}, of : Passwords], fails : 0..MaxAttempts, lock : 0..MaxTime + LockTime,
     token : 0..tokens, expiry : 0..MaxTime + TokenLife, verified : BOOLEAN, mfa : BOOLEAN,
     secret : 0..secrets, enabled : BOOLEAN, codeFails : 0..MaxCalls, codeLock : 0..MaxTime + LockTime]

\* The types; among them, that the password of the record is one the user has chosen, hashed
\* once: neither what is hashed already nor the mask the client got is taken for a new one.
TypeOK ==
    /\ record \in Records
    /\ \A r \in Requests : pending[r] # None => pending[r].read \in Records
    /\ cookie \in 0..MaxTime + SessionTime /\ challenged \in BOOLEAN
    /\ now \in 1..MaxTime /\ calls \in 0..MaxCalls /\ secrets \in 0..MaxCalls + 1 /\ tokens \in 0..MaxCalls

\* However requests overlap, the second factor is asked for only with a secret that a code
\* was given for, unless the record has a second factor that the user has put there: an
\* enrolment that overtakes a confirmation does not replace what is confirmed.
EnabledIsConfirmed ==
    \/ Factor(record) \in chosen
    \/ record.mfa = record.enabled /\ (record.enabled => record.secret \in confirmed)

\* Unless saves undo each other or the user has put counts, the account is locked by the time
\* the user is told for the last allowed time that the password, or the code, is wrong.
LockedInTime == ~lost => wrong < MaxAttempts /\ wrongCodes < MaxCodes

\* Unless saves undo each other or the user has put an expiry, a token is accepted once,
\* whichever use it was sent for.
TokenOnce == ~lost => \A t \in 1..MaxCalls : uses[t] <= 1
=============================================================================
