------------------------------ MODULE Sessions ------------------------------
(***************************************************************************)
(* Operators signing in and asking for data: the tabs of one browser share *)
(* the session it stores (packages/web/src/lib/api.ts), the API limits,    *)
(* authenticates and answers (middleware/rate-limit.ts, middleware/auth.ts,*)
(* routes/auth.ts).  The accounts looked at belong to one person: the same *)
(* address and password, each in a tenant of its own.                      *)
(***************************************************************************)
EXTENDS Integers, Sequences, FiniteSets

CONSTANTS
    Tab,
    Account,
    NoAccount,      \* a login that names no tenant; no session
    LoginLimit, OperatorLimit,
    WindowLength,
    TokenLife,
    SweepEvery,
    MaxHour,        \* bound: the clock
    MaxCalls        \* bound: requests

ASSUME SessionsConstants ==
    /\ IsFiniteSet(Tab) /\ IsFiniteSet(Account) /\ NoAccount \notin Account
    /\ {LoginLimit, OperatorLimit, TokenLife, MaxHour, MaxCalls} \subseteq Nat
    /\ {WindowLength, SweepEvery} \subseteq Nat \ {0}

VARIABLES
    hour,
    accounts,       \* rows of users
    session,        \* the session in the browser's storage
    call,           \* of each tab: the request under way
    limiter,        \* the windows of the limiter, and checks since the last sweep
    guesses,        \* history: when logins were let through to the password
    calls

sessionVars == <<hour, accounts, session, call, limiter, guesses, calls>>

Hours == 0 .. MaxHour
NoSession == [account |-> NoAccount, expires |-> 0]
NoCall == [at |-> "none", path |-> "none", status |-> 0, account |-> NoAccount, expires |-> 0,
           right |-> FALSE, valid |-> FALSE]

\* One bucket for the logins of this source, one per tenant.
LoginKey == NoAccount
Key == Account \cup {LoginKey}
Limit(key) == IF key = LoginKey THEN LoginLimit ELSE OperatorLimit
Shut == [count |-> 0, resetAt |-> 0]

SessionsInit ==
    /\ hour = 0
    /\ accounts = Account
    /\ session = NoSession
    /\ call = [t \in Tab |-> NoCall]
    /\ limiter = [windows |-> [k \in Key |-> Shut], sinceSweep |-> 0]
    /\ guesses = <<>>
    /\ calls = 0

Sees(t, at) == call[t].at = at
Turns(t, news) == call' = [call EXCEPT ![t] = news]
Answered(t, status) == Turns(t, [call[t] EXCEPT !.at = "answer", !.status = status])

\* A token and its account are as they should be.
IsValid(token) == token.account \in accounts /\ hour < token.expires

\* A form that was shown while nobody was signed in may be sent at any time after.
SendLogin(t) ==
    /\ Sees(t, "none") /\ calls < MaxCalls
    /\ \E chosen \in Account \cup {NoAccount}, right \in BOOLEAN :
          Turns(t, [NoCall EXCEPT !.at = "limit", !.path = "login", !.account = chosen, !.right = right])
    /\ calls' = calls + 1
    /\ UNCHANGED <<hour, accounts, session, limiter, guesses>>

\* The token is read from the storage when the request is made.
SendRequest(t) ==
    /\ Sees(t, "none") /\ calls < MaxCalls /\ session # NoSession
    /\ Turns(t, [NoCall EXCEPT !.at = "auth", !.path = "data", !.account = session.account,
                               !.expires = session.expires, !.valid = IsValid(session)])
    /\ calls' = calls + 1
    /\ UNCHANGED <<hour, accounts, session, limiter, guesses>>

\* Mutant of Authenticate: the signature is enough.
AuthenticateByToken(t) ==
    /\ Sees(t, "auth")
    /\ IF hour < call[t].expires THEN Turns(t, [call[t] EXCEPT !.at = "limit"]) ELSE Answered(t, 401)
    /\ UNCHANGED <<hour, accounts, session, limiter, guesses, calls>>

\* The token's expiry by the clock of the server, then its user in its tenant.
Authenticate(t) ==
    /\ Sees(t, "auth")
    /\ IF IsValid([account |-> call[t].account, expires |-> call[t].expires])
       THEN Turns(t, [call[t] EXCEPT !.at = "limit"])
       ELSE Answered(t, 401)
    /\ UNCHANGED <<hour, accounts, session, limiter, guesses, calls>>

\* Mutant of Swept: a sweep empties the table.
SweptAll(windows) == [k \in Key |-> Shut]

\* The windows that a sweep leaves.
Swept(windows) == [k \in Key |-> IF windows[k].resetAt <= hour THEN Shut ELSE windows[k]]

\* check: sweeps now and then, opens a window or counts in the one that is open.
Check(key) ==
    LET sweeps == limiter.sinceSweep + 1 >= SweepEvery
        windows == IF sweeps THEN Swept(limiter.windows) ELSE limiter.windows
        open == windows[key].resetAt > hour
    IN  [windows |-> [windows EXCEPT ![key] =
                         IF open THEN [windows[key] EXCEPT !.count = @ + 1]
                         ELSE [count |-> 1, resetAt |-> hour + WindowLength]],
         sinceSweep |-> IF sweeps THEN 0 ELSE limiter.sinceSweep + 1]

RateLimited(t) ==
    LET key == IF call[t].path = "login" THEN LoginKey ELSE call[t].account
    IN  /\ Sees(t, "limit")
        /\ limiter' = Check(key)
        /\ IF limiter'.windows[key].count > Limit(key)
           THEN Answered(t, 429)
           ELSE Turns(t, [call[t] EXCEPT !.at = "handle"])
        /\ guesses' = IF key = LoginKey /\ limiter'.windows[key].count <= Limit(key)
                      THEN Append(guesses, hour) ELSE guesses
        /\ UNCHANGED <<hour, accounts, session, calls>>

\* Mutant of Login: of several accounts the first is taken.
LoginFirst(t) ==
    LET chosen == call[t].account
        matched == IF ~call[t].right THEN {} ELSE {a \in accounts : chosen \in {NoAccount, a}}
    IN  /\ Sees(t, "handle") /\ call[t].path = "login"
        /\ IF matched = {} THEN Answered(t, 401)
           ELSE Turns(t, [call[t] EXCEPT !.at = "answer", !.status = 200, !.account = CHOOSE a \in matched : TRUE,
                                         !.expires = hour + TokenLife, !.valid = chosen # NoAccount])
        /\ UNCHANGED <<hour, accounts, session, limiter, guesses, calls>>

\* The accounts of the address in the tenant that was named, or in any, whose
\* password this is: none is refused, several are given back to choose from.
Login(t) ==
    LET chosen == call[t].account
        matched == IF ~call[t].right THEN {} ELSE {a \in accounts : chosen \in {NoAccount, a}}
    IN  /\ Sees(t, "handle") /\ call[t].path = "login"
        /\ CASE matched = {} -> Answered(t, 401)
             [] Cardinality(matched) > 1 -> Answered(t, 409)
             [] Cardinality(matched) = 1 ->
                  Turns(t, [call[t] EXCEPT !.at = "answer", !.status = 200, !.account = CHOOSE a \in matched : TRUE,
                                           !.expires = hour + TokenLife, !.valid = chosen # NoAccount])
        /\ UNCHANGED <<hour, accounts, session, limiter, guesses, calls>>

\* Any handler behind the guard.
Serve(t) ==
    /\ Sees(t, "handle") /\ call[t].path = "data"
    /\ Answered(t, 200)
    /\ UNCHANGED <<hour, accounts, session, limiter, guesses, calls>>

\* A login stores its session over whatever is there; a 401 to anything else
\* clears what is stored, whichever token it was about.
ReceiveAnswer(t) ==
    /\ Sees(t, "answer")
    /\ session' = CASE call[t].path = "login" /\ call[t].status = 200 ->
                        [account |-> call[t].account, expires |-> call[t].expires]
                   [] call[t].path = "data" /\ call[t].status = 401 -> NoSession
                   [] OTHER -> session
    /\ Turns(t, NoCall)
    /\ UNCHANGED <<hour, accounts, limiter, guesses, calls>>

SignOut ==
    /\ session # NoSession
    /\ session' = NoSession
    /\ UNCHANGED <<hour, accounts, call, limiter, guesses, calls>>

\* An operator leaves a tenant.
RemoveAccount(a) ==
    /\ a \in accounts
    /\ accounts' = accounts \ {a}
    /\ UNCHANGED <<hour, session, call, limiter, guesses, calls>>

HourPasses ==
    /\ hour < MaxHour
    /\ hour' = hour + 1
    /\ UNCHANGED <<accounts, session, call, limiter, guesses, calls>>

SessionsNext ==
    \/ HourPasses \/ SignOut
    \/ \E a \in Account : RemoveAccount(a)
    \/ \E t \in Tab : SendLogin(t) \/ SendRequest(t) \/ Authenticate(t) \/ RateLimited(t) \/ Login(t)
                      \/ Serve(t) \/ ReceiveAnswer(t)

SessionsSpec == SessionsInit /\ [][SessionsNext]_sessionVars

-----------------------------------------------------------------------------
SessionsTypeOK ==
    /\ hour \in Hours /\ accounts \subseteq Account
    /\ session.account \in Account \cup {NoAccount}
    /\ \A t \in Tab : /\ call[t].at \in {"none", "auth", "limit", "handle", "answer"}
                      /\ call[t].status \in {0, 200, 401, 409, 429}
                      /\ call[t].account \in Account \cup {NoAccount}
    /\ \A k \in Key : limiter.windows[k].count \in 0 .. MaxCalls
    /\ limiter.sinceSweep \in 0 .. SweepEvery - 1

(***************************************************************************)
(* middleware/auth.ts: "a token outlives the fact it asserts", so who was  *)
(* removed from a tenant, or whose token had run out, before the request   *)
(* was made is answered with no data, whatever the tabs do with the        *)
(* session they share.                                                     *)
(***************************************************************************)
InvalidSeesNothing ==
    \A t \in Tab : call[t].path = "data" /\ call[t].status = 200 => call[t].valid

(***************************************************************************)
(* routes/auth.ts: nobody is signed in to a tenant by chance; a login that *)
(* named no tenant succeeds only where one account is left.                *)
(***************************************************************************)
TenantNotGuessed ==
    \A t \in Tab : call[t].path = "login" /\ call[t].status = 200 =>
        call[t].valid \/ accounts \subseteq {call[t].account}

(***************************************************************************)
(* rate-limit.ts: over any window's length of time, wherever it starts, at *)
(* most two windows' worth of guesses is let through to a password, sweeps *)
(* and refused requests included.                                          *)
(***************************************************************************)
GuessesLimited ==
    \A from \in Hours :
        Cardinality({i \in DOMAIN guesses : guesses[i] \in from .. from + WindowLength - 1}) <= 2 * LoginLimit
=============================================================================
