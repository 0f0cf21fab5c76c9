----------------------------- MODULE RateBucket -----------------------------
(***************************************************************************)
(* The token bucket in provider_rate_buckets (packages/providers/src/      *)
(* rate-limit.ts): the allowance of one provider and channel, shared by    *)
(* all workers.  A caller reads its clock first and runs its statements    *)
(* later, so statements of two callers may run in another order than the   *)
(* times they carry.  Tokens are counted in the units one tick refills.    *)
(***************************************************************************)
EXTENDS Integers, FiniteSets

CONSTANTS
    Client,
    Token,          \* units of one token: ticks it takes to refill
    Capacity,       \* the burst, in units
    MaxTick         \* bound: the clock

ASSUME BucketConstants == Token \in Nat \ {0} /\ Capacity \in Nat /\ Capacity >= Token /\ MaxTick \in Nat

VARIABLES
    tick,
    bucket,      \* the row: tokens and updated_at; <<>> until somebody inserts it
    caller,      \* step, the clock it read, and until when it was told to wait
    taken,       \* history: tokens given out since the row was made
    born,        \* history: the clock the row was made with
    disordered,  \* history: a token was taken with a clock older than the row's
    alone        \* history: callers told with a current clock, since when nobody took a token

bucketVars == <<tick, bucket, caller, taken, born, disordered, alone>>

Resting == [at |-> "idle", now |-> 0, until |-> 0, told |-> FALSE]

BucketInit ==
    /\ tick = 0
    /\ bucket = <<>>
    /\ caller = [c \in Client |-> Resting]
    /\ taken = 0 /\ born = 0 /\ disordered = FALSE /\ alone = {}

Atleast0(x) == IF x > 0 THEN x ELSE 0
AtMost(x, top) == IF x < top THEN x ELSE top

\* Mutant of Balance: no ceiling.
BalanceUncapped(now) == bucket.tokens + Atleast0(now - bucket.updatedAt)

\* The balance at a time: the refill integrated since updated_at, never
\* negative, never above the burst.
Balance(now) == AtMost(bucket.tokens + Atleast0(now - bucket.updatedAt), Capacity)

Stands(c, step) == caller[c].at = step
Walks(c, news) == caller' = [caller EXCEPT ![c] = news]

ReadClock(c) ==
    /\ Stands(c, "idle") /\ tick >= caller[c].until
    /\ Walks(c, [caller[c] EXCEPT !.at = "ensure", !.now = tick])
    /\ UNCHANGED <<tick, bucket, taken, born, disordered, alone>>

\* INSERT ... ON CONFLICT DO NOTHING: full, as of the clock of who was first.
EnsureBucket(c) ==
    /\ Stands(c, "ensure")
    /\ bucket' = IF bucket = <<>> THEN [tokens |-> Capacity, updatedAt |-> caller[c].now] ELSE bucket
    /\ born' = IF bucket = <<>> THEN caller[c].now ELSE born
    /\ Walks(c, [caller[c] EXCEPT !.at = "take"])
    /\ UNCHANGED <<tick, taken, disordered, alone>>

\* Mutant of TakeToken: an attempt that is denied is written down as well.
TakeTokenStamped(c) ==
    LET now == caller[c].now
        balance == Balance(now)
        served == balance >= Token
    IN  /\ Stands(c, "take")
        /\ bucket' = IF served THEN [tokens |-> balance - Token, updatedAt |-> now]
                               ELSE [bucket EXCEPT !.updatedAt = now]
        /\ taken' = IF served THEN taken + 1 ELSE taken
        /\ disordered' = (disordered \/ now < bucket.updatedAt)
        /\ alone' = IF served THEN {} ELSE alone
        /\ Walks(c, IF served THEN Resting ELSE [caller[c] EXCEPT !.at = "denied"])
        /\ UNCHANGED <<tick, born>>

\* Mutant of TakeToken: a token is given for a part of one.
TakeTokenEarly(c) ==
    LET now == caller[c].now
        balance == Balance(now)
        served == balance > 0
    IN  /\ Stands(c, "take")
        /\ bucket' = IF served THEN [tokens |-> Atleast0(balance - Token), updatedAt |-> now] ELSE bucket
        /\ taken' = IF served THEN taken + 1 ELSE taken
        /\ disordered' = (disordered \/ (served /\ now < bucket.updatedAt))
        /\ alone' = IF served THEN {} ELSE alone
        /\ Walks(c, IF served THEN Resting ELSE [caller[c] EXCEPT !.at = "denied"])
        /\ UNCHANGED <<tick, born>>

\* The refill and the decrement are one UPDATE; a denial writes nothing.
TakeToken(c) ==
    LET now == caller[c].now
        balance == Balance(now)
        served == balance >= Token
    IN  /\ Stands(c, "take")
        /\ bucket' = IF served THEN [tokens |-> balance - Token, updatedAt |-> now] ELSE bucket
        /\ taken' = IF served THEN taken + 1 ELSE taken
        /\ disordered' = (disordered \/ (served /\ now < bucket.updatedAt))
        /\ alone' = IF served THEN {} ELSE alone
        /\ Walks(c, IF served THEN Resting ELSE [caller[c] EXCEPT !.at = "denied"])
        /\ UNCHANGED <<tick, born>>

\* retryAfterMs, by a second statement and with the same clock; at least 1.
TellWait(c) ==
    LET missing == Atleast0(Token - Balance(caller[c].now))
        wait == IF missing = 0 THEN 1 ELSE missing
    IN  /\ Stands(c, "denied")
        /\ Walks(c, [at |-> "idle", now |-> 0, until |-> caller[c].now + wait, told |-> TRUE])
        /\ alone' = IF caller[c].now >= bucket.updatedAt THEN alone \cup {c} ELSE alone
        /\ UNCHANGED <<tick, bucket, taken, born, disordered>>

BucketTick ==
    /\ tick < MaxTick
    /\ tick' = tick + 1
    /\ UNCHANGED <<bucket, caller, taken, born, disordered, alone>>

BucketNext ==
    \/ BucketTick
    \/ \E c \in Client : ReadClock(c) \/ EnsureBucket(c) \/ TakeToken(c) \/ TellWait(c)

BucketSpec == BucketInit /\ [][BucketNext]_bucketVars

-----------------------------------------------------------------------------
BucketTypeOK ==
    /\ tick \in 0 .. MaxTick /\ born \in 0 .. MaxTick
    /\ bucket = <<>> \/ (bucket.tokens \in 0 .. Capacity /\ bucket.updatedAt \in 0 .. MaxTick)
    /\ caller \in [Client -> [at : {"idle", "ensure", "take", "denied"}, now : 0 .. MaxTick,
                              until : 0 .. MaxTick + Token, told : BOOLEAN]]
    /\ taken \in Nat /\ disordered \in BOOLEAN /\ alone \subseteq Client

(***************************************************************************)
(* All workers together never take more than the burst and what has been   *)
(* refilled since (tryAcquire: it has to hold across processes), unless    *)
(* statements ran out of the order of their clocks, which sets updated_at  *)
(* back and refills the same time twice.                                   *)
(***************************************************************************)
AllowanceHolds == disordered \/ (taken * Token <= Capacity + Atleast0(tick - born))

(***************************************************************************)
(* A caller that was denied and waited for as long as it was told is       *)
(* served, when nobody has taken a token since and its clock was no older  *)
(* than the row: a polling caller does not starve (tryAcquire: a denied    *)
(* attempt must not advance updated_at).                                   *)
(***************************************************************************)
WaitSuffices ==
    \A c \in alone : caller[c].told /\ Stands(c, "take") => Balance(caller[c].now) >= Token
=============================================================================
