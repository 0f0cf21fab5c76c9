------------------------------- MODULE Triage -------------------------------
(***************************************************************************)
(* Reply triage: classifyReply and triage (packages/triage/src/            *)
(* classifier.ts) over the token ledger of budget.ts, the cache kept in    *)
(* model_calls and the add-only consent capability of protection.ts.       *)
(* Several callers classify replies at once; every statement on the pool   *)
(* is a step of its own, the vendor may answer badly or not at all, the    *)
(* process may die between two statements and a month may end while a call *)
(* is in flight.  A reply is its body: what detectOptOut makes of it       *)
(* (Keyword) and its content hash (Body) are all the pipeline looks at.    *)
(***************************************************************************)
EXTENDS Integers, FiniteSets

CONSTANTS
    Caller,        \* concurrent calls of classifyReply
    Reply,         \* rows of inbound_replies
    Keyword,       \* the replies whose first line is an opt-out keyword
    Body,          \* the content hash of each reply
    NoReply,       \* an idle caller's reply
    Budget,        \* tenants.monthly_token_budget
    Estimate,      \* the tokens callWithBudget books for one call
    Usage,         \* what a call may really use
    LastMonth, MaxModelCalls, MaxFaults

ASSUME TriageAssumption ==
    /\ IsFiniteSet(Caller) /\ Keyword \subseteq Reply /\ NoReply \notin Reply
    /\ Budget \in Nat /\ Estimate \in Nat \ {0} /\ Usage \subseteq Nat
    /\ {LastMonth, MaxModelCalls, MaxFaults} \subseteq Nat

VARIABLES
    month,         \* budgetPeriod of the clock
    opened,        \* the months token_budget_ledger has a row for
    tokens,        \* its tokens_used
    asking,        \* each caller: where it is, its reply, attempt, booking, answer
    modelCalls,    \* the rows of model_calls
    classified,    \* the row of classifications of each reply
    stopped,       \* the replies whose sender addSuppression was called for
    upset,         \* months in which a call died or outlived its month
    triageFaults

triageVars ==
    <<month, opened, tokens, asking, modelCalls, classified, stopped, upset, triageFaults>>

Month == 0 .. LastMonth
Idle == [at |-> "idle", reply |-> NoReply, attempt |-> 1, booked |-> 0, since |-> 0,
         used |-> 0, valid |-> TRUE]
Unclassified == [by |-> "nobody", label |-> FALSE]
Outcomes == {Unclassified} \cup [by : {"deterministic", "model"}, label : BOOLEAN]

TriageTypeOK ==
    /\ month \in Month /\ opened \subseteq Month /\ upset \subseteq Month
    /\ tokens \in [Month -> Nat]
    /\ \A c \in Caller :
          /\ asking[c].at \in {"idle", "suppress", "look", "reserve", "call", "release",
                               "settle", "record", "persist"}
          /\ asking[c].reply \in Reply \cup {NoReply} /\ asking[c].attempt \in 1 .. 2
    /\ \A row \in modelCalls : row.month \in Month /\ row.used \in Nat
    /\ classified \in [Reply -> Outcomes]
    /\ stopped \subseteq Reply

TriageInit ==
    /\ month = 0 /\ opened = {} /\ tokens = [m \in Month |-> 0]
    /\ asking = [c \in Caller |-> Idle]
    /\ modelCalls = {}
    /\ classified = [r \in Reply |-> Unclassified]
    /\ stopped = {} /\ upset = {} /\ triageFaults = 0

Goes(c, place) == asking' = [asking EXCEPT ![c] = [@ EXCEPT !.at = place]]

\* triage, the deterministic pass: detectOptOut needs no model.
Classify(c, r) ==
    /\ asking[c] = Idle
    /\ asking' = [asking EXCEPT ![c] =
                    [Idle EXCEPT !.at = IF r \in Keyword THEN "suppress" ELSE "look",
                                 !.reply = r]]
    /\ UNCHANGED <<month, opened, tokens, modelCalls, classified, stopped, upset, triageFaults>>

\* Mutant of AddProtection: the classification is written first, and ends the call.
ProtectionLater(c) ==
    /\ asking[c].at = "suppress"
    /\ Goes(c, "persist")
    /\ UNCHANGED <<month, opened, tokens, modelCalls, classified, stopped, upset, triageFaults>>

\* classifyReply: the one consent effect, before the classification is written.
AddProtection(c) ==
    /\ asking[c].at = "suppress"
    /\ stopped' = stopped \cup {asking[c].reply}
    /\ Goes(c, "persist")
    /\ UNCHANGED <<month, opened, tokens, modelCalls, classified, upset, triageFaults>>

\* recordModelCall.
Insert(c, status, hit, used) ==
    /\ Cardinality(modelCalls) < MaxModelCalls
    /\ modelCalls' = modelCalls \cup
          {[id |-> Cardinality(modelCalls), body |-> Body[asking[c].reply], status |-> status,
            hit |-> hit, used |-> used, month |-> asking[c].since]}

\* Mutant of Cached: any answer that validated is served.
CachedRepaired(r) == {row \in modelCalls : row.body = Body[r] /\ row.status \in {"ok", "retry_ok"}}

\* cacheLookup: only an answer that validated at the first attempt is served.
Cached(r) == {row \in modelCalls : row.body = Body[r] /\ row.status = "ok"}

ServeCached(c) ==
    /\ asking[c].at = "look" /\ Cached(asking[c].reply) # {}
    /\ Insert(c, "ok", TRUE, 0)
    /\ Goes(c, "persist")
    /\ UNCHANGED <<month, opened, tokens, classified, stopped, upset, triageFaults>>

Miss(c) ==
    /\ asking[c].at = "look" /\ Cached(asking[c].reply) = {}
    /\ Goes(c, "reserve")
    /\ UNCHANGED <<month, opened, tokens, modelCalls, classified, stopped, upset, triageFaults>>

\* reserveTokens: one upsert that books the estimate or returns no row, and then
\* TokenBudgetExceededError leaves the reply without a classification.
Reserve(c) ==
    /\ asking[c].at = "reserve"
    /\ IF tokens[month] + Estimate <= Budget
       THEN /\ opened' = opened \cup {month}
            /\ tokens' = [tokens EXCEPT ![month] = @ + Estimate]
            /\ asking' = [asking EXCEPT ![c] = [@ EXCEPT !.at = "call", !.booked = Estimate,
                                                        !.since = month]]
       ELSE asking' = [asking EXCEPT ![c] = Idle] /\ UNCHANGED <<opened, tokens>>
    /\ UNCHANGED <<month, modelCalls, classified, stopped, upset, triageFaults>>

\* deps.model.complete: an answer that satisfies the schema or not, or an exception.
Answer(c) ==
    /\ asking[c].at = "call"
    /\ \E used \in Usage, valid \in BOOLEAN :
          asking' = [asking EXCEPT ![c] = [@ EXCEPT !.at = "settle", !.used = used,
                                                    !.valid = valid]]
    /\ UNCHANGED <<month, opened, tokens, modelCalls, classified, stopped, upset, triageFaults>>

VendorThrows(c) ==
    /\ asking[c].at = "call"
    /\ Goes(c, "release")
    /\ UNCHANGED <<month, opened, tokens, modelCalls, classified, stopped, upset, triageFaults>>

\* Mutant of Correct: the clamp is left to the table's CHECK constraint.
CorrectUnclamped(delta) ==
    tokens' = IF month \in opened THEN [tokens EXCEPT ![month] = @ + delta] ELSE tokens

\* settleTokens and releaseTokens update the row of the clock's month, if there
\* is one, whichever month the reservation was booked in.
Correct(delta) ==
    tokens' = IF month \in opened
              THEN [tokens EXCEPT ![month] = IF @ + delta > 0 THEN @ + delta ELSE 0]
              ELSE tokens

\* Mutant of Release: the exception is rethrown with the reservation kept.
ReleaseForgotten(c) ==
    /\ asking[c].at = "release"
    /\ asking' = [asking EXCEPT ![c] = Idle]
    /\ UNCHANGED <<month, opened, tokens, modelCalls, classified, stopped, upset, triageFaults>>

Release(c) ==
    /\ asking[c].at = "release"
    /\ Correct(0 - asking[c].booked)
    /\ asking' = [asking EXCEPT ![c] = Idle]
    /\ UNCHANGED <<month, opened, modelCalls, classified, stopped, upset, triageFaults>>

SettleCall(c) ==
    /\ asking[c].at = "settle"
    /\ Correct(asking[c].used - asking[c].booked)
    /\ asking' = [asking EXCEPT ![c] = [@ EXCEPT !.at = "record", !.booked = 0]]
    /\ UNCHANGED <<month, opened, modelCalls, classified, stopped, upset, triageFaults>>

\* The row of the call, and the one repair attempt after a schema violation.
RecordCall(c) ==
    /\ asking[c].at = "record"
    /\ LET a == asking[c]
           status == CASE a.valid /\ a.attempt = 1 -> "ok"
                       [] a.valid /\ a.attempt = 2 -> "retry_ok"
                       [] ~a.valid /\ a.attempt = 1 -> "schema_violation"
                       [] ~a.valid /\ a.attempt = 2 -> "escalated"
       IN /\ Insert(c, status, FALSE, a.used)
          /\ IF status = "schema_violation"
             THEN asking' = [asking EXCEPT ![c] = [@ EXCEPT !.at = "reserve", !.attempt = 2,
                                                            !.used = 0]]
             ELSE asking' = [asking EXCEPT ![c] = [@ EXCEPT !.at = "persist", !.used = 0]]
    /\ UNCHANGED <<month, opened, tokens, classified, stopped, upset, triageFaults>>

\* persistClassification: one row for a reply and prompt, the last answer in it; an
\* escalated answer has no label.
Persist(c) ==
    /\ asking[c].at = "persist"
    /\ LET a == asking[c]
       IN classified' = [classified EXCEPT ![a.reply] =
             IF a.reply \in Keyword THEN [by |-> "deterministic", label |-> TRUE]
             ELSE [by |-> "model", label |-> a.valid]]
    /\ asking' = [asking EXCEPT ![c] = Idle]
    /\ UNCHANGED <<month, opened, tokens, modelCalls, stopped, upset, triageFaults>>

\* The process dies between two statements; what it booked stays booked, and what
\* it settled was never recorded.
CallerDies(c) ==
    /\ asking[c] # Idle /\ triageFaults < MaxFaults
    /\ triageFaults' = triageFaults + 1
    /\ upset' = IF asking[c].booked + asking[c].used > 0 THEN upset \cup {asking[c].since} ELSE upset
    /\ asking' = [asking EXCEPT ![c] = Idle]
    /\ UNCHANGED <<month, opened, tokens, modelCalls, classified, stopped>>

\* The clock enters the next month; a reservation in flight will be corrected there.
MonthEnds ==
    /\ month < LastMonth
    /\ month' = month + 1
    /\ upset' = IF \E c \in Caller : asking[c].booked > 0 THEN upset \cup {month, month + 1} ELSE upset
    /\ UNCHANGED <<opened, tokens, asking, modelCalls, classified, stopped, triageFaults>>

TriageNext ==
    \/ \E c \in Caller :
          \/ \E r \in Reply : Classify(c, r)
          \/ AddProtection(c) \/ ServeCached(c) \/ Miss(c) \/ Reserve(c) \/ Answer(c)
          \/ VendorThrows(c) \/ Release(c) \/ SettleCall(c) \/ RecordCall(c) \/ Persist(c)
          \/ CallerDies(c)
    \/ MonthEnds

TriageSpec == TriageInit /\ [][TriageNext]_triageVars

-----------------------------------------------------------------------------
(* Properties                                                              *)

\* The sum of the values of f, counted unit by unit.
Units(f) == UNION {{x} \X (1 .. f[x]) : x \in DOMAIN f}
Total(f) == Cardinality(Units(f))

\* What a recorded call used in month m, and what a call that goes on holds of it.
UsedIn(m, row) == IF row.month = m THEN row.used ELSE 0
HeldIn(m, a) == IF a.since # m THEN 0 ELSE IF a.at = "record" THEN a.used ELSE a.booked

\* The ledger of a month is what its open calls have reserved, plus what its
\* recorded calls used, plus what was settled and is about to be recorded: the two
\* tables of budget.ts and classifier.ts agree whatever the callers interleave.  A
\* call that dies, or is settled in another month, is the only thing that parts them.
LedgerAccounts ==
    \A m \in Month \ upset :
        tokens[m] = Total([row \in modelCalls |-> UsedIn(m, row)])
                    + Total([c \in Caller |-> HeldIn(m, asking[c])])

\* Nothing but the keyword suppresses a sender (the model's label never reaches
\* addSuppression), and a reply filed as an opt-out has its sender suppressed.
OptOutHonoured ==
    /\ stopped \subseteq Keyword
    /\ \A r \in Reply : classified[r].by = "deterministic" => r \in stopped

\* An answer served from the cache was given by the model at the first attempt for
\* that body: a repaired answer is never made permanent (classifier.ts, cacheLookup).
CacheServesFirstAnswers ==
    \A hit \in modelCalls :
        hit.hit => \E row \in modelCalls :
                      /\ ~row.hit /\ row.body = hit.body /\ row.id < hit.id
                      /\ row.status = "ok"
=============================================================================
