------------------------------ MODULE Providers ------------------------------
(***************************************************************************)
(* One message and the providers it is handed to (packages/providers): the *)
(* sender of a tenant is looked up, its adapter calls the provider, what   *)
(* comes back becomes a code, the code is looked up in ERROR_TABLE, and    *)
(* the row is sent, given up or put off.  What the provider did and what   *)
(* the caller hears of it are two things.  Who may hold the row is         *)
(* Delivery's subject; here one pass at a time does.                       *)
(***************************************************************************)
EXTENDS Integers, Sequences, FiniteSets

CONSTANTS
    Settings,       \* the deployments looked at: mode, channel, configured
    CredentialLists,\* active rows of provider_credentials, by created_at
    MaxAttempts,    \* deps.maxAttempts
    MaxRewrites,       \* bound: edits of the credentials
    NoSender, NoCode, NewCode

\* intFromEnv of the worker takes MAX_ATTEMPTS when it is positive; only these
\* three adapters are configured by variables.
ASSUME ProviderConstants ==
    /\ MaxAttempts \in Nat \ {0}
    /\ \A s \in Settings : s.configured \subseteq {"smtp", "postmark", "twilio"}

VARIABLES
    setting,      \* send mode, channel, and the providers whose variables are set
    credentials,
    row,          \* status, attempts, the delay it was put off by and whether it is over
    pass,         \* where the pass is, the provider it uses, what it heard
    handed,       \* history: times a provider took the message
    lost,         \* history: times it did and the caller was not told
    heard,        \* history: answers heard of every kind
    former,       \* history: the delay before the present one
    rewrites      \* edits of the credentials so far

providerVars == <<setting, credentials, row, pass, handed, lost, heard, former, rewrites>>

-----------------------------------------------------------------------------
(* ERROR_TABLE: the codes of a provider by what the table says of them. A   *)
(* rule of a configuration problem is transient with a ceiling of its own. *)

SmtpRules ==
    [terminal |-> {"550", "551", "552", "553", "554", "EENVELOPE"},
     config |-> {"535", "EAUTH"},
     transient |-> {"421", "450", "451", "452", "454", "ETIMEDOUT", "ECONNRESET", "ECONNREFUSED",
                    "ESOCKET", "EDNS"}]

Gateway == {"HTTP_429", "HTTP_500", "HTTP_502", "HTTP_503", "HTTP_504"}

PostmarkRules ==
    [terminal |-> {"300", "InvalidEmail", "402", "403", "406", "InactiveRecipient", "411"},
     config |-> {"400", "401", "405"},
     transient |-> {"429", "500", "503", "ETIMEDOUT", "ECONNRESET"} \cup Gateway]

TwilioRules ==
    [terminal |-> {"21211", "21214", "21610", "21612", "21614", "21617", "30003", "30005", "30006",
                   "30007", "30010"},
     config |-> {"20003", "21212", "21408", "30002"},
     transient |-> {"20429", "30001", "ETIMEDOUT", "ECONNRESET"} \cup Gateway]

MockRules ==
    [terminal |-> {"mock_invalid_recipient"},
     config |-> {},
     transient |-> {"mock_rate_limited", "mock_transient_failure", "mock_timeout"}]

Rules == [smtp |-> SmtpRules, postmark |-> PostmarkRules, twilio |-> TwilioRules, mock |-> MockRules]

CodeKind == {"terminal", "config", "transient", "unmapped"}

KindOf(provider, code) ==
    LET rules == Rules[provider]
    IN  CASE code \in rules.terminal -> "terminal"
          [] code \in rules.config -> "config"
          [] code \in rules.transient -> "transient"
          [] OTHER -> "unmapped"

Ceilings == [terminal |-> 1, config |-> 2, unmapped |-> 2, transient |-> 5]

\* Mutant of ClassifyCode: a code that is not in the table is retried like a
\* transient one.
ClassifyCodeUncapped(provider, code) ==
    LET kind == KindOf(provider, code)
    IN  [terminal |-> kind = "terminal", kind |-> kind,
         maxAttempts |-> IF kind = "unmapped" THEN Ceilings.transient ELSE Ceilings[kind]]

ClassifyCode(provider, code) ==
    LET kind == KindOf(provider, code)
    IN  [terminal |-> kind = "terminal", kind |-> kind, maxAttempts |-> Ceilings[kind]]

\* baseAttemptDelayMs, in minutes.
BaseDelay(attempts) == IF 2 ^ attempts < 60 THEN 2 ^ attempts ELSE 60

\* nextAttemptDelayMs, in fifths of a minute: both edges of the jitter, plus or
\* minus a fifth.
Delays(attempts) == {5 * BaseDelay(attempts) + jitter * BaseDelay(attempts) : jitter \in {-1, 1}}

-----------------------------------------------------------------------------
(* The sender.                                                             *)

Carries == [mock |-> {"email", "sms"}, smtp |-> {"email"}, postmark |-> {"email"}, twilio |-> {"sms"}]

\* The order in which the environment is asked for a sender.
SenderFromEnv ==
    LET order == IF setting.channel = "email" THEN <<"smtp", "postmark">> ELSE <<"twilio">>
        found == SelectSeq(order, LAMBDA p : p \in setting.configured)
    IN  IF found = <<>> THEN NoSender ELSE Head(found)

\* Every active row is looked at; the first with an address to send from wins,
\* whatever the environment states.
ResolveSender ==
    LET usable == SelectSeq(credentials, LAMBDA c : c.from # "")
    IN  CASE usable # <<>> -> Head(usable).provider
          [] usable = <<>> /\ setting.mode = "mock" -> "mock"
          [] OTHER -> SenderFromEnv

\* providerFor and resolveProvider; the adapters' configuration is read here
\* and throws when it is missing.
Adapter(name) == IF setting.mode = "mock" THEN "mock" ELSE name
AdapterThrows(name) ==
    /\ Adapter(name) # "mock"
    /\ setting.channel \notin Carries[name] \/ name \notin setting.configured

-----------------------------------------------------------------------------
(* What a provider does with a call and what the caller gets to see.       *)
(* reply: "whole", "none" (the connection or our deadline), or "cut" (the  *)
(* head arrived, the body did not).                                        *)

Seen(reply, ok, id, code, status) == [reply |-> reply, ok |-> ok, id |-> id, code |-> code, status |-> status]
Fate(taken, told, answer) == [taken |-> taken, told |-> told, answer |-> answer]

\* The code of a refusal: one of the table that the API can answer, or a new one.
Numbered(provider) ==
    {NewCode} \cup ((Rules[provider].terminal \cup Rules[provider].config \cup Rules[provider].transient)
                    \ ({"ETIMEDOUT", "ECONNRESET", "InvalidEmail", "InactiveRecipient"} \cup Gateway))

\* Nothing that came back tells whether the message was taken.
LeftOpen(answer) == {Fate(taken, FALSE, answer) : taken \in BOOLEAN}

\* A refusal is in the body, also under a 200; the page of a gateway has no code.
Refusals(provider, ok) == {Fate(FALSE, TRUE, Seen("whole", ok, FALSE, code, "HTTP_422")) : code \in Numbered(provider)}
GatewayPages == UNION {LeftOpen(Seen("whole", FALSE, FALSE, NoCode, status)) : status \in Gateway}
Silences == UNION {LeftOpen(Seen("none", FALSE, FALSE, code, NoCode)) : code \in {"ETIMEDOUT", "ECONNRESET", "UNKNOWN"}}

HttpFates(provider) ==
    {Fate(TRUE, TRUE, Seen("whole", TRUE, TRUE, NoCode, NoCode))}
    \cup Refusals(provider, TRUE) \cup Refusals(provider, FALSE)
    \cup GatewayPages \cup Silences \cup LeftOpen(Seen("cut", TRUE, FALSE, NoCode, NoCode))

\* Whoever is refused by the receiving server hears its reply code; the codes
\* of the library are about the connection.
SmtpFates ==
    {Fate(TRUE, TRUE, Seen("whole", TRUE, TRUE, NoCode, NoCode))}
    \cup {Fate(FALSE, TRUE, Seen("none", FALSE, FALSE, code, NoCode)) : code \in Numbered("smtp")}
    \cup UNION {LeftOpen(Seen("none", FALSE, FALSE, code, NoCode)) : code \in {"ETIMEDOUT", "ECONNRESET"}}

\* The mock writes its outbox first; that statement may fail.
MockFates ==
    {Fate(TRUE, TRUE, Seen("whole", TRUE, TRUE, NoCode, NoCode)),
     Fate(FALSE, TRUE, Seen("whole", FALSE, FALSE, "mock_invalid_recipient", NoCode)),
     Fate(FALSE, TRUE, Seen("whole", FALSE, FALSE, "mock_rate_limited", NoCode)),
     Fate(FALSE, TRUE, Seen("cut", FALSE, FALSE, NoCode, NoCode))}

Fates(provider) ==
    CASE provider = "mock" -> MockFates
      [] provider = "smtp" -> SmtpFates
      [] OTHER -> HttpFates(provider)

-----------------------------------------------------------------------------
(* The adapters: from what was seen to a ProviderResult.                   *)

Accepted == [ok |-> TRUE, code |-> NoCode]
RefusedWith(code) == [ok |-> FALSE, code |-> code]

\* An abort by our own deadline is reported as ETIMEDOUT.
TransportFailure(answer) == RefusedWith(answer.code)

\* Mutant of PostmarkSend: the status alone decides.
PostmarkSendByStatus(answer) ==
    IF answer.reply = "none" THEN TransportFailure(answer)
    ELSE IF answer.ok THEN Accepted
    ELSE RefusedWith(IF answer.code # NoCode THEN answer.code ELSE answer.status)

\* The verdict is in the body: a 200 with a code is a refusal.
PostmarkSend(answer) ==
    IF answer.reply = "none" THEN TransportFailure(answer)
    ELSE IF answer.ok /\ answer.id /\ answer.code = NoCode THEN Accepted
    ELSE RefusedWith(IF answer.code # NoCode THEN answer.code ELSE answer.status)

TwilioSend(answer) ==
    IF answer.reply = "none" THEN TransportFailure(answer)
    ELSE IF answer.ok /\ answer.id /\ answer.code = NoCode THEN Accepted
    ELSE RefusedWith(IF answer.code # NoCode THEN answer.code ELSE answer.status)

\* responseCode, else the library's code.
SmtpSend(answer) == IF answer.ok THEN Accepted ELSE RefusedWith(answer.code)

MockSend(answer) == IF answer.ok THEN Accepted ELSE RefusedWith(answer.code)

Result(provider, answer) ==
    CASE provider = "postmark" -> PostmarkSend(answer)
      [] provider = "twilio" -> TwilioSend(answer)
      [] provider = "smtp" -> SmtpSend(answer)
      [] provider = "mock" -> MockSend(answer)

-----------------------------------------------------------------------------
AtRest == [at |-> "rest"]

ProvidersInit ==
    /\ setting \in Settings
    /\ credentials \in CredentialLists
    /\ row = [status |-> "pending", attempts |-> 0, delay |-> 0, due |-> TRUE]
    /\ pass = AtRest
    /\ handed = 0 /\ lost = 0 /\ heard = [k \in CodeKind |-> 0] /\ former = 0 /\ rewrites = 0

\* claimBatch of Delivery, for this row.
TakeRow ==
    /\ row.status = "pending" /\ row.due
    /\ row' = [row EXCEPT !.status = "processing", !.attempts = @ + 1]
    /\ pass' = [at |-> "sender"]
    /\ UNCHANGED <<setting, credentials, handed, lost, heard, former, rewrites>>

Concludes(status) == row' = [row EXCEPT !.status = status] /\ pass' = AtRest

\* Without a sender the message is cancelled; an adapter that cannot be made
\* throws, and the catch around the message records a terminal failure.
PickSender ==
    /\ pass.at = "sender"
    /\ CASE ResolveSender = NoSender -> Concludes("cancelled")
         [] ResolveSender # NoSender /\ AdapterThrows(ResolveSender) -> Concludes("failed")
         [] OTHER -> pass' = [at |-> "call", provider |-> Adapter(ResolveSender)] /\ UNCHANGED row
    /\ UNCHANGED <<setting, credentials, handed, lost, heard, former, rewrites>>

\* The irreversible part.
CallProvider ==
    /\ pass.at = "call"
    /\ \E fate \in Fates(pass.provider) :
          /\ pass' = [at |-> "answer", provider |-> pass.provider, answer |-> fate.answer]
          /\ handed' = IF fate.taken THEN handed + 1 ELSE handed
          /\ lost' = IF fate.taken /\ ~fate.told THEN lost + 1 ELSE lost
    /\ UNCHANGED <<setting, credentials, row, heard, former, rewrites>>

Hears(provider, code) ==
    heard' = [heard EXCEPT ![KindOf(provider, code)] = @ + 1]

\* The adapter threw instead of returning: recorded as a terminal failure.
SendThrows ==
    /\ pass.at = "answer" /\ pass.answer.reply = "cut"
    /\ Concludes("failed")
    /\ UNCHANGED <<setting, credentials, handed, lost, heard, former, rewrites>>

RecordAccepted ==
    /\ pass.at = "answer" /\ pass.answer.reply # "cut"
    /\ Result(pass.provider, pass.answer).ok
    /\ Concludes("sent")
    /\ UNCHANGED <<setting, credentials, handed, lost, heard, former, rewrites>>

\* Mutant of GivesUp: a terminal class is not looked at.
GivesUpByCount(provider, code) ==
    row.attempts >= (IF MaxAttempts < 5 THEN MaxAttempts ELSE 5)

\* Terminal, or as many attempts as the code or the deployment allows.
GivesUp(provider, code) ==
    LET found == ClassifyCode(provider, code)
    IN  found.terminal \/ row.attempts >= found.maxAttempts \/ row.attempts >= MaxAttempts

RecordRefused ==
    LET result == Result(pass.provider, pass.answer)
    IN  /\ pass.at = "answer" /\ pass.answer.reply # "cut"
        /\ ~result.ok
        /\ IF GivesUp(pass.provider, result.code)
           THEN Concludes("failed") /\ UNCHANGED former
           ELSE \E delay \in Delays(row.attempts) :
                  /\ row' = [row EXCEPT !.status = "pending", !.delay = delay, !.due = FALSE]
                  /\ former' = row.delay
                  /\ pass' = AtRest
        /\ Hears(pass.provider, result.code)
        /\ UNCHANGED <<setting, credentials, handed, lost, rewrites>>

DelayPasses ==
    /\ row.status = "pending" /\ ~row.due
    /\ row' = [row EXCEPT !.due = TRUE]
    /\ UNCHANGED <<setting, credentials, pass, handed, lost, heard, former, rewrites>>

\* Somebody rewrites the credentials of the tenant between two attempts, or
\* while one is under way.
RewriteCredentials ==
    /\ rewrites < MaxRewrites /\ row.status \in {"pending", "processing"}
    /\ credentials' \in CredentialLists \ {credentials}
    /\ rewrites' = rewrites + 1
    /\ UNCHANGED <<setting, row, pass, handed, lost, heard, former>>

ProvidersNext ==
    \/ TakeRow \/ PickSender \/ CallProvider \/ SendThrows \/ RecordAccepted \/ RecordRefused
    \/ DelayPasses \/ RewriteCredentials

ProvidersSpec == ProvidersInit /\ [][ProvidersNext]_providerVars

-----------------------------------------------------------------------------
ProvidersTypeOK ==
    /\ setting \in Settings /\ credentials \in CredentialLists
    /\ row.status \in {"pending", "processing", "sent", "failed", "cancelled"}
    /\ row.attempts \in 0 .. MaxAttempts /\ row.due \in BOOLEAN /\ row.delay \in Nat
    /\ pass.at \in {"rest", "sender", "call", "answer"}
    /\ (pass.at = "rest") = (row.status # "processing")
    /\ lost <= handed

(***************************************************************************)
(* Every copy a provider took is the one the row records as sent, one that *)
(* is being recorded, or one whose answer never reached the adapter: no    *)
(* refusal, gateway page, retry or change of provider sends a message a    *)
(* second time or records as sent what nobody took.                        *)
(***************************************************************************)
EveryCopyAccounted ==
    handed = lost + (IF \/ row.status = "sent"
                        \/ pass.at = "answer" /\ pass.answer.reply = "whole" /\ pass.answer.id
                     THEN 1 ELSE 0)

(***************************************************************************)
(* errors.ts: a recipient that was refused for good is not written to      *)
(* again, and no code, known or not, is met more often than the table      *)
(* allows, whichever providers the attempts went through.                  *)
(***************************************************************************)
CeilingsHold ==
    /\ \A k \in CodeKind : heard[k] <= Ceilings[k]
    /\ heard["terminal"] > 0 => row.status = "failed"

(***************************************************************************)
(* backoff.ts: the retries of a message move apart, the jitter never makes *)
(* one wait shorter than the wait before it.                               *)
(***************************************************************************)
RetriesMoveApart == row.delay > 0 => row.delay > former
=============================================================================
