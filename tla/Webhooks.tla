------------------------------ MODULE Webhooks ------------------------------
(***************************************************************************)
(* Provider callbacks (packages/api/src/routes/webhooks.ts) and the        *)
(* provider that posts them (packages/providers).  Ingestion is a series   *)
(* of statements on the pool: the raw callback, the lookup of the row, the *)
(* event, the status, the suppression, the mark that it was processed.     *)
(* Other callbacks, redeliveries of the same one and the delivery pass     *)
(* that still has to record the send run in between, and the process may   *)
(* end after any of them.                                                  *)
(***************************************************************************)
EXTENDS Naturals, FiniteSets

CONSTANTS
    Letter,         \* messages handed to the provider
    Handler,        \* requests the API serves at once
    NoReceipt,
    MaxMishaps      \* bound: requests that die, and changes of the credential

Fate == {"delivered", "failed", "bounced", "complained"}
Receipt == Letter \X Fate

ASSUME WebhookConstants ==
    NoReceipt \notin Receipt /\ MaxMishaps \in Nat

VARIABLES
    letter,      \* status of each row; provider_message_id is stored from "sent" on
    owed,        \* callbacks the provider has yet to see answered with 200
    forms,       \* the letters whose provider posts forms, not JSON (Twilio)
    credential,  \* does an active credential match the provider's signature
    call,        \* the request each handler serves
    kept,        \* webhook_deliveries, as the receipts whose body was stored
    events,      \* message_events, by idempotency key
    suppressed,  \* letters whose address has a suppression for a bounce or complaint
    mishaps,
    applied,     \* history: how often the status of a receipt was written
    dropped,     \* history: receipts answered with 200 that found no row
    cutShort     \* history: receipts whose request died after the event was written

hookVars == <<letter, owed, forms, credential, call, kept, events, suppressed, mishaps,
              applied, dropped, cutShort>>
hookHistory == <<applied, dropped, cutShort>>

Waiting == [at |-> "idle", receipt |-> NoReceipt]
HookStep == {"idle", "verify", "lookup", "insert", "status", "suppress", "finish"}

HooksInit ==
    /\ letter = [l \in Letter |-> "processing"]
    /\ owed = {} /\ forms \in SUBSET Letter /\ credential = TRUE
    /\ call = [h \in Handler |-> Waiting]
    /\ kept = {} /\ events = {} /\ suppressed = {}
    /\ mishaps = 0
    /\ applied = [r \in Receipt |-> 0]
    /\ dropped = {} /\ cutShort = {}

Turns(h, step) == call' = [call EXCEPT ![h].at = step]
Serves(h, step) == call[h].at = step
What(h) == call[h].receipt

-----------------------------------------------------------------------------
(* The provider and the pass that sends *)

\* What the provider will report of a letter it accepted: a complaint comes
\* with a delivery before it.
Reports(l, fate) == IF fate = "complained" THEN {<<l, "delivered">>, <<l, "complained">>}
                                           ELSE {<<l, fate>>}

\* provider.send: from now on callbacks may come, recorded or not.
Accept(l, fate) ==
    /\ letter[l] = "processing"
    /\ letter' = [letter EXCEPT ![l] = "accepted"]
    /\ owed' = owed \cup Reports(l, fate)
    /\ UNCHANGED <<forms, credential, call, kept, events, suppressed, mishaps, hookHistory>>

\* markSent stores the provider's id for the letter.
RecordSend(l) ==
    /\ letter[l] = "accepted"
    /\ letter' = [letter EXCEPT ![l] = "sent"]
    /\ UNCHANGED <<owed, forms, credential, call, kept, events, suppressed, mishaps, hookHistory>>

\* A key is rotated at the provider, and later entered here.
RotateCredential ==
    /\ mishaps < MaxMishaps
    /\ mishaps' = mishaps + 1
    /\ credential' = ~credential
    /\ UNCHANGED <<letter, owed, forms, call, kept, events, suppressed, hookHistory>>

-----------------------------------------------------------------------------
(* One request *)

\* Mutant of Receive: nothing is stored before the signature was checked.
ReceiveVerified(h, r) ==
    /\ Serves(h, "idle") /\ r \in owed
    /\ call' = [call EXCEPT ![h] = [at |-> "verify", receipt |-> r]]
    /\ kept' = IF credential THEN kept \cup {r} ELSE kept
    /\ UNCHANGED <<letter, owed, forms, credential, events, suppressed, mishaps, hookHistory>>

\* Whatever it says, the callback is stored first.
Receive(h, r) ==
    /\ Serves(h, "idle") /\ r \in owed
    /\ call' = [call EXCEPT ![h] = [at |-> "verify", receipt |-> r]]
    /\ kept' = kept \cup {r}
    /\ UNCHANGED <<letter, owed, forms, credential, events, suppressed, mishaps, hookHistory>>

\* Every active credential is tried; without a match the answer is 401.
Verify(h) ==
    /\ Serves(h, "verify")
    /\ call' = [call EXCEPT ![h] = IF credential THEN [@ EXCEPT !.at = "lookup"] ELSE Waiting]
    /\ UNCHANGED <<letter, owed, forms, credential, kept, events, suppressed, mishaps, hookHistory>>

\* parseWebhook reads JSON only, and a receipt is dropped unless its row is known.
Lookup(h) ==
    LET found == What(h)[1] \notin forms /\ letter[What(h)[1]] \notin {"processing", "accepted"}
    IN  /\ Serves(h, "lookup")
        /\ Turns(h, IF found THEN "insert" ELSE "finish")
        /\ dropped' = IF found THEN dropped ELSE dropped \cup {What(h)}
        /\ UNCHANGED <<letter, owed, forms, credential, kept, events, suppressed, mishaps, applied, cutShort>>

\* Mutant of InsertEvent: DO UPDATE, which returns a row for a duplicate too.
InsertEventAgain(h) ==
    /\ Serves(h, "insert")
    /\ events' = events \cup {What(h)}
    /\ Turns(h, "status")
    /\ UNCHANGED <<letter, owed, forms, credential, kept, suppressed, mishaps, hookHistory>>

\* Mutant of InsertEvent: no ON CONFLICT, so that a duplicate fails the request.
InsertEventStrict(h) ==
    /\ Serves(h, "insert")
    /\ events' = events \cup {What(h)}
    /\ call' = [call EXCEPT ![h] = IF What(h) \in events THEN Waiting ELSE [@ EXCEPT !.at = "status"]]
    /\ UNCHANGED <<letter, owed, forms, credential, kept, suppressed, mishaps, hookHistory>>

\* INSERT ... ON CONFLICT (tenant_id, idempotency_key) DO NOTHING: a receipt
\* that is known already is done with.
InsertEvent(h) ==
    /\ Serves(h, "insert")
    /\ events' = events \cup {What(h)}
    /\ Turns(h, IF What(h) \in events THEN "finish" ELSE "status")
    /\ UNCHANGED <<letter, owed, forms, credential, kept, suppressed, mishaps, hookHistory>>

\* Mutant of SetStatus: a row that has its verdict is left alone, and so is
\* everything that comes after.
SetStatusOnce(h) ==
    LET l == What(h)[1] IN
    /\ Serves(h, "status")
    /\ letter' = IF letter[l] = "sent" THEN [letter EXCEPT ![l] = What(h)[2]] ELSE letter
    /\ applied' = [applied EXCEPT ![What(h)] = @ + 1]
    /\ Turns(h, IF What(h)[2] \in {"delivered", "failed"} \/ letter[l] # "sent" THEN "finish" ELSE "suppress")
    /\ UNCHANGED <<owed, forms, credential, kept, events, suppressed, mishaps, dropped, cutShort>>

\* Mutant of SetStatus: an event type that has no status of its own is stored raw.
SetStatusRaw(h) ==
    /\ Serves(h, "status")
    /\ letter' = [letter EXCEPT ![What(h)[1]] = IF What(h)[2] = "complained" THEN "complaint" ELSE What(h)[2]]
    /\ applied' = [applied EXCEPT ![What(h)] = @ + 1]
    /\ Turns(h, IF What(h)[2] \in {"delivered", "failed"} THEN "finish" ELSE "suppress")
    /\ UNCHANGED <<owed, forms, credential, kept, events, suppressed, mishaps, dropped, cutShort>>

\* The last receipt to arrive decides the status of the row.
SetStatus(h) ==
    /\ Serves(h, "status")
    /\ letter' = [letter EXCEPT ![What(h)[1]] = What(h)[2]]
    /\ applied' = [applied EXCEPT ![What(h)] = @ + 1]
    /\ Turns(h, IF What(h)[2] \in {"delivered", "failed"} THEN "finish" ELSE "suppress")
    /\ UNCHANGED <<owed, forms, credential, kept, events, suppressed, mishaps, dropped, cutShort>>

\* A bounce or a complaint suppresses the address.
Suppress(h) ==
    /\ Serves(h, "suppress")
    /\ suppressed' = suppressed \cup {What(h)[1]}
    /\ Turns(h, "finish")
    /\ UNCHANGED <<letter, owed, forms, credential, kept, events, mishaps, hookHistory>>

\* processed_at, and 200: the provider will not call again.
Answer(h) ==
    /\ Serves(h, "finish")
    /\ owed' = owed \ {What(h)}
    /\ call' = [call EXCEPT ![h] = Waiting]
    /\ UNCHANGED <<letter, forms, credential, kept, events, suppressed, mishaps, hookHistory>>

\* A statement throws or the process ends: no 200, no rollback.
RequestDies(h) ==
    /\ ~Serves(h, "idle") /\ mishaps < MaxMishaps
    /\ mishaps' = mishaps + 1
    /\ cutShort' = IF call[h].at \in {"status", "suppress"} THEN cutShort \cup {What(h)} ELSE cutShort
    /\ call' = [call EXCEPT ![h] = Waiting]
    /\ UNCHANGED <<letter, owed, forms, credential, kept, events, suppressed, applied, dropped>>

-----------------------------------------------------------------------------
Handle(h) == Verify(h) \/ Lookup(h) \/ InsertEvent(h) \/ SetStatus(h) \/ Suppress(h) \/ Answer(h)

HooksNext ==
    \/ \E l \in Letter : RecordSend(l) \/ \E fate \in Fate : Accept(l, fate)
    \/ RotateCredential
    \/ \E h \in Handler : Handle(h) \/ RequestDies(h) \/ \E r \in Receipt : Receive(h, r)

\* A request that is being served goes on, and a provider repeats a callback
\* until it is answered with 200.
HooksFairness ==
    /\ \A h \in Handler : WF_hookVars(Handle(h))
    /\ \A r \in Receipt : SF_hookVars(\E h \in Handler : Receive(h, r))

HooksSpec == HooksInit /\ [][HooksNext]_hookVars

-----------------------------------------------------------------------------
HooksTypeOK ==
    /\ letter \in [Letter -> {"processing", "accepted", "sent"} \cup Fate]
    /\ owed \subseteq Receipt /\ forms \subseteq Letter /\ credential \in BOOLEAN
    /\ call \in [Handler -> [at : HookStep, receipt : Receipt \cup {NoReceipt}]]
    /\ \A h \in Handler : call[h].at = "idle" <=> call[h].receipt = NoReceipt
    /\ kept \subseteq Receipt /\ events \subseteq Receipt /\ suppressed \subseteq Letter
    /\ mishaps \in 0..MaxMishaps
    /\ applied \in [Receipt -> Nat]
    /\ dropped \subseteq Receipt /\ cutShort \subseteq Receipt

Serving(r, steps) == \E h \in Handler : call[h].receipt = r /\ call[h].at \in steps

(***************************************************************************)
(* A receipt that is redelivered, also while the first copy of it is still *)
(* being served, changes the row once (applyProviderEvent).                *)
(***************************************************************************)
AppliedOnce == \A r \in Receipt : applied[r] <= 1

(***************************************************************************)
(* Who bounced or complained is suppressed once the event is recorded,     *)
(* whatever other receipts and redeliveries of it are served at the same   *)
(* time; the one hole is a request that died between the two statements,   *)
(* which no redelivery mends (webhooks.ts, ON CONFLICT DO NOTHING).        *)
(***************************************************************************)
BounceSuppressed ==
    \A r \in events :
        r[2] \in {"bounced", "complained"} =>
            r[1] \in suppressed \/ r \in cutShort \/ Serving(r, {"status", "suppress"})

(***************************************************************************)
(* I11: a receipt that was refused, lost half-way or dropped is among the  *)
(* stored callbacks, whatever the state of the credentials.                *)
(***************************************************************************)
KeptForReplay == \A r \in Receipt : (Serving(r, HookStep) \/ r \in events \cup dropped) => r \in kept

(***************************************************************************)
(* Once the right credential is in place every callback is answered with   *)
(* 200 in the end, and then either its event is recorded or it was         *)
(* dropped; requests may die and be repeated, the credential may be wrong  *)
(* for a while.                                                            *)
(***************************************************************************)
ReceiptsAnswered ==
    HooksFairness /\ <>[]credential =>
        \A r \in Receipt : r \in owed ~> r \notin owed /\ r \in events \cup dropped
=============================================================================
