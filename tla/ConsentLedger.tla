--------------------------- MODULE ConsentLedger ---------------------------
(***************************************************************************)
(* What one contact told us on one channel, and whether the address may be *)
(* written to: the ledger contact_consents, the suppressions row of the    *)
(* address, the consent pause, and every request that writes them          *)
(* (packages/core/src/consent/consent.ts and the routes public.ts,         *)
(* storefront.ts, contacts.ts, suppressions.ts and webhooks.ts).           *)
(*                                                                         *)
(* Every statement names its contact, channel and address, so that         *)
(* contacts do not meet.  A transaction is one action.  The queue appears  *)
(* with the status of the contact's messages only: opt-outs cancel them,   *)
(* and a delivery pass claims, returns and settles them (SendGates says    *)
(* when).  Time is kept as what it decides: whether a pause or a temporary *)
(* suppression has run out.                                                *)
(***************************************************************************)
EXTENDS Naturals, Sequences

CONSTANTS
    Category,       \* the campaign categories
    Transactional,  \* the category that needs no consent
    Toggles,        \* TOGGLEABLE_CATEGORIES, in the order of the form
    AllCategories,  \* scope of a ledger row whose category is NULL
    Message,
    CategoryOf,     \* the category of the campaign of each message
    Reason,         \* the suppression reasons in play
    NoSuppression,  \* there is no row for the address
    MaxRows         \* bound of the model: rows of the ledger

Toggleable == {Toggles[i] : i \in 1..Len(Toggles)}
Consent == {"opted_in", "opted_out"}
Scope == Category \cup {AllCategories}

ASSUME ConsentConstants ==
    /\ Transactional \in Category
    /\ Toggles \in Seq(Category \ {Transactional})
    /\ AllCategories \notin Category
    /\ CategoryOf \in [Message -> Category]
    /\ "unsubscribe" \in Reason
    /\ NoSuppression \notin [reason : Reason, expires : {"never", "later", "lapsed"}]
    /\ MaxRows \in Nat

VARIABLES
    ledger,         \* the rows of contact_consents, oldest first
    suppression,    \* the suppressions row of the address
    paused,         \* the consent pause covers the present moment
    queue,          \* message_queue.status of each message
    checkout,       \* recordCheckoutConsent: "idle", or the state it has read
    update,         \* what a preference update has switched off and not yet cancelled
    asked           \* history: reasons of the permanent suppressions asked for
                    \* and not withdrawn since

ledgerVars == <<ledger, suppression, paused, asked>>
vars == <<ledgerVars, queue, checkout, update>>

Source == {"checkout", "preference_center", "unsubscribe_link", "operator"}
LedgerRow == [category : Scope, state : Consent, source : Source]
Suppression == [reason : Reason, expires : {"never", "later", "lapsed"}]
Status == {"absent", "pending", "processing", "sent", "failed", "cancelled"}

Init ==
    /\ ledger = <<>>
    /\ suppression = NoSuppression
    /\ paused = FALSE
    /\ queue = [m \in Message |-> "absent"]
    /\ checkout = "idle"
    /\ update = {}
    /\ asked = {}

-----------------------------------------------------------------------------
(***************************************************************************)
(* Reading.                                                                *)
(***************************************************************************)

\* The rows consent_state considers for a category: its own and the wildcards.
Relevant(rows, c) == {i \in DOMAIN rows : rows[i].category \in {c, AllCategories}}

Latest(rows, S) == rows[CHOOSE i \in S : \A j \in S : j <= i]

\* consent_state: the most recent intent wins, "none" if nobody ever said.
ConsentStateIn(rows, c) ==
    IF Relevant(rows, c) = {} THEN "none" ELSE Latest(rows, Relevant(rows, c)).state

ConsentState(c) == ConsentStateIn(ledger, c)

\* What the send gate asks; an expired row does not count, swept or not.
Suppressed == suppression # NoSuppression /\ suppression.expires # "lapsed"

\* What the checkout asks: the last row of any category.
LastSaid == IF ledger = <<>> THEN "none" ELSE ledger[Len(ledger)].state

-----------------------------------------------------------------------------
(***************************************************************************)
(* Writing.                                                                *)
(***************************************************************************)

Entry(scope, state, source) == [category |-> scope, state |-> state, source |-> source]

Record(rows) ==
    /\ Len(ledger) + Len(rows) <= MaxRows
    /\ ledger' = ledger \o rows

\* Mutant of Upserted: ON CONFLICT DO NOTHING unless the row has lapsed.
UpsertedIfLapsed(new) ==
    IF suppression = NoSuppression THEN new
    ELSE IF suppression.expires = "lapsed" THEN new
    ELSE suppression

\* The row after the upsert of addSuppression: what is there stays, unless it has
\* lapsed, or is temporary where the new one is permanent.
Upserted(new) ==
    IF suppression = NoSuppression THEN new
    ELSE IF \/ suppression.expires = "lapsed"
            \/ new.expires = "never" /\ suppression.expires # "never" THEN new
    ELSE suppression

Suppress(reason, expires) ==
    /\ suppression' = Upserted([reason |-> reason, expires |-> expires])
    /\ asked' = IF expires = "never" THEN asked \cup {reason} ELSE asked

\* Mutant of Cancelled: only the rows that wait.
CancelledIfPending(S) ==
    [m \in Message |->
        IF CategoryOf[m] \in S /\ queue[m] = "pending" THEN "cancelled" ELSE queue[m]]

\* The messages of the categories S that wait or are in flight are cancelled.
Cancelled(S) ==
    [m \in Message |->
        IF CategoryOf[m] \in S /\ queue[m] \in {"pending", "processing"}
        THEN "cancelled" ELSE queue[m]]

-----------------------------------------------------------------------------
(***************************************************************************)
(* The contact's own requests.                                             *)
(***************************************************************************)

\* "Unsubscribe from all": optOut without a category, in a transaction.
UnsubscribeAll ==
    /\ Record(<<Entry(AllCategories, "opted_out", "unsubscribe_link")>>)
    /\ Suppress("unsubscribe", "never")
    /\ queue' = Cancelled(Category \ {Transactional})
    /\ UNCHANGED <<paused, checkout, update>>

\* "Pause": whatever pause overlaps is replaced.
Pause ==
    /\ paused' = TRUE
    /\ UNCHANGED <<ledger, suppression, asked, queue, checkout, update>>

\* A preference form: the wish for each category it names.
Form == UNION {[S -> Consent] : S \in SUBSET Toggleable}

\* Mutant of Desired: no default for a category the form does not name.
DesiredNoDefault(form, c) == IF c \in DOMAIN form THEN form[c] ELSE "none"

Desired(form, c) == IF c \in DOMAIN form THEN form[c] ELSE "opted_out"

OffBy(form) == {c \in Toggleable : Desired(form, c) = "opted_out"}

\* "Update", the transaction: a row for each toggle; if any is on, the address
\* is no longer suppressed for having unsubscribed.
UpdatePreferences(form) ==
    /\ update = {}
    /\ Record([i \in 1..Len(Toggles) |->
                  Entry(Toggles[i], Desired(form, Toggles[i]), "preference_center")])
    /\ IF OffBy(form) = Toggleable THEN UNCHANGED <<suppression, asked>>
       ELSE /\ suppression' =
                  IF suppression # NoSuppression /\ suppression.reason = "unsubscribe"
                  THEN NoSuppression ELSE suppression
            /\ asked' = asked \ {"unsubscribe"}
    /\ update' = OffBy(form)
    /\ UNCHANGED <<paused, queue, checkout>>

\* The statement after the transaction, issued if something was switched off.
CancelSwitchedOff ==
    /\ update # {}
    /\ queue' = Cancelled(update)
    /\ update' = {}
    /\ UNCHANGED <<ledgerVars, checkout>>

\* The process dies, or the database fails, before that statement.
UpdateDies ==
    /\ update # {}
    /\ update' = {}
    /\ UNCHANGED <<ledgerVars, queue, checkout>>

\* The consent of a checkout form with the box ticked: a SELECT ...
CheckoutReads ==
    /\ checkout = "idle"
    /\ checkout' = LastSaid
    /\ UNCHANGED <<ledgerVars, queue, update>>

\* ... and, unless it found an opt-out, an INSERT.
CheckoutWrites ==
    /\ checkout # "idle"
    /\ IF checkout = "opted_out" THEN UNCHANGED ledger
       ELSE Record(<<Entry(AllCategories, "opted_in", "checkout")>>)
    /\ checkout' = "idle"
    /\ UNCHANGED <<suppression, paused, asked, queue, update>>

-----------------------------------------------------------------------------
(***************************************************************************)
(* Operators, receipts, replies and the clock.                             *)
(***************************************************************************)

\* POST /contacts/:id/consent.
RecordConsent(scope, state) ==
    /\ Record(<<Entry(scope, state, "operator")>>)
    /\ UNCHANGED <<suppression, paused, asked, queue, checkout, update>>

\* POST /suppressions with or without an expiry; a bounce or a complaint in
\* applyProviderEvent and a STOP in classifyReply, without one.
AddSuppression(reason, expires) ==
    /\ Suppress(reason, expires)
    /\ UNCHANGED <<ledger, paused, queue, checkout, update>>

\* DELETE /suppressions.  The acknowledgement that the reasons of intent need is
\* the operator's to give.
RemoveSuppression ==
    /\ suppression # NoSuppression
    /\ suppression' = NoSuppression
    /\ asked' = {}
    /\ UNCHANGED <<ledger, paused, queue, checkout, update>>

\* The expires_at of a temporary suppression passes.
SuppressionLapses ==
    /\ suppression # NoSuppression
    /\ suppression.expires = "later"
    /\ suppression' = [suppression EXCEPT !.expires = "lapsed"]
    /\ UNCHANGED <<ledger, paused, asked, queue, checkout, update>>

\* The job suppression-expiry.
ExpireSuppressions ==
    /\ suppression # NoSuppression
    /\ suppression.expires = "lapsed"
    /\ suppression' = NoSuppression
    /\ UNCHANGED <<ledger, paused, asked, queue, checkout, update>>

\* The end of the pause passes.
PauseEnds ==
    /\ paused
    /\ paused' = FALSE
    /\ UNCHANGED <<ledger, suppression, asked, queue, checkout, update>>

-----------------------------------------------------------------------------
(***************************************************************************)
(* The rest of the queue, seen from here.                                  *)
(***************************************************************************)

Move(m, from, to) ==
    /\ queue[m] \in from
    /\ queue' = [queue EXCEPT ![m] = to]
    /\ UNCHANGED <<ledgerVars, checkout, update>>

Enqueue(m) == Move(m, {"absent"}, "pending")
Claim(m) == Move(m, {"pending"}, "processing")
Return(m) == Move(m, {"processing"}, "pending")
Settle(m, status) == Move(m, {"processing"}, status)

\* Requests, and time passing: everything but the delivery of messages.
Request ==
    \/ UnsubscribeAll
    \/ Pause
    \/ \E form \in Form : UpdatePreferences(form)
    \/ CancelSwitchedOff
    \/ UpdateDies
    \/ CheckoutReads
    \/ CheckoutWrites
    \/ \E scope \in Scope, state \in Consent : RecordConsent(scope, state)
    \/ \E reason \in Reason, expires \in {"never", "later"} : AddSuppression(reason, expires)
    \/ RemoveSuppression
    \/ SuppressionLapses
    \/ ExpireSuppressions
    \/ PauseEnds

Next ==
    \/ Request
    \/ \E m \in Message :
          \/ Enqueue(m)
          \/ Claim(m)
          \/ Return(m)
          \/ \E status \in {"sent", "failed", "cancelled"} : Settle(m, status)

Spec == Init /\ [][Next]_vars

-----------------------------------------------------------------------------
(***************************************************************************)
(* Properties.                                                             *)
(***************************************************************************)

ConsentTypeOK ==
    /\ ledger \in Seq(LedgerRow)
    /\ Len(ledger) <= MaxRows
    /\ suppression \in Suppression \cup {NoSuppression}
    /\ paused \in BOOLEAN
    /\ queue \in [Message -> Status]
    /\ checkout \in Consent \cup {"none", "idle"}
    /\ update \in SUBSET Toggleable
    /\ asked \in SUBSET Reason

\* A permanent suppression is not lost to a temporary one: once the contact
\* unsubscribed, the address is suppressed for good, until they opt in to
\* something or an operator lifts it, whatever temporary suppression was there
\* before, lapses or arrives later (the predicates of addSuppression,
\* consent.ts:118-126).
UnsubscribedIsSuppressed ==
    "unsubscribe" \in asked =>
        /\ suppression # NoSuppression
        /\ suppression.expires = "never"

\* What follows is refuted; each property states what the code says of itself.

\* "Soft bounces expire; a hard bounce never does" (migrations/0002:123): after
\* a hard bounce the address stays suppressed until an operator lifts it.
BounceStands ==
    "hard_bounce" \in asked =>
        /\ suppression # NoSuppression
        /\ suppression.expires = "never"

\* Consent at checkout is "NEVER used to overturn an opt-out" (storefront.ts:811):
\* no category that is opted out is opted in by a checkout.
CheckoutKeepsOptOuts ==
    [][CheckoutWrites =>
          \A c \in Category :
              ConsentState(c) = "opted_out" => ConsentState(c)' = "opted_out"]_vars

=============================================================================
