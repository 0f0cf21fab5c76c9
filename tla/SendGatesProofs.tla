-------------------------- MODULE SendGatesProofs --------------------------
(***************************************************************************)
(* For any categories, messages, reasons, passes and any length of the     *)
(* ledger.  Of ConsentLedger: its types, and that an unsubscribe stays a   *)
(* permanent suppression of the address.  Of SendGates, which adds the     *)
(* delivery passes: its types, that an unsubscribe is honoured at the last *)
(* look before provider.send, and by how much the passes together may      *)
(* overrun the frequency cap.                                              *)
(***************************************************************************)
EXTENDS SendGates, FiniteSetTheorems, SequenceTheorems, TLAPS

ConsentInv == ConsentTypeOK /\ UnsubscribedIsSuppressed

-----------------------------------------------------------------------------
(***************************************************************************)
(* Lemmas on the operators the requests share.                             *)
(***************************************************************************)

\* One row, of a scope and a state that exist, is a row of the ledger.
LEMMA EntryTyped ==
    ASSUME NEW scope \in Scope, NEW state \in Consent, NEW source \in Source
    PROVE  /\ Entry(scope, state, source) \in LedgerRow
           /\ <<Entry(scope, state, source)>> \in Seq(LedgerRow)
<1>1. Entry(scope, state, source) \in LedgerRow
  BY DEF Entry, LedgerRow
<1> QED
  BY <1>1

\* The rows of a preference update, one for each toggle (public.ts:389-403).
LEMMA UpdateRowsTyped ==
    ASSUME NEW form \in Form
    PROVE  [i \in 1..Len(Toggles) |->
                Entry(Toggles[i], Desired(form, Toggles[i]), "preference_center")]
              \in Seq(LedgerRow)
<1>1. Len(Toggles) \in Nat
  BY ConsentConstants DEF ConsentConstants
<1>2. ASSUME NEW i \in 1..Len(Toggles)
      PROVE  Entry(Toggles[i], Desired(form, Toggles[i]), "preference_center") \in LedgerRow
  <2>1. Toggles[i] \in Scope
    BY ConsentConstants DEF ConsentConstants, Scope
  <2>2. PICK S \in SUBSET Toggleable : form \in [S -> Consent]
    BY DEF Form
  <2>3. Desired(form, Toggles[i]) \in Consent
    BY <2>2 DEF Desired, Consent
  <2> QED
    BY <2>1, <2>3, EntryTyped DEF Source
<1> QED
  BY <1>1, <1>2, SeqDef

\* Appending rows keeps the ledger a ledger, within the bound.
LEMMA RecordTyped ==
    ASSUME ConsentTypeOK, NEW rows \in Seq(LedgerRow), Record(rows)
    PROVE  ledger' \in Seq(LedgerRow) /\ Len(ledger') <= MaxRows
<1>1. ledger \in Seq(LedgerRow)
  BY DEF ConsentTypeOK
<1>2. ledger' = ledger \o rows /\ Len(ledger) + Len(rows) <= MaxRows
  BY DEF Record
<1>3. Len(ledger \o rows) = Len(ledger) + Len(rows)
  BY <1>1, ConcatProperties
<1> QED
  BY <1>1, <1>2, <1>3, ConcatProperties

\* What the checkout reads is a state of consent, or that there is none.
LEMMA LastSaidTyped ==
    ASSUME ConsentTypeOK
    PROVE  LastSaid \in Consent \cup {"none"}
<1>1. CASE ledger = <<>>
  BY <1>1 DEF LastSaid
<1>2. CASE ledger # <<>>
  <2>1. ledger \in Seq(LedgerRow)
    BY DEF ConsentTypeOK
  <2>2. ledger[Len(ledger)] \in LedgerRow
    BY <1>2, <2>1
  <2> QED
    BY <1>2, <2>2 DEF LastSaid, LedgerRow
<1> QED
  BY <1>1, <1>2

\* The upsert of addSuppression: it writes a row or leaves one, never weakens a
\* permanent one, and a permanent request always ends in a permanent row.
LEMMA SuppressProperties ==
    ASSUME ConsentInv, NEW reason \in Reason, NEW expires \in {"never", "later"},
           Suppress(reason, expires)
    PROVE  /\ suppression' \in Suppression
           /\ asked' \in SUBSET Reason
           /\ UnsubscribedIsSuppressed'
<1> DEFINE new == [reason |-> reason, expires |-> expires]
<1>1. new \in Suppression /\ new # NoSuppression
  BY ConsentConstants DEF Suppression, ConsentConstants
<1>2. suppression' = Upserted(new)
  BY DEF Suppress
<1>3. suppression \in Suppression \cup {NoSuppression}
  BY DEF ConsentInv, ConsentTypeOK
<1>4. suppression' \in Suppression /\ suppression' # NoSuppression
  BY <1>1, <1>2, <1>3 DEF Upserted
<1>5. asked \in SUBSET Reason
  BY DEF ConsentInv, ConsentTypeOK
<1>6. asked' \in SUBSET Reason
  BY <1>5 DEF Suppress
<1>7. CASE expires = "never"
  <2>1. suppression'.expires = "never"
    BY <1>2, <1>7 DEF Upserted
  <2> QED
    BY <1>4, <1>6, <2>1 DEF UnsubscribedIsSuppressed
<1>8. CASE expires = "later"
  <2>1. asked' = asked
    BY <1>8 DEF Suppress
  <2>2. ASSUME "unsubscribe" \in asked
        PROVE  suppression' = suppression /\ suppression.expires = "never"
    <3>1. suppression # NoSuppression /\ suppression.expires = "never"
      BY <2>2 DEF ConsentInv, UnsubscribedIsSuppressed
    <3> QED
      BY <1>2, <1>8, <3>1 DEF Upserted
  <2> QED
    BY <1>4, <1>6, <2>1, <2>2 DEF UnsubscribedIsSuppressed
<1> QED
  BY <1>4, <1>6, <1>7, <1>8

\* A cancellation is a status of the queue.
LEMMA CancelledTyped ==
    ASSUME ConsentTypeOK, NEW S
    PROVE  Cancelled(S) \in [Message -> Status]
BY DEF ConsentTypeOK, Cancelled, Status

\* A message moves from one status to another, and nothing else changes.
LEMMA MoveStep ==
    ASSUME ConsentInv, NEW m \in Message, NEW from, NEW to \in Status, Move(m, from, to)
    PROVE  ConsentInv'
<1>1. queue \in [Message -> Status]
  BY DEF ConsentInv, ConsentTypeOK
<1>2. queue' \in [Message -> Status]
  BY <1>1 DEF Move
<1>3. UNCHANGED <<ledger, suppression, paused, asked, checkout, update>>
  BY DEF Move, ledgerVars
<1>4. ConsentTypeOK'
  BY <1>2, <1>3 DEF ConsentInv, ConsentTypeOK
<1>5. UnsubscribedIsSuppressed'
  BY <1>3 DEF ConsentInv, UnsubscribedIsSuppressed
<1> QED
  BY <1>4, <1>5 DEF ConsentInv

-----------------------------------------------------------------------------
(***************************************************************************)
(* The invariant.                                                          *)
(***************************************************************************)

\* An empty ledger and no suppression.
LEMMA ConsentInvInit ==
    ASSUME Init
    PROVE  ConsentInv
<1>1. ledger \in Seq(LedgerRow) /\ Len(ledger) <= MaxRows
  BY ConsentConstants DEF Init, ConsentConstants
<1>2. ConsentTypeOK
  BY <1>1 DEF Init, ConsentTypeOK, Status
<1> QED
  BY <1>2 DEF Init, ConsentInv, UnsubscribedIsSuppressed

\* The requests of the contact.
LEMMA ContactStep ==
    ASSUME ConsentInv,
           \/ UnsubscribeAll \/ Pause \/ CancelSwitchedOff \/ UpdateDies
           \/ CheckoutReads \/ CheckoutWrites
           \/ \E form \in Form : UpdatePreferences(form)
    PROVE  ConsentInv'
<1> USE DEF ConsentInv
<1>1. CASE UnsubscribeAll
  <2>1. ledger' \in Seq(LedgerRow) /\ Len(ledger') <= MaxRows
    <3>1. <<Entry(AllCategories, "opted_out", "unsubscribe_link")>> \in Seq(LedgerRow)
      BY EntryTyped DEF Scope, Consent, Source
    <3> QED
      BY <1>1, <3>1, RecordTyped DEF UnsubscribeAll
  <2>2. "unsubscribe" \in Reason
    BY ConsentConstants DEF ConsentConstants
  <2>3. /\ suppression' \in Suppression
        /\ asked' \in SUBSET Reason
        /\ UnsubscribedIsSuppressed'
    BY <1>1, <2>2, SuppressProperties DEF UnsubscribeAll
  <2>4. queue' \in [Message -> Status]
    BY <1>1, CancelledTyped DEF UnsubscribeAll
  <2>5. UNCHANGED <<paused, checkout, update>>
    BY <1>1 DEF UnsubscribeAll
  <2> QED
    BY <2>1, <2>3, <2>4, <2>5 DEF ConsentTypeOK
<1>2. CASE Pause
  BY <1>2 DEF Pause, ConsentTypeOK, UnsubscribedIsSuppressed
<1>3. CASE CancelSwitchedOff
  <2>1. queue' \in [Message -> Status]
    BY <1>3, CancelledTyped DEF CancelSwitchedOff
  <2>2. update' = {} /\ UNCHANGED <<ledger, suppression, paused, asked, checkout>>
    BY <1>3 DEF CancelSwitchedOff, ledgerVars
  <2> QED
    BY <2>1, <2>2 DEF ConsentTypeOK, UnsubscribedIsSuppressed
<1>4. CASE UpdateDies
  BY <1>4 DEF UpdateDies, ledgerVars, ConsentTypeOK, UnsubscribedIsSuppressed
<1>5. CASE CheckoutReads
  <2>1. checkout' \in Consent \cup {"none", "idle"}
    BY <1>5, LastSaidTyped DEF CheckoutReads
  <2> QED
    BY <1>5, <2>1 DEF CheckoutReads, ledgerVars, ConsentTypeOK, UnsubscribedIsSuppressed
<1>6. CASE CheckoutWrites
  <2>1. ledger' \in Seq(LedgerRow) /\ Len(ledger') <= MaxRows
    <3>1. <<Entry(AllCategories, "opted_in", "checkout")>> \in Seq(LedgerRow)
      BY EntryTyped DEF Scope, Consent, Source
    <3>2. CASE checkout = "opted_out"
      BY <1>6, <3>2 DEF CheckoutWrites, ConsentTypeOK
    <3>3. CASE checkout # "opted_out"
      BY <1>6, <3>1, <3>3, RecordTyped DEF CheckoutWrites
    <3> QED
      BY <3>2, <3>3
  <2>2. checkout' = "idle" /\ UNCHANGED <<suppression, paused, asked, queue, update>>
    BY <1>6 DEF CheckoutWrites
  <2> QED
    BY <2>1, <2>2 DEF ConsentTypeOK, UnsubscribedIsSuppressed
<1>7. CASE \E form \in Form : UpdatePreferences(form)
  <2>1. PICK form \in Form : UpdatePreferences(form)
    BY <1>7
  <2>2. ledger' \in Seq(LedgerRow) /\ Len(ledger') <= MaxRows
    BY <2>1, UpdateRowsTyped, RecordTyped DEF UpdatePreferences
  <2>3. update' \in SUBSET Toggleable
    BY <2>1 DEF UpdatePreferences, OffBy
  <2>4. UNCHANGED <<paused, queue, checkout>>
    BY <2>1 DEF UpdatePreferences
  <2>5. /\ suppression' \in Suppression \cup {NoSuppression}
        /\ asked' \in SUBSET Reason
        /\ UnsubscribedIsSuppressed'
    <3>1. CASE OffBy(form) = Toggleable
      BY <2>1, <3>1 DEF UpdatePreferences, ConsentTypeOK, UnsubscribedIsSuppressed
    <3>2. CASE OffBy(form) # Toggleable
      BY <2>1, <3>2 DEF UpdatePreferences, ConsentTypeOK, UnsubscribedIsSuppressed
    <3> QED
      BY <3>1, <3>2
  <2> QED
    BY <2>2, <2>3, <2>4, <2>5 DEF ConsentTypeOK
<1> QED
  BY <1>1, <1>2, <1>3, <1>4, <1>5, <1>6, <1>7

\* Operators, receipts, replies and the clock.
LEMMA OutsideStep ==
    ASSUME ConsentInv,
           \/ \E scope \in Scope, state \in Consent : RecordConsent(scope, state)
           \/ \E reason \in Reason, expires \in {"never", "later"} :
                 AddSuppression(reason, expires)
           \/ RemoveSuppression \/ SuppressionLapses \/ ExpireSuppressions \/ PauseEnds
    PROVE  ConsentInv'
<1> USE DEF ConsentInv
<1>1. CASE \E scope \in Scope, state \in Consent : RecordConsent(scope, state)
  <2>1. PICK scope \in Scope, state \in Consent : RecordConsent(scope, state)
    BY <1>1
  <2>2. <<Entry(scope, state, "operator")>> \in Seq(LedgerRow)
    BY EntryTyped DEF Source
  <2>3. ledger' \in Seq(LedgerRow) /\ Len(ledger') <= MaxRows
    BY <2>1, <2>2, RecordTyped DEF RecordConsent
  <2>4. UNCHANGED <<suppression, paused, asked, queue, checkout, update>>
    BY <2>1 DEF RecordConsent
  <2> QED
    BY <2>3, <2>4 DEF ConsentTypeOK, UnsubscribedIsSuppressed
<1>2. CASE \E reason \in Reason, expires \in {"never", "later"} :
              AddSuppression(reason, expires)
  <2>1. PICK reason \in Reason, expires \in {"never", "later"} :
             AddSuppression(reason, expires)
    BY <1>2
  <2>2. /\ suppression' \in Suppression
        /\ asked' \in SUBSET Reason
        /\ UnsubscribedIsSuppressed'
    BY <2>1, SuppressProperties DEF AddSuppression
  <2>3. UNCHANGED <<ledger, paused, queue, checkout, update>>
    BY <2>1 DEF AddSuppression
  <2> QED
    BY <2>2, <2>3 DEF ConsentTypeOK
<1>3. CASE RemoveSuppression
  BY <1>3 DEF RemoveSuppression, ConsentTypeOK, UnsubscribedIsSuppressed
<1>4. CASE SuppressionLapses
  <2>1. suppression' \in Suppression
    BY <1>4 DEF SuppressionLapses, ConsentTypeOK, Suppression
  <2>2. "unsubscribe" \notin asked
    BY <1>4 DEF SuppressionLapses, UnsubscribedIsSuppressed
  <2>3. UNCHANGED <<ledger, paused, asked, queue, checkout, update>>
    BY <1>4 DEF SuppressionLapses
  <2> QED
    BY <2>1, <2>2, <2>3 DEF ConsentTypeOK, UnsubscribedIsSuppressed
<1>5. CASE ExpireSuppressions
  BY <1>5 DEF ExpireSuppressions, ConsentTypeOK, UnsubscribedIsSuppressed
<1>6. CASE PauseEnds
  BY <1>6 DEF PauseEnds, ConsentTypeOK, UnsubscribedIsSuppressed
<1> QED
  BY <1>1, <1>2, <1>3, <1>4, <1>5, <1>6

\* Whatever Request stands for keeps the invariant.
LEMMA RequestStep ==
    ASSUME ConsentInv, Request
    PROVE  ConsentInv'
BY ContactStep, OutsideStep DEF Request

\* Every step of the ledger.
LEMMA ConsentInvStep ==
    ASSUME ConsentInv, [Next]_vars
    PROVE  ConsentInv'
<1>1. CASE Request
  BY <1>1, RequestStep
<1>2. CASE \E m \in Message :
              \/ Enqueue(m) \/ Claim(m) \/ Return(m)
              \/ \E status \in {"sent", "failed", "cancelled"} : Settle(m, status)
  BY <1>2, MoveStep DEF Enqueue, Claim, Return, Settle, Status
<1>3. CASE UNCHANGED vars
  BY <1>3 DEF vars, ledgerVars, ConsentInv, ConsentTypeOK, UnsubscribedIsSuppressed
<1> QED
  BY <1>1, <1>2, <1>3 DEF Next

\* The invariant of every behaviour.
LEMMA ConsentInvariant == Spec => []ConsentInv
<1>1. Init => ConsentInv
  BY ConsentInvInit
<1>2. ConsentInv /\ [Next]_vars => ConsentInv'
  BY ConsentInvStep
<1> QED
  BY <1>1, <1>2, PTL DEF Spec

-----------------------------------------------------------------------------

\* The tables and the requests in progress keep their types.
THEOREM ConsentTyped == Spec => []ConsentTypeOK
<1>1. ConsentInv => ConsentTypeOK
  BY DEF ConsentInv
<1> QED
  BY <1>1, ConsentInvariant, PTL

\* However suppressions of any reason, temporary or permanent, come, lapse and are
\* swept, whoever unsubscribed is suppressed for good until they opt in to
\* something or an operator lifts it (addSuppression, consent.ts:96-148).
THEOREM UnsubscribeStands == Spec => []UnsubscribedIsSuppressed
<1>1. ConsentInv => UnsubscribedIsSuppressed
  BY DEF ConsentInv
<1> QED
  BY <1>1, ConsentInvariant, PTL

-----------------------------------------------------------------------------
(***************************************************************************)
(* The invariant.                                                          *)
(***************************************************************************)

\* Only optOut writes rows with its source, and they are opt-outs.
UnsubscribesOptOut ==
    \A i \in DOMAIN ledger :
        ledger[i].source = "unsubscribe_link" => ledger[i].state = "opted_out"

\* A pass is past the consent gate and has not handed the message over yet.
PastConsent == {"pause", "suppression", "cap", "refresh"}

\* What the consent gate found out stays true of the rows it let through, as long
\* as they are the pass's own: an unsubscribe cancels them.
Informed ==
    \A p \in Pass :
        /\ at[p] \in PastConsent
        /\ Owned(p)
        /\ Marketing(holds[p])
        => ~Unsubscribed(CategoryOf[holds[p]])

GatesInv ==
    /\ ConsentInv
    /\ GatesTypeOK
    /\ UnsubscribesOptOut
    /\ Informed

-----------------------------------------------------------------------------
(***************************************************************************)
(* The ledger.                                                             *)
(***************************************************************************)

\* consent_state and the last word agree.
LEMMA OptedInIsNotUnsubscribed ==
    ASSUME ConsentInv, UnsubscribesOptOut, NEW c, ConsentState(c) = "opted_in"
    PROVE  ~Unsubscribed(c)
<1> SUFFICES ASSUME Unsubscribed(c)
             PROVE  FALSE
  OBVIOUS
<1> DEFINE S == Relevant(ledger, c)
<1>1. PICK i \in S : (\A j \in S : j <= i) /\ ledger[i].source = "unsubscribe_link"
  BY DEF Unsubscribed, UnsubscribedIn
<1> DEFINE k == CHOOSE n \in S : \A j \in S : j <= n
<1>2. k \in S /\ \A j \in S : j <= k
  BY <1>1
<1>3. ledger \in Seq(LedgerRow)
  BY DEF ConsentInv, ConsentTypeOK
<1>4. i \in DOMAIN ledger /\ k \in DOMAIN ledger
  BY <1>1, <1>2 DEF Relevant
<1>5. i \in Int /\ k \in Int
  BY <1>3, <1>4
<1>6. i <= k /\ k <= i
  BY <1>1, <1>2
<1>7. i = k
  BY <1>5, <1>6
<1>8. ledger[k].state = "opted_out"
  BY <1>1, <1>4, <1>7 DEF UnsubscribesOptOut
<1>9. ConsentState(c) = ledger[k].state
  BY <1>1 DEF ConsentState, ConsentStateIn, Latest
<1> QED
  BY <1>8, <1>9

\* The rows of a request that is not an unsubscribe.
Ordinary(rows) ==
    /\ rows \in Seq(LedgerRow)
    /\ \A i \in DOMAIN rows : rows[i].source # "unsubscribe_link"

\* Appending ordinary rows does not make anybody unsubscribed.
LEMMA OrdinaryRecord ==
    ASSUME ConsentInv, UnsubscribesOptOut, NEW rows, Ordinary(rows),
           ledger' = ledger \o rows
    PROVE  /\ UnsubscribesOptOut'
           /\ \A c : Unsubscribed(c)' => Unsubscribed(c)
<1>1. ledger \in Seq(LedgerRow) /\ rows \in Seq(LedgerRow)
  BY DEF ConsentInv, ConsentTypeOK, Ordinary
<1>2. /\ Len(ledger') = Len(ledger) + Len(rows)
      /\ DOMAIN ledger' = 1..(Len(ledger) + Len(rows))
      /\ Len(ledger) \in Nat /\ Len(rows) \in Nat
      /\ DOMAIN ledger = 1..Len(ledger)
      /\ DOMAIN rows = 1..Len(rows)
  BY <1>1
<1>3. ASSUME NEW i \in DOMAIN ledger', i <= Len(ledger)
      PROVE  i \in DOMAIN ledger /\ ledger'[i] = ledger[i]
  BY <1>1, <1>2, <1>3
<1>4. ASSUME NEW i \in DOMAIN ledger', ~(i <= Len(ledger))
      PROVE  ledger'[i].source # "unsubscribe_link"
  <2>1. i - Len(ledger) \in DOMAIN rows /\ ledger'[i] = rows[i - Len(ledger)]
    BY <1>1, <1>2, <1>4
  <2> QED
    BY <2>1 DEF Ordinary
<1>5. UnsubscribesOptOut'
  BY <1>3, <1>4 DEF UnsubscribesOptOut
<1>6. ASSUME NEW c, Unsubscribed(c)'
      PROVE  Unsubscribed(c)
  <2>1. PICK i \in Relevant(ledger, c)' :
            /\ \A j \in Relevant(ledger, c)' : j <= i
            /\ ledger'[i].source = "unsubscribe_link"
    BY <1>6 DEF Unsubscribed, UnsubscribedIn
  <2>2. i \in DOMAIN ledger'
    BY <2>1 DEF Relevant
  <2>3. i \in DOMAIN ledger /\ ledger'[i] = ledger[i]
    BY <1>3, <1>4, <2>1, <2>2
  <2>4. i \in Relevant(ledger, c)
    BY <2>1, <2>3 DEF Relevant
  <2>5. ASSUME NEW j \in Relevant(ledger, c)
        PROVE  j <= i
    <3>1. j \in DOMAIN ledger /\ ledger[j].category \in {c, AllCategories}
      BY DEF Relevant
    <3>2. j \in DOMAIN ledger' /\ ledger'[j] = ledger[j]
      BY <1>1, <1>2, <3>1
    <3>3. j \in Relevant(ledger, c)'
      BY <3>1, <3>2 DEF Relevant
    <3> QED
      BY <2>1, <3>3
  <2> QED
    BY <2>1, <2>3, <2>4, <2>5 DEF Unsubscribed, UnsubscribedIn
<1> QED
  BY <1>5, <1>6

\* A request unsubscribes, or leaves the ledger alone, or appends ordinary rows.
LEMMA RequestRecords ==
    ASSUME ConsentInv, Request
    PROVE  \/ UnsubscribeAll
           \/ UNCHANGED ledger
           \/ \E rows : Ordinary(rows) /\ ledger' = ledger \o rows
<1>1. CASE \E form \in Form : UpdatePreferences(form)
  <2>1. PICK form \in Form : UpdatePreferences(form)
    BY <1>1
  <2> DEFINE rows == [i \in 1..Len(Toggles) |->
                         Entry(Toggles[i], Desired(form, Toggles[i]), "preference_center")]
  <2>2. rows \in Seq(LedgerRow)
    BY UpdateRowsTyped
  <2>3. \A i \in DOMAIN rows : rows[i].source # "unsubscribe_link"
    BY DEF Entry
  <2>4. ledger' = ledger \o rows
    BY <2>1 DEF UpdatePreferences, Record
  <2> QED
    BY <2>2, <2>3, <2>4 DEF Ordinary
<1>2. CASE CheckoutWrites
  <2> DEFINE rows == <<Entry(AllCategories, "opted_in", "checkout")>>
  <2>1. rows \in Seq(LedgerRow)
    BY EntryTyped DEF Scope, Consent, Source
  <2>2. \A i \in DOMAIN rows : rows[i].source # "unsubscribe_link"
    BY DEF Entry
  <2>3. UNCHANGED ledger \/ ledger' = ledger \o rows
    BY <1>2 DEF CheckoutWrites, Record
  <2> QED
    BY <2>1, <2>2, <2>3 DEF Ordinary
<1>3. CASE \E scope \in Scope, state \in Consent : RecordConsent(scope, state)
  <2>1. PICK scope \in Scope, state \in Consent : RecordConsent(scope, state)
    BY <1>3
  <2> DEFINE rows == <<Entry(scope, state, "operator")>>
  <2>2. rows \in Seq(LedgerRow)
    BY EntryTyped DEF Source
  <2>3. \A i \in DOMAIN rows : rows[i].source # "unsubscribe_link"
    BY DEF Entry
  <2>4. ledger' = ledger \o rows
    BY <2>1 DEF RecordConsent, Record
  <2> QED
    BY <2>2, <2>3, <2>4 DEF Ordinary
<1>4. CASE \/ Pause \/ CancelSwitchedOff \/ UpdateDies \/ CheckoutReads
           \/ RemoveSuppression \/ SuppressionLapses \/ ExpireSuppressions \/ PauseEnds
           \/ \E reason \in Reason, expires \in {"never", "later"} :
                 AddSuppression(reason, expires)
  BY <1>4 DEF Pause, CancelSwitchedOff, UpdateDies, CheckoutReads, RemoveSuppression,
     SuppressionLapses, ExpireSuppressions, PauseEnds, AddSuppression, ledgerVars
<1> QED
  BY <1>1, <1>2, <1>3, <1>4 DEF Request

\* A request never puts a message in flight, and an unsubscribe takes those of
\* marketing out of it.
LEMMA RequestQueue ==
    ASSUME ConsentInv, Request
    PROVE  /\ \A m \in Message : queue'[m] = "processing" => queue[m] = "processing"
           /\ UnsubscribeAll =>
                 \A m \in Message : Marketing(m) => queue'[m] # "processing"
<1>1. UNCHANGED queue \/ \E S : queue' = Cancelled(S)
  BY DEF Request, UnsubscribeAll, Pause, UpdatePreferences, CancelSwitchedOff, UpdateDies,
     CheckoutReads, CheckoutWrites, RecordConsent, AddSuppression, RemoveSuppression,
     SuppressionLapses, ExpireSuppressions, PauseEnds
<1>2. ASSUME NEW S, queue' = Cancelled(S), NEW m \in Message, queue'[m] = "processing"
      PROVE  queue[m] = "processing" /\ CategoryOf[m] \notin S
  BY <1>2 DEF Cancelled
<1>3. ASSUME UnsubscribeAll, NEW m \in Message, Marketing(m)
      PROVE  queue'[m] # "processing"
  <2>1. queue' = Cancelled(Category \ {Transactional})
    BY <1>3 DEF UnsubscribeAll
  <2>2. CategoryOf[m] \in Category \ {Transactional}
    BY <1>3, ConsentConstants DEF Marketing, ConsentConstants
  <2> QED
    BY <1>2, <2>1, <2>2
<1> QED
  BY <1>1, <1>2, <1>3

-----------------------------------------------------------------------------
(***************************************************************************)
(* Steps that leave the ledger alone.                                      *)
(***************************************************************************)

\* Nobody gets past the consent gate but over an opt-in, and nobody acquires a
\* row but by a claim: then the invariant stands.
LEMMA QuietStep ==
    ASSUME GatesInv, GatesTypeOK', UNCHANGED ledger,
           \A p \in Pass : at'[p] \in PastConsent =>
              /\ holds'[p] = holds[p]
              /\ \/ at[p] \in PastConsent
                 \/ ~Marketing(holds[p])
                 \/ ConsentState(CategoryOf[holds[p]]) = "opted_in",
           \A p \in Pass, m \in Message :
              owner'[m] = p /\ queue'[m] = "processing" =>
                 \/ owner[m] = p /\ queue[m] = "processing"
                 \/ at'[p] = "load"
    PROVE  UnsubscribesOptOut' /\ Informed'
<1>1. UnsubscribesOptOut'
  BY DEF GatesInv, UnsubscribesOptOut
<1>2. ASSUME NEW p \in Pass, at'[p] \in PastConsent, Owned(p)', Marketing(holds'[p])
      PROVE  ~UnsubscribedIn(ledger, CategoryOf[holds[p]])
  <2>1. holds'[p] = holds[p]
    BY <1>2
  <2>2. holds[p] \in Message
    <3>1. at'[p] # "idle"
      BY <1>2 DEF PastConsent
    <3> QED
      BY <2>1, <3>1 DEF GatesTypeOK
  <2>3. owner'[holds[p]] = p /\ queue'[holds[p]] = "processing"
    BY <1>2, <2>1 DEF Owned
  <2>4. at'[p] # "load"
    BY <1>2 DEF PastConsent
  <2>5. Owned(p)
    BY <2>2, <2>3, <2>4 DEF Owned
  <2>6. CASE at[p] \in PastConsent
    BY <1>2, <2>1, <2>5, <2>6 DEF GatesInv, Informed, Unsubscribed
  <2>7. CASE ConsentState(CategoryOf[holds[p]]) = "opted_in"
    BY <2>7, OptedInIsNotUnsubscribed DEF GatesInv, Unsubscribed
  <2> QED
    BY <1>2, <2>1, <2>6, <2>7
<1>3. \A p \in Pass : at'[p] \in PastConsent => holds'[p] = holds[p]
  OBVIOUS
<1>4. Informed'
  BY <1>2, <1>3 DEF Informed, Unsubscribed, Owned, Marketing
<1> QED
  BY <1>1, <1>4

\* The fields of GatesTypeOK, for citing.
LEMMA GatesFields ==
    ASSUME GatesTypeOK
    PROVE  /\ at \in [Pass -> Query]
           /\ holds \in [Pass -> Message \cup {NoMessage}]
           /\ why \in [Pass -> Code]
           /\ owner \in [Message -> Pass \cup {NoPass}]
BY DEF GatesTypeOK

\* A query of a pass moves it on and writes nothing.
LEMMA LookStep ==
    ASSUME GatesInv, NEW p \in Pass, JustLooking, at[p] # "idle",
           NEW next \in Query, at' = [at EXCEPT ![p] = next],
           why' \in [Pass -> Code],
           \A q \in Pass : q # p => why'[q] = why[q],
           next = "cancel" => why'[p] # "none",
           next \in PastConsent =>
              \/ at[p] \in PastConsent
              \/ ~Marketing(holds[p])
              \/ ConsentState(CategoryOf[holds[p]]) = "opted_in"
    PROVE  GatesInv'
<1>1. UNCHANGED <<ledger, suppression, paused, asked, queue, checkout, update,
                  campaign, enrolled, stopping, stops, holds, owner, recent, reclaims>>
  BY DEF JustLooking, vars, ledgerVars, journeyVars
<1>2. ConsentInv'
  BY <1>1 DEF GatesInv, ConsentInv, ConsentTypeOK, UnsubscribedIsSuppressed
<1>3. at' \in [Pass -> Query]
  BY GatesFields DEF GatesInv
<1>4. \A q \in Pass : at'[q] = IF q = p THEN next ELSE at[q]
  BY GatesFields DEF GatesInv
<1>5. \A q \in Pass : at'[q] # "idle" => holds'[q] # NoMessage
  BY <1>1, <1>4 DEF GatesInv, GatesTypeOK
<1>6. \A q \in Pass : at'[q] = "cancel" => why'[q] # "none"
  BY <1>4 DEF GatesInv, GatesTypeOK
<1>7. GatesTypeOK'
  BY <1>1, <1>3, <1>5, <1>6 DEF GatesInv, GatesTypeOK
<1>8. UnsubscribesOptOut' /\ Informed'
  <2>1. \A q \in Pass : at'[q] \in PastConsent =>
           /\ holds'[q] = holds[q]
           /\ \/ at[q] \in PastConsent
              \/ ~Marketing(holds[q])
              \/ ConsentState(CategoryOf[holds[q]]) = "opted_in"
    BY <1>1, <1>4
  <2>2. \A q \in Pass, m \in Message :
           owner'[m] = q /\ queue'[m] = "processing" =>
              owner[m] = q /\ queue[m] = "processing"
    BY <1>1
  <2> QED
    BY <1>1, <1>7, <2>1, <2>2, QuietStep
<1> QED
  BY <1>2, <1>7, <1>8 DEF GatesInv

\* Going on to a query that is not a cancellation.
LEMMA ProceedStep ==
    ASSUME GatesInv, NEW p \in Pass, JustLooking, at[p] # "idle",
           NEW next \in Query \ {"cancel"}, Proceed(p, next),
           next \in PastConsent =>
              \/ at[p] \in PastConsent
              \/ ~Marketing(holds[p])
              \/ ConsentState(CategoryOf[holds[p]]) = "opted_in"
    PROVE  GatesInv'
<1>1. at' = [at EXCEPT ![p] = next] /\ why' = why
  BY DEF Proceed, Goto
<1>2. why \in [Pass -> Code]
  BY GatesFields DEF GatesInv
<1> QED
  BY <1>1, <1>2, LookStep

\* Being refused for good.
LEMMA RefuseStep ==
    ASSUME GatesInv, NEW p \in Pass, JustLooking, at[p] # "idle",
           NEW code \in Code \ {"none"}, Refuse(p, code)
    PROVE  GatesInv'
<1>1. at' = [at EXCEPT ![p] = "cancel"] /\ why' = [why EXCEPT ![p] = code]
  BY DEF Refuse, Goto
<1>2. why \in [Pass -> Code]
  BY GatesFields DEF GatesInv
<1>3. /\ why' \in [Pass -> Code]
      /\ why'[p] = code
      /\ \A q \in Pass : q # p => why'[q] = why[q]
  BY <1>1, <1>2
<1>4. "cancel" \in Query /\ "cancel" \notin PastConsent
  BY DEF Query, PastConsent
<1> QED
  BY <1>1, <1>3, <1>4, LookStep

\* The gates and the two steps around provider.send.
LEMMA GateStep ==
    ASSUME GatesInv, NEW p \in Pass,
           \/ Load(p) \/ ConsentGate(p) \/ PauseGate(p) \/ SuppressionGate(p)
           \/ CapGate(p) \/ Refresh(p) \/ Send(p)
    PROVE  GatesInv'
<1> DEFINE m == holds[p]
<1>1. CASE Load(p)
  <2>1. at[p] # "idle" /\ JustLooking
    BY <1>1 DEF Load
  <2>2. \/ Proceed(p, "defer")
        \/ Refuse(p, "campaign_not_active")
        \/ Refuse(p, "enrollment_stopped")
        \/ Marketing(m) /\ Proceed(p, "consent")
        \/ ~Marketing(m) /\ Proceed(p, "suppression")
    BY <1>1 DEF Load
  <2>3. {"defer", "consent", "suppression"} \subseteq Query \ {"cancel"}
    BY DEF Query
  <2>4. {"campaign_not_active", "enrollment_stopped"} \subseteq Code \ {"none"}
    BY DEF Code
  <2>5. "defer" \notin PastConsent /\ "consent" \notin PastConsent
    BY DEF PastConsent
  <2> QED
    BY <2>1, <2>2, <2>3, <2>4, <2>5, ProceedStep, RefuseStep
<1>2. CASE ConsentGate(p)
  <2>1. at[p] # "idle" /\ JustLooking
    BY <1>2 DEF ConsentGate
  <2>2. \/ ConsentState(CategoryOf[m]) = "opted_in" /\ Proceed(p, "pause")
        \/ Refuse(p, "consent")
    BY <1>2 DEF ConsentGate
  <2>3. "pause" \in Query \ {"cancel"} /\ "consent" \in Code \ {"none"}
    BY DEF Query, Code
  <2> QED
    BY <2>1, <2>2, <2>3, ProceedStep, RefuseStep
<1>3. CASE PauseGate(p)
  <2>1. at[p] # "idle" /\ JustLooking /\ at[p] \in PastConsent
    BY <1>3 DEF PauseGate, PastConsent
  <2>2. Proceed(p, "defer") \/ Proceed(p, "suppression")
    BY <1>3 DEF PauseGate
  <2>3. {"defer", "suppression"} \subseteq Query \ {"cancel"}
    BY DEF Query
  <2> QED
    BY <2>1, <2>2, <2>3, ProceedStep
<1>4. CASE SuppressionGate(p)
  <2>1. at[p] # "idle" /\ JustLooking /\ at[p] \in PastConsent
    BY <1>4 DEF SuppressionGate, PastConsent
  <2>2. \/ Suppressed /\ Refuse(p, suppression.reason)
        \/ Proceed(p, "cap") \/ Proceed(p, "defer") \/ Refuse(p, "other")
    BY <1>4 DEF SuppressionGate
  <2>3. {"defer", "cap"} \subseteq Query \ {"cancel"} /\ "other" \in Code \ {"none"}
    BY DEF Query, Code
  <2>4. Suppressed => suppression.reason \in Code \ {"none"}
    <3>1. Suppressed => suppression.reason \in Reason
      BY DEF Suppressed, GatesInv, ConsentInv, ConsentTypeOK, Suppression
    <3> QED
      BY <3>1, GateConstants DEF Code, GateConstants
  <2> QED
    BY <2>1, <2>2, <2>3, <2>4, ProceedStep, RefuseStep
<1>5. CASE CapGate(p)
  <2>1. at[p] # "idle" /\ JustLooking /\ at[p] \in PastConsent
    BY <1>5 DEF CapGate, PastConsent
  <2>2. Proceed(p, "defer") \/ Proceed(p, "refresh") \/ Refuse(p, "other")
    BY <1>5 DEF CapGate
  <2>3. {"defer", "refresh"} \subseteq Query \ {"cancel"} /\ "other" \in Code \ {"none"}
    BY DEF Query, Code
  <2> QED
    BY <2>1, <2>2, <2>3, ProceedStep, RefuseStep
<1>6. CASE Refresh(p)
  <2>1. at[p] # "idle" /\ JustLooking
    BY <1>6 DEF Refresh
  <2>2. Proceed(p, "send") \/ Proceed(p, "idle")
    BY <1>6 DEF Refresh
  <2>3. {"send", "idle"} \subseteq Query \ {"cancel"}
    BY DEF Query
  <2>4. "send" \notin PastConsent /\ "idle" \notin PastConsent
    BY DEF PastConsent
  <2> QED
    BY <2>1, <2>2, <2>3, <2>4, ProceedStep
<1>7. CASE Send(p)
  <2>1. at[p] # "idle" /\ JustLooking
    BY <1>7 DEF Send
  <2>2. \E record \in {"sent", "failed", "retry"} : Proceed(p, record)
    BY <1>7 DEF Send
  <2>3. {"sent", "failed", "retry"} \subseteq Query \ {"cancel"}
    BY DEF Query
  <2>4. {"sent", "failed", "retry"} \cap PastConsent = {}
    BY DEF PastConsent
  <2> QED
    BY <2>1, <2>2, <2>3, <2>4, ProceedStep
<1> QED
  BY <1>1, <1>2, <1>3, <1>4, <1>5, <1>6, <1>7

\* A step that leaves what the contact said alone.
LEMMA QuietInv ==
    ASSUME GatesInv, GatesTypeOK',
           UNCHANGED <<ledger, suppression, paused, asked, checkout, update>>,
           queue' \in [Message -> Status],
           \A p \in Pass : at'[p] \in PastConsent =>
              at[p] \in PastConsent /\ holds'[p] = holds[p],
           \A p \in Pass, m \in Message :
              owner'[m] = p /\ queue'[m] = "processing" =>
                 \/ owner[m] = p /\ queue[m] = "processing"
                 \/ at'[p] = "load"
    PROVE  GatesInv'
<1>1. ConsentInv'
  BY DEF GatesInv, ConsentInv, ConsentTypeOK, UnsubscribedIsSuppressed
<1>2. UnsubscribesOptOut' /\ Informed'
  BY QuietStep
<1> QED
  BY <1>1, <1>2 DEF GatesInv

\* What the actions Enqueue, Claim, Return and Settle leave alone.
LEMMA MoveKeeps ==
    ASSUME GatesInv, NEW m \in Message, NEW from, NEW to \in Status, Move(m, from, to)
    PROVE  /\ UNCHANGED <<ledger, suppression, paused, asked, checkout, update>>
           /\ queue' \in [Message -> Status]
           /\ \A n \in Message : queue'[n] = IF n = m THEN to ELSE queue[n]
<1>1. queue \in [Message -> Status]
  BY DEF GatesInv, ConsentInv, ConsentTypeOK
<1> QED
  BY <1>1 DEF Move, ledgerVars

\* A pass that writes to its row is done with it.
LEMMA WriteStep ==
    ASSUME GatesInv, NEW p \in Pass,
           \/ Defer(p) \/ CancelRefused(p)
           \/ RecordSent(p) \/ RecordFailed(p) \/ RecordRetry(p)
    PROVE  GatesInv'
<1> DEFINE m == holds[p]
<1>1. at' = [at EXCEPT ![p] = "idle"] /\ why' = why
  BY DEF Defer, CancelRefused, RecordSent, RecordFailed, RecordRetry, Write, Proceed, Goto
<1>2. UNCHANGED <<campaign, enrolled, stopping, stops, holds, reclaims>>
  BY DEF Defer, CancelRefused, RecordSent, RecordFailed, RecordRetry, Write, journeyVars
<1>3. m \in Message
  <2>1. at[p] # "idle"
    BY DEF Defer, CancelRefused, RecordSent, RecordFailed, RecordRetry
  <2> QED
    BY <2>1 DEF GatesInv, GatesTypeOK
<1>4. \/ UNCHANGED <<vars, recent, owner>>
      \/ /\ Return(m) \/ \E status \in {"sent", "failed", "cancelled"} : Settle(m, status)
         /\ owner' = [owner EXCEPT ![m] = NoPass]
         /\ recent' = recent \/ recent' = recent \cup {m}
  BY DEF Defer, CancelRefused, RecordSent, RecordFailed, RecordRetry, Write
<1>5. /\ UNCHANGED <<ledger, suppression, paused, asked, checkout, update>>
      /\ queue' \in [Message -> Status]
      /\ \A n \in Message : queue'[n] = "processing" => queue[n] = "processing"
  <2>1. CASE UNCHANGED vars
    BY <2>1 DEF vars, ledgerVars, GatesInv, ConsentInv, ConsentTypeOK
  <2>2. CASE Return(m)
    BY <1>3, <2>2, MoveKeeps DEF Return, Status
  <2>3. CASE \E status \in {"sent", "failed", "cancelled"} : Settle(m, status)
    BY <1>3, <2>3, MoveKeeps DEF Settle, Status
  <2> QED
    BY <1>4, <2>1, <2>2, <2>3
<1>6. /\ owner' \in [Message -> Pass \cup {NoPass}]
      /\ \A n \in Message, q \in Pass : owner'[n] = q => owner[n] = q
  BY <1>3, <1>4, GatesFields, GateConstants DEF GatesInv, GateConstants
<1>7. recent' \in SUBSET Message
  BY <1>3, <1>4 DEF GatesInv, GatesTypeOK
<1>8. /\ at' \in [Pass -> Query]
      /\ \A q \in Pass : at'[q] = IF q = p THEN "idle" ELSE at[q]
  BY <1>1, GatesFields DEF GatesInv, Query
<1>9. GatesTypeOK'
  BY <1>1, <1>2, <1>6, <1>7, <1>8 DEF GatesInv, GatesTypeOK
<1>10. \A q \in Pass : at'[q] \in PastConsent =>
          at[q] \in PastConsent /\ holds'[q] = holds[q]
  BY <1>2, <1>8 DEF PastConsent
<1> QED
  BY <1>5, <1>6, <1>9, <1>10, QuietInv

\* A pass claims a row, and knows nothing of it yet.
LEMMA ClaimStep ==
    ASSUME GatesInv, NEW p \in Pass, NEW m \in Message, ClaimBy(p, m)
    PROVE  GatesInv'
<1>1. /\ at' = [at EXCEPT ![p] = "load"]
      /\ holds' = [holds EXCEPT ![p] = m]
      /\ why' = [why EXCEPT ![p] = "none"]
      /\ owner' = [owner EXCEPT ![m] = p]
      /\ UNCHANGED <<campaign, enrolled, stopping, stops, recent, reclaims>>
  BY DEF ClaimBy, Goto, journeyVars
<1>2. /\ UNCHANGED <<ledger, suppression, paused, asked, checkout, update>>
      /\ queue' \in [Message -> Status]
      /\ \A n \in Message : n # m => queue'[n] = queue[n]
  BY MoveKeeps DEF ClaimBy, Claim, Status
<1>3. /\ at' \in [Pass -> Query]
      /\ \A q \in Pass : at'[q] = IF q = p THEN "load" ELSE at[q]
  BY <1>1, GatesFields DEF GatesInv, Query
<1>4. /\ holds' \in [Pass -> Message \cup {NoMessage}]
      /\ \A q \in Pass : holds'[q] = IF q = p THEN m ELSE holds[q]
  BY <1>1, GatesFields DEF GatesInv
<1>5. /\ why' \in [Pass -> Code]
      /\ \A q \in Pass : why'[q] = IF q = p THEN "none" ELSE why[q]
  BY <1>1, GatesFields DEF GatesInv, Code
<1>6. /\ owner' \in [Message -> Pass \cup {NoPass}]
      /\ \A n \in Message : owner'[n] = IF n = m THEN p ELSE owner[n]
  BY <1>1, GatesFields DEF GatesInv
<1>7. \A q \in Pass : at'[q] # "idle" => holds'[q] # NoMessage
  BY <1>3, <1>4, GateConstants DEF GatesInv, GatesTypeOK, GateConstants
<1>8. \A q \in Pass : at'[q] = "cancel" => why'[q] # "none"
  BY <1>3, <1>5 DEF GatesInv, GatesTypeOK
<1>9. GatesTypeOK'
  BY <1>1, <1>3, <1>4, <1>5, <1>6, <1>7, <1>8 DEF GatesInv, GatesTypeOK
<1>10. \A q \in Pass : at'[q] \in PastConsent =>
          at[q] \in PastConsent /\ holds'[q] = holds[q]
  BY <1>3, <1>4 DEF PastConsent
<1>11. \A q \in Pass, n \in Message :
          owner'[n] = q /\ queue'[n] = "processing" =>
             \/ owner[n] = q /\ queue[n] = "processing"
             \/ at'[q] = "load"
  BY <1>2, <1>3, <1>6
<1> QED
  BY <1>2, <1>9, <1>10, <1>11, QuietInv

\* A pass dies, and its claim stays where it is.
LEMMA CrashStep ==
    ASSUME GatesInv, NEW p \in Pass, Crash(p)
    PROVE  GatesInv'
<1>1. /\ at' = [at EXCEPT ![p] = "idle"] /\ why' = why
      /\ UNCHANGED <<ledger, suppression, paused, asked, queue, checkout, update>>
      /\ UNCHANGED <<campaign, enrolled, stopping, stops, holds, owner, recent>>
  BY DEF Crash, Proceed, Goto, vars, ledgerVars, journeyVars
<1>2. /\ at' \in [Pass -> Query]
      /\ \A q \in Pass : at'[q] = IF q = p THEN "idle" ELSE at[q]
  BY <1>1, GatesFields DEF GatesInv, Query
<1>3. reclaims' \in 0..MaxReclaims
  BY GateConstants DEF Crash, GatesInv, GatesTypeOK, GateConstants
<1>4. GatesTypeOK'
  BY <1>1, <1>2, <1>3 DEF GatesInv, GatesTypeOK
<1>5. queue' \in [Message -> Status]
  BY <1>1 DEF GatesInv, ConsentInv, ConsentTypeOK
<1>6. \A q \in Pass : at'[q] \in PastConsent =>
          at[q] \in PastConsent /\ holds'[q] = holds[q]
  BY <1>1, <1>2 DEF PastConsent
<1> QED
  BY <1>1, <1>4, <1>5, <1>6, QuietInv

\* A row loses its owner, whose later writes and refresh find it gone.
LEMMA ReclaimStep ==
    ASSUME GatesInv, NEW m \in Message, Reclaim(m)
    PROVE  GatesInv'
<1>1. /\ owner' = [owner EXCEPT ![m] = NoPass]
      /\ UNCHANGED <<campaign, enrolled, stopping, stops, at, holds, why, recent>>
  BY DEF Reclaim, journeyVars, passVars
<1>2. /\ UNCHANGED <<ledger, suppression, paused, asked, checkout, update>>
      /\ queue' \in [Message -> Status]
      /\ \A n \in Message : n # m => queue'[n] = queue[n]
  <2>1. CASE Return(m)
    BY <2>1, MoveKeeps DEF Return, Status
  <2>2. CASE Settle(m, "failed")
    BY <2>2, MoveKeeps DEF Settle, Status
  <2> QED
    BY <2>1, <2>2 DEF Reclaim
<1>3. /\ owner' \in [Message -> Pass \cup {NoPass}]
      /\ \A n \in Message : owner'[n] = IF n = m THEN NoPass ELSE owner[n]
  BY <1>1, GatesFields DEF GatesInv
<1>4. reclaims' \in 0..MaxReclaims
  BY GateConstants DEF Reclaim, GatesInv, GatesTypeOK, GateConstants
<1>5. GatesTypeOK'
  BY <1>1, <1>3, <1>4 DEF GatesInv, GatesTypeOK
<1>6. \A q \in Pass : at'[q] \in PastConsent =>
          at[q] \in PastConsent /\ holds'[q] = holds[q]
  BY <1>1
<1>7. \A q \in Pass, n \in Message :
          owner'[n] = q /\ queue'[n] = "processing" =>
             owner[n] = q /\ queue[n] = "processing"
  BY <1>2, <1>3, GateConstants DEF GateConstants
<1> QED
  BY <1>2, <1>5, <1>6, <1>7, QuietInv

\* Operators, stop conditions and the window.
LEMMA JourneyStep ==
    ASSUME GatesInv,
           \/ \E c \in Journey :
                 \/ \E status \in {"active", "paused", "archived"} : SetCampaign(c, status)
                 \/ StopEnrolment(c) \/ CancelEnrolment(c) \/ StopDies(c)
           \/ \E m \in Message : WindowPasses(m)
    PROVE  GatesInv'
<1>1. /\ UNCHANGED <<ledger, suppression, paused, asked, checkout, update>>
      /\ UNCHANGED <<at, holds, why, owner, reclaims>>
  BY DEF SetCampaign, StopEnrolment, CancelEnrolment, StopDies, WindowPasses,
     vars, ledgerVars, passVars
<1>2. /\ queue' \in [Message -> Status]
      /\ \A m \in Message : queue'[m] = "processing" => queue[m] = "processing"
  <2>1. CASE UNCHANGED queue
    BY <2>1 DEF GatesInv, ConsentInv, ConsentTypeOK
  <2>2. CASE \E S : queue' = Cancelled(S)
    <3>1. queue' \in [Message -> Status]
      BY <2>2, CancelledTyped DEF GatesInv, ConsentInv
    <3>2. \A m \in Message : queue'[m] = "processing" => queue[m] = "processing"
      BY <2>2 DEF Cancelled
    <3> QED
      BY <3>1, <3>2
  <2> QED
    BY <2>1, <2>2 DEF SetCampaign, StopEnrolment, CancelEnrolment, StopDies, WindowPasses, vars
<1>3. stops' \in 0..MaxStops
  <2>1. stops' = stops \/ (stops < MaxStops /\ stops' = stops + 1)
    BY DEF SetCampaign, StopEnrolment, CancelEnrolment, StopDies, WindowPasses, journeyVars
  <2>2. stops \in 0..MaxStops /\ MaxStops \in Nat
    BY GateConstants DEF GatesInv, GatesTypeOK, GateConstants
  <2> QED
    BY <2>1, <2>2
<1>4. /\ campaign' \in [Journey -> {"active", "paused", "archived"}]
      /\ enrolled' \in [Journey -> BOOLEAN]
      /\ stopping' \in SUBSET Journey
      /\ recent' \in SUBSET Message
  <2>1. CASE \E c \in Journey, status \in {"active", "paused", "archived"} : SetCampaign(c, status)
    BY <2>1 DEF SetCampaign, GatesInv, GatesTypeOK
  <2>2. CASE \E c \in Journey : StopEnrolment(c)
    BY <2>2 DEF StopEnrolment, GatesInv, GatesTypeOK
  <2>3. CASE \E c \in Journey : CancelEnrolment(c) \/ StopDies(c)
    BY <2>3 DEF CancelEnrolment, StopDies, GatesInv, GatesTypeOK
  <2>4. CASE \E m \in Message : WindowPasses(m)
    BY <2>4 DEF WindowPasses, journeyVars, GatesInv, GatesTypeOK
  <2> QED
    BY <2>1, <2>2, <2>3, <2>4
<1>5. GatesTypeOK'
  BY <1>1, <1>3, <1>4 DEF GatesInv, GatesTypeOK
<1> QED
  BY <1>1, <1>2, <1>5, QuietInv

\* A message joins the queue.
LEMMA EnqueueStep ==
    ASSUME GatesInv, NEW m \in Message, Enqueue(m), UNCHANGED gateVars
    PROVE  GatesInv'
<1>1. UNCHANGED <<campaign, enrolled, stopping, stops, at, holds, why, owner, recent, reclaims>>
  BY DEF gateVars, journeyVars, passVars
<1>2. /\ UNCHANGED <<ledger, suppression, paused, asked, checkout, update>>
      /\ queue' \in [Message -> Status]
      /\ \A n \in Message : queue'[n] = "processing" => queue[n] = "processing"
  BY MoveKeeps DEF Enqueue, Status
<1>3. GatesTypeOK'
  BY <1>1 DEF GatesInv, GatesTypeOK
<1> QED
  BY <1>1, <1>2, <1>3, QuietInv

-----------------------------------------------------------------------------
(***************************************************************************)
(* The requests, the initial states, and the invariant.                    *)
(***************************************************************************)

\* An unsubscribe takes the marketing rows of every pass away; no other request
\* adds to those who have unsubscribed.
LEMMA RequestOfContactStep ==
    ASSUME GatesInv, RequestOfContact
    PROVE  GatesInv'
<1>1. /\ Request
      /\ UNCHANGED <<campaign, enrolled, stopping, stops, at, holds, why, owner, recent, reclaims>>
  BY DEF RequestOfContact, gateVars, journeyVars, passVars
<1>2. ConsentInv'
  BY <1>1, RequestStep DEF GatesInv
<1>3. GatesTypeOK'
  BY <1>1 DEF GatesInv, GatesTypeOK
<1>4. \A p \in Pass : at[p] \in PastConsent => holds[p] \in Message
  BY DEF GatesInv, GatesTypeOK, PastConsent
<1>5. CASE UnsubscribeAll
  <2> DEFINE row == Entry(AllCategories, "opted_out", "unsubscribe_link")
  <2>1. ledger \in Seq(LedgerRow) /\ row \in LedgerRow
    BY EntryTyped DEF GatesInv, ConsentInv, ConsentTypeOK, Scope, Consent, Source
  <2>2. ledger' = ledger \o <<row>>
    BY <1>5 DEF UnsubscribeAll, Record
  <2>3. \A i \in DOMAIN ledger' :
            IF i = Len(ledger) + 1 THEN ledger'[i] = row
            ELSE i \in DOMAIN ledger /\ ledger'[i] = ledger[i]
    BY <2>1, <2>2
  <2>4. row.state = "opted_out"
    BY DEF Entry
  <2>5. UnsubscribesOptOut'
    BY <2>3, <2>4 DEF GatesInv, UnsubscribesOptOut
  <2>6. \A m \in Message : Marketing(m) => queue'[m] # "processing"
    BY <1>1, <1>5, RequestQueue DEF GatesInv
  <2>7. Informed'
    BY <1>1, <1>4, <2>6 DEF Informed, Owned, Marketing
  <2> QED
    BY <1>2, <1>3, <2>5, <2>7 DEF GatesInv
<1>6. CASE \/ UNCHANGED ledger
           \/ \E rows : Ordinary(rows) /\ ledger' = ledger \o rows
  <2>1. UnsubscribesOptOut' /\ \A c : UnsubscribedIn(ledger', c) => UnsubscribedIn(ledger, c)
    <3>1. CASE UNCHANGED ledger
      BY <3>1 DEF GatesInv, UnsubscribesOptOut
    <3>2. CASE \E rows : Ordinary(rows) /\ ledger' = ledger \o rows
      BY <3>2, OrdinaryRecord DEF GatesInv, Unsubscribed
    <3> QED
      BY <1>6, <3>1, <3>2
  <2>2. \A p \in Pass : at[p] \in PastConsent /\ queue'[holds[p]] = "processing"
                         => queue[holds[p]] = "processing"
    BY <1>1, <1>4, RequestQueue DEF GatesInv
  <2>3. Informed'
    BY <1>1, <2>1, <2>2 DEF GatesInv, Informed, Owned, Marketing, Unsubscribed
  <2> QED
    BY <1>2, <1>3, <2>1, <2>3 DEF GatesInv
<1> QED
  BY <1>1, <1>5, <1>6, RequestRecords DEF GatesInv

\* Nothing is claimed, and nobody has said anything.
LEMMA GatesInvInit == GatesInit => GatesInv
<1> SUFFICES ASSUME GatesInit
             PROVE  GatesInv
  OBVIOUS
<1>1. ConsentInv
  BY ConsentInvInit DEF GatesInit
<1>2. reclaims \in 0..MaxReclaims /\ stops \in 0..MaxStops
  BY GateConstants DEF GatesInit, GateConstants
<1>3. GatesTypeOK
  BY <1>2 DEF GatesInit, GatesTypeOK, Query, Code
<1>4. UnsubscribesOptOut
  BY DEF GatesInit, Init, UnsubscribesOptOut
<1>5. Informed
  BY DEF GatesInit, Informed, PastConsent
<1> QED
  BY <1>1, <1>3, <1>4, <1>5 DEF GatesInv

\* Every step of the passes and of everything around them.
LEMMA GatesInvStep == GatesInv /\ [GatesNext]_allVars => GatesInv'
<1> SUFFICES ASSUME GatesInv, [GatesNext]_allVars
             PROVE  GatesInv'
  OBVIOUS
<1>1. ASSUME NEW p \in Pass, PassStep(p)
      PROVE  GatesInv'
  BY <1>1, GateStep, WriteStep DEF PassStep
<1>2. ASSUME NEW p \in Pass, Crash(p) \/ \E m \in Message : ClaimBy(p, m)
      PROVE  GatesInv'
  BY <1>2, CrashStep, ClaimStep
<1>3. ASSUME NEW m \in Message,
             Reclaim(m) \/ WindowPasses(m) \/ (Enqueue(m) /\ UNCHANGED gateVars)
      PROVE  GatesInv'
  BY <1>3, ReclaimStep, JourneyStep, EnqueueStep
<1>4. ASSUME NEW c \in Journey,
             \/ \E status \in {"active", "paused", "archived"} : SetCampaign(c, status)
             \/ StopEnrolment(c) \/ CancelEnrolment(c) \/ StopDies(c)
      PROVE  GatesInv'
  BY <1>4, JourneyStep
<1>5. CASE RequestOfContact
  BY <1>5, RequestOfContactStep
<1>6. CASE UNCHANGED allVars
  <2>1. /\ UNCHANGED <<ledger, suppression, paused, asked, queue, checkout, update>>
        /\ UNCHANGED <<campaign, enrolled, stopping, stops, at, holds, why, owner,
                       recent, reclaims>>
    BY <1>6 DEF allVars, vars, ledgerVars, gateVars, journeyVars, passVars
  <2>2. GatesTypeOK'
    BY <2>1 DEF GatesInv, GatesTypeOK
  <2>3. queue' \in [Message -> Status]
    BY <2>1 DEF GatesInv, ConsentInv, ConsentTypeOK
  <2> QED
    BY <2>1, <2>2, <2>3, QuietInv
<1> QED
  BY <1>1, <1>2, <1>3, <1>4, <1>5, <1>6 DEF GatesNext

\* The invariant of every behaviour.
LEMMA GatesInvariant == GatesSpec => []GatesInv
<1> QED
  BY GatesInvInit, GatesInvStep, PTL DEF GatesSpec

-----------------------------------------------------------------------------
(***************************************************************************)
(* The frequency cap, and the passes that have already counted.            *)
(***************************************************************************)

PastCap == {"refresh", "send", "sent", "failed", "retry"}

\* The passes that may still send because of what they have counted.
Counted == {p \in Pass : at[p] \in PastCap}

\* A pass beyond the gate holds a place of its own in the window, and there are never
\* more places than the cap and one for every further pass.
CapInv ==
    /\ IsFiniteSet(recent)
    /\ Cardinality(recent) + Cardinality(Counted) + 1 <= FreqCap + Cardinality(Pass)

\* A set of passes is finite and no larger than all of them.
LEMMA SomePasses ==
    ASSUME NEW S \in SUBSET Pass
    PROVE  /\ IsFiniteSet(S)
           /\ Cardinality(S) \in Nat
           /\ Cardinality(Pass) \in Nat
           /\ Cardinality(S) <= Cardinality(Pass)
<1>1. IsFiniteSet(Pass)
  BY GateConstants DEF GateConstants
<1> QED
  BY <1>1, FS_Subset, FS_CardinalityType

\* A step that sends nothing: nobody passes the cap gate but below the cap, and
\* below the cap there is room for all the passes.
LEMMA CapQuietStep ==
    ASSUME CapInv, recent' = recent,
           \A p \in Pass : at'[p] \in PastCap =>
              at[p] \in PastCap \/ Cardinality(recent) < FreqCap
    PROVE  CapInv'
<1>1. /\ IsFiniteSet(recent) /\ Cardinality(recent) \in Nat /\ FreqCap \in Nat
  BY FS_CardinalityType, GateConstants DEF CapInv, GateConstants
<1>2. Counted \in SUBSET Pass /\ Counted' \in SUBSET Pass
  BY DEF Counted
<1>3. CASE Cardinality(recent) < FreqCap
  <2>1. /\ Cardinality(Counted') \in Nat /\ Cardinality(Pass) \in Nat
        /\ Cardinality(Counted') <= Cardinality(Pass)
    BY <1>2, SomePasses
  <2> QED
    BY <1>1, <1>3, <2>1 DEF CapInv
<1>4. CASE ~(Cardinality(recent) < FreqCap)
  <2>1. Counted' \in SUBSET Counted
    BY <1>4 DEF Counted
  <2>2. IsFiniteSet(Counted) /\ Cardinality(Counted) \in Nat /\ Cardinality(Pass) \in Nat
    BY <1>2, SomePasses
  <2>3. Cardinality(Counted') \in Nat /\ Cardinality(Counted') <= Cardinality(Counted)
    BY <2>1, <2>2, <1>2, SomePasses, FS_Subset
  <2> QED
    BY <1>1, <2>2, <2>3 DEF CapInv
<1> QED
  BY <1>3, <1>4

\* A step of a pass other than recording that its message was sent.
LEMMA CapPassStep ==
    ASSUME GatesInv, CapInv, NEW p \in Pass,
           \/ PassStep(p) /\ ~RecordSent(p)
           \/ Crash(p) \/ \E m \in Message : ClaimBy(p, m)
    PROVE  CapInv'
<1>1. at \in [Pass -> Query]
  BY GatesFields DEF GatesInv
<1>2. recent' = recent
  BY DEF PassStep, Load, ConsentGate, PauseGate, SuppressionGate, CapGate, Defer,
     CancelRefused, Refresh, Send, RecordFailed, RecordRetry, Crash, ClaimBy, Write, JustLooking
<1>3. PICK query : /\ at' = [at EXCEPT ![p] = query]
                   /\ query \in PastCap => at[p] \in PastCap \/ Cardinality(recent) < FreqCap
  <2>1. CASE Load(p) \/ ConsentGate(p) \/ PauseGate(p) \/ SuppressionGate(p)
    BY <2>1 DEF Load, ConsentGate, PauseGate, SuppressionGate, Proceed, Refuse, Goto, PastCap
  <2>2. CASE CapGate(p)
    <3>1. CASE Cardinality(recent) >= FreqCap
      BY <2>2, <3>1 DEF CapGate, Proceed, Goto, PastCap
    <3>2. CASE ~(Cardinality(recent) >= FreqCap)
      <4>1. Cardinality(recent) < FreqCap
        BY <3>2, FS_CardinalityType, GateConstants DEF CapInv, GateConstants
      <4> QED
        BY <2>2, <3>2, <4>1 DEF CapGate, Proceed, Refuse, Goto
    <3> QED
      BY <3>1, <3>2
  <2>3. CASE Refresh(p) \/ Send(p)
    BY <2>3 DEF Refresh, Send, Proceed, Goto, PastCap
  <2>4. CASE \/ Defer(p) \/ CancelRefused(p) \/ RecordFailed(p) \/ RecordRetry(p)
             \/ Crash(p) \/ \E m \in Message : ClaimBy(p, m)
    BY <2>4 DEF Defer, CancelRefused, RecordFailed, RecordRetry, Crash, ClaimBy, Write,
       Proceed, Goto, PastCap
  <2> QED
    BY <2>1, <2>2, <2>3, <2>4 DEF PassStep
<1>4. \A q \in Pass : at'[q] = IF q = p THEN query ELSE at[q]
  BY <1>1, <1>3
<1> QED
  BY <1>2, <1>3, <1>4, CapQuietStep

\* A pass that records a message gives its place to it.
LEMMA CapSentStep ==
    ASSUME GatesInv, CapInv, NEW p \in Pass, RecordSent(p)
    PROVE  CapInv'
<1>1. at \in [Pass -> Query]
  BY GatesFields DEF GatesInv
<1>2. at[p] = "sent" /\ at' = [at EXCEPT ![p] = "idle"]
  BY DEF RecordSent, Write, Proceed, Goto
<1>3. Counted' = Counted \ {p} /\ p \in Counted
  BY <1>1, <1>2 DEF Counted, PastCap
<1>4. IsFiniteSet(Counted) /\ Cardinality(Counted) \in Nat /\ Cardinality(Pass) \in Nat
  <2>1. Counted \in SUBSET Pass
    BY DEF Counted
  <2> QED
    BY <2>1, SomePasses
<1>5. Cardinality(Counted') = Cardinality(Counted) - 1
  BY <1>3, <1>4, FS_RemoveElement
<1>6. recent' = recent \/ recent' = recent \cup {holds[p]}
  BY DEF RecordSent, Write
<1>7. IsFiniteSet(recent) /\ Cardinality(recent) \in Nat /\ FreqCap \in Nat
  BY FS_CardinalityType, GateConstants DEF CapInv, GateConstants
<1>8. /\ IsFiniteSet(recent')
      /\ \/ Cardinality(recent') = Cardinality(recent)
         \/ Cardinality(recent') = Cardinality(recent) + 1
  <2>1. /\ IsFiniteSet(recent \cup {holds[p]})
        /\ \/ Cardinality(recent \cup {holds[p]}) = Cardinality(recent)
           \/ Cardinality(recent \cup {holds[p]}) = Cardinality(recent) + 1
    BY <1>7, FS_AddElement
  <2> QED
    BY <1>6, <1>7, <2>1
<1> QED
  BY <1>4, <1>5, <1>7, <1>8 DEF CapInv

\* A message leaves the window.
LEMMA CapWindowStep ==
    ASSUME CapInv, NEW m \in Message, WindowPasses(m)
    PROVE  CapInv'
<1>1. recent' = recent \ {m} /\ m \in recent /\ at' = at
  BY DEF WindowPasses, passVars
<1>2. /\ IsFiniteSet(recent')
      /\ Cardinality(recent') = Cardinality(recent) - 1
      /\ Cardinality(recent) \in Nat
  BY <1>1, FS_RemoveElement, FS_CardinalityType DEF CapInv
<1>3. Counted' = Counted
  BY <1>1 DEF Counted
<1>4. Cardinality(Counted) \in Nat /\ Cardinality(Pass) \in Nat
  <2>1. Counted \in SUBSET Pass
    BY DEF Counted
  <2> QED
    BY <2>1, SomePasses
<1>5. FreqCap \in Nat
  BY GateConstants DEF GateConstants
<1> QED
  BY <1>2, <1>3, <1>4, <1>5 DEF CapInv

LEMMA CapInvStep ==
    ASSUME GatesInv, CapInv, [GatesNext]_allVars
    PROVE  CapInv'
<1>1. ASSUME NEW p \in Pass, PassStep(p) \/ Crash(p) \/ \E m \in Message : ClaimBy(p, m)
      PROVE  CapInv'
  BY <1>1, CapPassStep, CapSentStep
<1>2. ASSUME NEW m \in Message, WindowPasses(m)
      PROVE  CapInv'
  BY <1>2, CapWindowStep
<1>3. CASE \/ \E m \in Message : Reclaim(m) \/ (Enqueue(m) /\ UNCHANGED gateVars)
           \/ \E c \in Journey :
                 \/ \E status \in {"active", "paused", "archived"} : SetCampaign(c, status)
                 \/ StopEnrolment(c) \/ CancelEnrolment(c) \/ StopDies(c)
           \/ RequestOfContact
           \/ UNCHANGED allVars
  <2>1. recent' = recent /\ at' = at
    BY <1>3 DEF Reclaim, SetCampaign, StopEnrolment, CancelEnrolment, StopDies,
       RequestOfContact, allVars, gateVars, passVars
  <2> QED
    BY <2>1, CapQuietStep
<1> QED
  BY <1>1, <1>2, <1>3 DEF GatesNext

-----------------------------------------------------------------------------
(***************************************************************************)
(* The theorems.                                                           *)
(***************************************************************************)

\* Types, and every refusal carries its code.
THEOREM GatesTyped == GatesSpec => []GatesTypeOK
<1>1. GatesInv => GatesTypeOK
  BY DEF GatesInv
<1> QED
  BY <1>1, GatesInvariant, PTL

\* Nothing a pass, a reclaim, a stop or an operator does beside the requests takes an
\* unsubscribe off the address again (consent.ts:124-147).
THEOREM UnsubscribeOutlastsThePasses == GatesSpec => []UnsubscribedIsSuppressed
<1>1. GatesInv => UnsubscribedIsSuppressed
  BY DEF GatesInv, ConsentInv
<1> QED
  BY <1>1, GatesInvariant, PTL

\* However many passes, crashes, reclaims and requests meet, the refresh never lets
\* a marketing message through to somebody who has unsubscribed
\* (orchestrator.ts:692-706, consent.ts:241-274).
THEOREM UnsubscribeIsHonoured == GatesSpec => UnsubscribeHonoured
<1>1. GatesInv /\ [GatesNext]_allVars =>
         [\A p \in Pass :
             at[p] = "refresh" /\ at'[p] = "send" /\ Marketing(holds[p])
                => ~Unsubscribed(CategoryOf[holds[p]])]_allVars
  <2> SUFFICES ASSUME GatesInv, [GatesNext]_allVars, NEW p \in Pass,
                      at[p] = "refresh", at'[p] = "send", Marketing(holds[p])
               PROVE  ~Unsubscribed(CategoryOf[holds[p]])
    OBVIOUS
  <2>1. at \in [Pass -> Query]
    BY GatesFields DEF GatesInv
  <2>2. CASE Owned(p)
    BY <2>2 DEF GatesInv, Informed, PastConsent
  <2>3. CASE ~Owned(p)
    <3>1. PICK q \in Pass : PassStep(q) \/ Crash(q) \/ \E m \in Message : ClaimBy(q, m)
      BY DEF GatesNext, Reclaim, WindowPasses, SetCampaign, StopEnrolment, CancelEnrolment,
         StopDies, RequestOfContact, allVars, gateVars, passVars
    <3>2. \E query : at' = [at EXCEPT ![q] = query]
      BY <3>1 DEF PassStep, Load, ConsentGate, PauseGate, SuppressionGate, CapGate, Defer,
         CancelRefused, Refresh, Send, RecordSent, RecordFailed, RecordRetry, Crash, ClaimBy,
         Write, Proceed, Refuse, Goto
    <3>3. q = p
      BY <2>1, <3>2
    <3>4. at'[p] = "idle"
      BY <2>1, <2>3, <3>1, <3>3 DEF PassStep, Load, ConsentGate, PauseGate, SuppressionGate,
         CapGate, Defer, CancelRefused, Refresh, Send, RecordSent, RecordFailed, RecordRetry,
         Crash, ClaimBy, Proceed, Goto
    <3> QED
      BY <3>4
  <2> QED
    BY <2>2, <2>3
<1> QED
  BY <1>1, GatesInvariant, PTL DEF GatesSpec, UnsubscribeHonoured

\* However many passes, messages, crashes and reclaims meet, and whatever the cap: each
\* pass but one brings at most a single message past it, since underFrequencyCap counts
\* before it sends (orchestrator.ts:332-362); a single pass keeps the cap.
THEOREM CapOverrunIsBounded == GatesSpec => []CapOverrunBounded
<1>1. GatesInit => CapInv
  <2> SUFFICES ASSUME GatesInit
               PROVE  CapInv
    OBVIOUS
  <2>1. recent = {} /\ \A p \in Pass : at[p] = "idle"
    BY DEF GatesInit
  <2>2. IsFiniteSet(recent) /\ Cardinality(recent) = 0
    BY <2>1, FS_EmptySet
  <2>3. Counted = {}
    BY <2>1 DEF Counted, PastCap
  <2>4. Cardinality(Counted) = 0
    BY <2>3, FS_EmptySet
  <2>5. FreqCap \in Nat \ {0} /\ Cardinality(Pass) \in Nat
    BY SomePasses, GateConstants DEF GateConstants
  <2> QED
    BY <2>2, <2>4, <2>5 DEF CapInv
<1>2. GatesInv /\ CapInv /\ [GatesNext]_allVars => CapInv'
  BY CapInvStep
<1>3. CapInv => CapOverrunBounded
  <2>1. Counted \in SUBSET Pass
    BY DEF Counted
  <2>2. Cardinality(Counted) \in Nat /\ Cardinality(Pass) \in Nat
    BY <2>1, SomePasses
  <2>3. CapInv => Cardinality(recent) \in Nat /\ FreqCap \in Nat
    BY FS_CardinalityType, GateConstants DEF CapInv, GateConstants
  <2> QED
    BY <2>2, <2>3 DEF CapInv, CapOverrunBounded
<1> QED
  BY <1>1, <1>2, <1>3, GatesInvariant, PTL DEF GatesSpec
=============================================================================
