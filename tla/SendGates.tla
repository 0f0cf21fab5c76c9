----------------------------- MODULE SendGates -----------------------------
(***************************************************************************)
(* A delivery pass through the gates of                                    *)
(* packages/core/src/delivery/orchestrator.ts, against everything that may *)
(* change what the gates have read: the requests of ConsentLedger, the     *)
(* campaign's status, the end of an enrolment, other passes.               *)
(*                                                                         *)
(* Every query of deliverClaimed is a step.  loadContext reads campaign    *)
(* and enrolment once; consent, pause, suppression and the count of recent *)
(* messages are read by their gates; refreshClaim is the last look before  *)
(* provider.send, and looks at the claim only.                             *)
(*                                                                         *)
(* One contact and one channel, as in ConsentLedger, with one campaign and *)
(* one enrolment of the contact in it per category.  A deferred row is     *)
(* pending again: since the gates judge it afresh, when it is due matters  *)
(* to nothing here.  Delivery models the rest of the claim.                *)
(***************************************************************************)
EXTENDS ConsentLedger, FiniteSets

CONSTANTS
    Pass,           \* the delivery passes: worker runs and storefront flushes
    NoPass,         \* nobody has claimed the row
    NoMessage,      \* the pass has not claimed anything yet
    FreqCap,        \* tenants.freq_cap_count
    QuietExempt,    \* the categories that ignore quiet hours
    MaxReclaims,    \* bound of the model: claims that die or turn stale
    MaxStops        \* bound of the model: campaigns halted, enrolments stopped

ASSUME GateConstants ==
    /\ IsFiniteSet(Pass)
    /\ NoPass \notin Pass
    /\ NoMessage \notin Message
    /\ FreqCap \in Nat \ {0}
    /\ QuietExempt \subseteq Category
    /\ "none" \notin Reason
    /\ MaxReclaims \in Nat
    /\ MaxStops \in Nat

VARIABLES
    campaign,       \* campaigns.status, archived or paused or active
    enrolled,       \* enrollments.status = 'active'
    stopping,       \* the enrolments evaluateStopConditions has stopped, and
                    \* whose rows it has still to cancel
    at,             \* the next query of each pass
    holds,          \* the row a pass is delivering
    why,            \* the reason code a pass cancels it with
    owner,          \* message_queue.claimed_by of the rows in flight
    recent,         \* rows whose sent_at lies within freq_cap_window
    reclaims, stops

passVars == <<at, holds, why>>
journeyVars == <<campaign, enrolled, stopping, stops>>
gateVars == <<journeyVars, passVars, owner, recent, reclaims>>
allVars == <<vars, gateVars>>

Marketing(m) == CategoryOf[m] # Transactional

\* The categories there is a message of.
Journey == {CategoryOf[m] : m \in Message}

Query ==
    {"idle", "load", "consent", "pause", "suppression", "cap", "refresh", "send",
     "sent", "failed", "retry", "defer", "cancel"}

Code == {"none", "campaign_not_active", "enrollment_stopped", "consent", "other"} \cup Reason

GatesInit ==
    /\ Init
    /\ campaign = [c \in Journey |-> "active"]
    /\ enrolled = [c \in Journey |-> TRUE]
    /\ stopping = {}
    /\ at = [p \in Pass |-> "idle"]
    /\ holds = [p \in Pass |-> NoMessage]
    /\ why = [p \in Pass |-> "none"]
    /\ owner = [m \in Message |-> NoPass]
    /\ recent = {}
    /\ reclaims = 0
    /\ stops = 0

-----------------------------------------------------------------------------
(***************************************************************************)
(* A pass.                                                                 *)
(***************************************************************************)

Goto(p, query) == at' = [at EXCEPT ![p] = query]

\* A gate that refuses for good, with its code.
Refuse(p, code) ==
    /\ Goto(p, "cancel")
    /\ why' = [why EXCEPT ![p] = code]

\* A gate that passes, or refuses for now.
Proceed(p, query) ==
    /\ Goto(p, query)
    /\ UNCHANGED why

\* OWNED, the fence of every write.
Owned(p) == queue[holds[p]] = "processing" /\ owner[holds[p]] = p

JustLooking == UNCHANGED <<vars, journeyVars, holds, owner, recent, reclaims>>

ClaimBy(p, m) ==
    /\ at[p] = "idle"
    /\ Claim(m)
    /\ owner' = [owner EXCEPT ![m] = p]
    /\ holds' = [holds EXCEPT ![p] = m]
    /\ Goto(p, "load")
    /\ why' = [why EXCEPT ![p] = "none"]
    /\ UNCHANGED <<journeyVars, recent, reclaims>>

\* loadContext, and the two gates that judge what it read.
Load(p) ==
    /\ at[p] = "load"
    /\ LET c == CategoryOf[holds[p]] IN
          \/ campaign[c] = "paused" /\ Proceed(p, "defer")
          \/ campaign[c] = "archived" /\ Refuse(p, "campaign_not_active")
          \/ /\ campaign[c] = "active"
             /\ ~enrolled[c]
             /\ Refuse(p, "enrollment_stopped")
          \/ /\ campaign[c] = "active"
             /\ enrolled[c]
             /\ Proceed(p, IF Marketing(holds[p]) THEN "consent" ELSE "suppression")
    /\ JustLooking

\* Mutant of ConsentGate: an opt-out is "not now".
ConsentGateRetryable(p) ==
    /\ at[p] = "consent"
    /\ Proceed(p, IF ConsentState(CategoryOf[holds[p]]) = "opted_in" THEN "pause" ELSE "defer")
    /\ JustLooking

\* consentCurrent asks consent_state, ...
ConsentGate(p) ==
    /\ at[p] = "consent"
    /\ IF ConsentState(CategoryOf[holds[p]]) = "opted_in" THEN Proceed(p, "pause")
       ELSE Refuse(p, "consent")
    /\ JustLooking

\* ... then activePause.
PauseGate(p) ==
    /\ at[p] = "pause"
    /\ Proceed(p, IF paused THEN "defer" ELSE "suppression")
    /\ JustLooking

\* notSuppressed, and withinQuietHours, which asks the clock only.
SuppressionGate(p) ==
    /\ at[p] = "suppression"
    /\ IF Suppressed THEN Refuse(p, suppression.reason)
       ELSE \/ Proceed(p, "cap")
            \/ /\ CategoryOf[holds[p]] \notin QuietExempt
               /\ Proceed(p, "defer") \/ Refuse(p, "other")
    /\ JustLooking

\* Mutant of CapGate: the cap is passed once too often.
CapGateOffByOne(p) ==
    /\ at[p] = "cap"
    /\ IF Cardinality(recent) > FreqCap THEN Proceed(p, "defer")
       ELSE Proceed(p, "refresh") \/ Refuse(p, "other")
    /\ JustLooking

\* underFrequencyCap; then the address, the send condition and the sender, each
\* of which may refuse.
CapGate(p) ==
    /\ at[p] = "cap"
    /\ IF Cardinality(recent) >= FreqCap THEN Proceed(p, "defer")
       ELSE Proceed(p, "refresh") \/ Refuse(p, "other")
    /\ JustLooking

\* A write of the pass to the row it holds, if the row is still its own.
Write(p, Effect) ==
    /\ IF Owned(p) THEN Effect /\ owner' = [owner EXCEPT ![holds[p]] = NoPass]
       ELSE UNCHANGED <<vars, recent, owner>>
    /\ Proceed(p, "idle")
    /\ UNCHANGED <<journeyVars, holds, reclaims>>

Defer(p) ==
    /\ at[p] = "defer"
    /\ Write(p, Return(holds[p]) /\ UNCHANGED recent)

CancelRefused(p) ==
    /\ at[p] = "cancel"
    /\ Write(p, Settle(holds[p], "cancelled") /\ UNCHANGED recent)

Refresh(p) ==
    /\ at[p] = "refresh"
    /\ Proceed(p, IF Owned(p) THEN "send" ELSE "idle")
    /\ JustLooking

\* provider.send answers: accepted, refused for good, or not now.
Send(p) ==
    /\ at[p] = "send"
    /\ \E record \in {"sent", "failed", "retry"} : Proceed(p, record)
    /\ JustLooking

RecordSent(p) ==
    /\ at[p] = "sent"
    /\ Write(p, Settle(holds[p], "sent") /\ recent' = recent \cup {holds[p]})

RecordFailed(p) ==
    /\ at[p] = "failed"
    /\ Write(p, Settle(holds[p], "failed") /\ UNCHANGED recent)

\* scheduleRetry, or markFailed when the attempts are used up.
RecordRetry(p) ==
    /\ at[p] = "retry"
    /\ Write(p, /\ Return(holds[p]) \/ Settle(holds[p], "failed")
                /\ UNCHANGED recent)

PassStep(p) ==
    \/ Load(p) \/ ConsentGate(p) \/ PauseGate(p) \/ SuppressionGate(p) \/ CapGate(p)
    \/ Defer(p) \/ CancelRefused(p) \/ Refresh(p) \/ Send(p)
    \/ RecordSent(p) \/ RecordFailed(p) \/ RecordRetry(p)

-----------------------------------------------------------------------------
(***************************************************************************)
(* Everything else.                                                        *)
(***************************************************************************)

\* A process dies between two queries.
Crash(p) ==
    /\ at[p] # "idle"
    /\ reclaims < MaxReclaims
    /\ Proceed(p, "idle")
    /\ reclaims' = reclaims + 1
    /\ UNCHANGED <<vars, journeyVars, holds, owner, recent>>

Abandoned(m) == \A p \in Pass : owner[m] = p => at[p] = "idle" \/ holds[p] # m

\* reclaimStale returns a claim, or fails its row when the attempts are used up:
\* one that nobody attends to any more, or a slow one.
Reclaim(m) ==
    /\ Return(m) \/ Settle(m, "failed")
    /\ IF Abandoned(m) THEN UNCHANGED reclaims
       ELSE reclaims < MaxReclaims /\ reclaims' = reclaims + 1
    /\ owner' = [owner EXCEPT ![m] = NoPass]
    /\ UNCHANGED <<journeyVars, passVars, recent>>

\* An operator pauses, archives or activates a campaign.  What keeps an archived
\* one from coming back is a read before the update, so nothing does.
SetCampaign(c, status) ==
    /\ campaign[c] # status
    /\ status # "active" => stops < MaxStops
    /\ stops' = IF status = "active" THEN stops ELSE stops + 1
    /\ campaign' = [campaign EXCEPT ![c] = status]
    /\ UNCHANGED <<vars, enrolled, stopping, passVars, owner, recent, reclaims>>

\* A stop condition ends the enrolment, ...
StopEnrolment(c) ==
    /\ enrolled[c]
    /\ stops < MaxStops
    /\ stops' = stops + 1
    /\ enrolled' = [enrolled EXCEPT ![c] = FALSE]
    /\ stopping' = stopping \cup {c}
    /\ UNCHANGED <<vars, campaign, passVars, owner, recent, reclaims>>

\* ... and then cancels its rows, whatever their category, ...
CancelEnrolment(c) ==
    /\ c \in stopping
    /\ queue' = Cancelled({c})
    /\ stopping' = stopping \ {c}
    /\ UNCHANGED <<ledgerVars, checkout, update>>
    /\ UNCHANGED <<campaign, enrolled, stops, passVars, owner, recent, reclaims>>

\* ... if the job lives that long; the next run skips a stopped enrolment.
StopDies(c) ==
    /\ c \in stopping
    /\ stopping' = stopping \ {c}
    /\ UNCHANGED <<vars, campaign, enrolled, stops, passVars, owner, recent, reclaims>>

\* A message leaves the rolling window.
WindowPasses(m) ==
    /\ m \in recent
    /\ recent' = recent \ {m}
    /\ UNCHANGED <<vars, journeyVars, passVars, owner, reclaims>>

RequestOfContact == Request /\ UNCHANGED gateVars

GatesNext ==
    \/ \E p \in Pass : PassStep(p) \/ Crash(p) \/ \E m \in Message : ClaimBy(p, m)
    \/ \E m \in Message : Reclaim(m) \/ WindowPasses(m) \/ (Enqueue(m) /\ UNCHANGED gateVars)
    \/ \E c \in Journey :
          \/ \E status \in {"active", "paused", "archived"} : SetCampaign(c, status)
          \/ StopEnrolment(c)
          \/ CancelEnrolment(c)
          \/ StopDies(c)
    \/ RequestOfContact

GatesSpec == GatesInit /\ [][GatesNext]_allVars

\* Queries return or throw, due rows are claimed, abandoned claims are reclaimed.
GatesFairSpec ==
    /\ GatesSpec
    /\ \A p \in Pass : WF_allVars(PassStep(p))
    /\ \A m \in Message :
          /\ WF_allVars(\E p \in Pass : ClaimBy(p, m))
          /\ WF_allVars(Abandoned(m) /\ Reclaim(m))

-----------------------------------------------------------------------------
(***************************************************************************)
(* Properties.                                                             *)
(***************************************************************************)

\* Types; and a pass that refuses a message can say why (I14).
GatesTypeOK ==
    /\ campaign \in [Journey -> {"active", "paused", "archived"}]
    /\ enrolled \in [Journey -> BOOLEAN]
    /\ stopping \in SUBSET Journey
    /\ at \in [Pass -> Query]
    /\ holds \in [Pass -> Message \cup {NoMessage}]
    /\ why \in [Pass -> Code]
    /\ owner \in [Message -> Pass \cup {NoPass}]
    /\ recent \in SUBSET Message
    /\ reclaims \in 0..MaxReclaims
    /\ stops \in 0..MaxStops
    /\ \A p \in Pass : at[p] # "idle" => holds[p] # NoMessage
    /\ \A p \in Pass : at[p] = "cancel" => why[p] # "none"

\* The contact's last word on category c is that they unsubscribed from all.
UnsubscribedIn(rows, c) ==
    \E i \in Relevant(rows, c) :
        /\ \A j \in Relevant(rows, c) : j <= i
        /\ rows[i].source = "unsubscribe_link"

Unsubscribed(c) == UnsubscribedIn(ledger, c)

\* The last look before provider.send never lets a marketing message through to
\* somebody who has unsubscribed, although it does not look at consent: a pass
\* whose gates ran before the unsubscribe finds its row cancelled
\* (orchestrator.ts:692-706, consent.ts:241-274).
UnsubscribeHonoured ==
    [][\A p \in Pass :
          at[p] = "refresh" /\ at'[p] = "send" /\ Marketing(holds[p])
             => ~Unsubscribed(CategoryOf[holds[p]])]_allVars

\* The count is a read without a lock, so passes that count before any of them has
\* sent go over the cap together (tests/qa/qa-frequency-cap.test.ts:165).  They go no
\* further than that: each pass but one brings a single message past the cap within
\* one window, however many messages wait, whatever dies and is claimed again; a
\* single pass keeps the cap itself (orchestrator.ts:332-362).  Counted is what
\* sent_at records.
CapOverrunBounded == Cardinality(recent) + 1 <= FreqCap + Cardinality(Pass)

\* Whoever switches a category off is rid of its queued messages in the end, also
\* if the update dies before its cancel: the gate refuses what it left
\* ("The gate would catch them", public.ts:418), unless the campaign is paused
\* again and again.
SwitchedOffSettles ==
    \A m \in Message :
        LET c == CategoryOf[m]
            waits == queue[m] \in {"pending", "processing"}
            off == ConsentState(c) = "opted_out"
        IN  Marketing(m) /\ <>[](campaign[c] # "paused")
                => (waits /\ off ~> ~waits \/ ~off)

\* Refuted: "unsubscribing from marketing must not cancel a queued transactional
\* message" (tests/qa/qa-consent-gates.test.ts:256).
ReceiptsOutliveUnsubscribe ==
    \A p \in Pass :
        ~ /\ at[p] = "cancel"
          /\ Owned(p)
          /\ CategoryOf[holds[p]] = Transactional
          /\ why[p] = "unsubscribe"
          /\ \E i \in DOMAIN ledger : ledger[i].source = "unsubscribe_link"

=============================================================================
