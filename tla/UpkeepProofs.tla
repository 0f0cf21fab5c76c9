---------------------------- MODULE UpkeepProofs ----------------------------
(***************************************************************************)
(* What MCUpkeep checks of provider callbacks and scheduled jobs, for any  *)
(* number of letters, handlers, workers, runs, days and faults: the event  *)
(* store (Webhooks), the lock of a job and its statistics (Scheduler).     *)
(***************************************************************************)
EXTENDS MCUpkeep, FiniteSetTheorems, TLAPS

-----------------------------------------------------------------------------
(* The event store                                                         *)

\* The handler h serves the receipt r, and is at the step that InsertEvent sent it to.
Applies(h, r) == call[h].receipt = r /\ call[h].at = "status"

(***************************************************************************)
(* A receipt is applied by the one request that wrote its event: before    *)
(* there is an event nobody applies it, and from then on it has been       *)
(* applied or one request is about to, never both.                         *)
(***************************************************************************)
OneApplies ==
    /\ \A r \in Receipt \ events : applied[r] = 0 /\ ~Serving(r, {"status"})
    /\ \A h \in Handler, r \in Receipt : Applies(h, r) => applied[r] = 0
    /\ \A h, g \in Handler, r \in Receipt : Applies(h, r) /\ Applies(g, r) => h = g

HooksInv == HooksTypeOK /\ OneApplies /\ AppliedOnce /\ BounceSuppressed /\ KeptForReplay

LEMMA HooksStart == HooksInit => HooksInv
<1> SUFFICES ASSUME HooksInit PROVE HooksInv
  OBVIOUS
<1> USE WebhookConstants
<1>1. HooksTypeOK
  BY DEF HooksInit, HooksTypeOK, Waiting, HookStep
<1>2. \A h \in Handler : call[h].receipt = NoReceipt /\ call[h].at = "idle"
  BY DEF HooksInit, Waiting
<1>3. OneApplies /\ AppliedOnce /\ BounceSuppressed /\ KeptForReplay
  BY <1>2 DEF HooksInit, OneApplies, AppliedOnce, BounceSuppressed, KeptForReplay, Applies, Serving
<1> QED BY <1>1, <1>3 DEF HooksInv

\* Who serves, serves a receipt.
LEMMA ServedReceipt ==
    ASSUME HooksTypeOK, NEW h \in Handler, call[h].at # "idle"
    PROVE  /\ What(h) \in Receipt /\ What(h)[1] \in Letter /\ What(h)[2] \in Fate
           /\ What(h) = <<What(h)[1], What(h)[2]>>
BY DEF HooksTypeOK, What, Receipt

LEMMA HooksTypeStep == HooksTypeOK /\ [HooksNext]_hookVars => HooksTypeOK'
<1> SUFFICES ASSUME HooksTypeOK, [HooksNext]_hookVars PROVE HooksTypeOK'
  OBVIOUS
<1> USE WebhookConstants
<1>1. ASSUME NEW l \in Letter, RecordSend(l) PROVE HooksTypeOK'
  BY <1>1 DEF RecordSend, HooksTypeOK, hookHistory
<1>2. ASSUME NEW l \in Letter, NEW fate \in Fate, Accept(l, fate) PROVE HooksTypeOK'
  <2>1. Reports(l, fate) \subseteq Receipt
    BY DEF Reports, Receipt, Fate
  <2> QED BY <1>2, <2>1 DEF Accept, HooksTypeOK, hookHistory
<1>3. ASSUME RotateCredential PROVE HooksTypeOK'
  BY <1>3 DEF RotateCredential, HooksTypeOK, hookHistory
<1>4. ASSUME NEW h \in Handler, NEW r \in Receipt, Receive(h, r) PROVE HooksTypeOK'
  BY <1>4 DEF Receive, HooksTypeOK, hookHistory, HookStep
<1>5. ASSUME NEW h \in Handler, Verify(h) PROVE HooksTypeOK'
  BY <1>5 DEF Verify, Serves, HooksTypeOK, hookHistory, HookStep, Waiting
<1>6. ASSUME NEW h \in Handler, Lookup(h) PROVE HooksTypeOK'
  BY <1>6, ServedReceipt DEF Lookup, Turns, Serves, HooksTypeOK, HookStep
<1>7. ASSUME NEW h \in Handler, InsertEvent(h) PROVE HooksTypeOK'
  BY <1>7, ServedReceipt DEF InsertEvent, Turns, Serves, HooksTypeOK, HookStep, hookHistory
<1>8. ASSUME NEW h \in Handler, SetStatus(h) PROVE HooksTypeOK'
  BY <1>8, ServedReceipt DEF SetStatus, Turns, Serves, HooksTypeOK, HookStep
<1>9. ASSUME NEW h \in Handler, Suppress(h) PROVE HooksTypeOK'
  BY <1>9, ServedReceipt DEF Suppress, Turns, Serves, HooksTypeOK, HookStep, hookHistory
<1>10. ASSUME NEW h \in Handler, Answer(h) PROVE HooksTypeOK'
  BY <1>10, ServedReceipt DEF Answer, Serves, HooksTypeOK, HookStep, hookHistory, Waiting
<1>11. ASSUME NEW h \in Handler, RequestDies(h) PROVE HooksTypeOK'
  BY <1>11, ServedReceipt DEF RequestDies, Serves, HooksTypeOK, HookStep, Waiting
<1>12. ASSUME UNCHANGED hookVars PROVE HooksTypeOK'
  BY <1>12 DEF hookVars, HooksTypeOK
<1> QED
  BY <1>1, <1>2, <1>3, <1>4, <1>5, <1>6, <1>7, <1>8, <1>9, <1>10, <1>11, <1>12 DEF HooksNext, Handle

\* A step of the handler h that leaves the event store alone, and does not leave a
\* receipt half applied.
LEMMA QuietHandler ==
    ASSUME HooksInv, NEW h \in Handler, NEW served \in [at : HookStep, receipt : Receipt \cup {NoReceipt}],
           call' = [call EXCEPT ![h] = served],
           UNCHANGED <<events, suppressed, applied>>,
           kept \subseteq kept', cutShort \subseteq cutShort', dropped \subseteq dropped',
           \A r \in dropped' \ dropped : r = What(h) /\ call[h].at # "idle",
           served.at # "status",
           served.receipt \in Receipt => served.receipt \in kept',
           call[h].at \in {"status", "suppress"} => What(h) \in cutShort'
    PROVE  OneApplies' /\ AppliedOnce' /\ BounceSuppressed' /\ KeptForReplay'
<1>1. \A g \in Handler : call'[g] = IF g = h THEN served ELSE call[g]
  BY DEF HooksInv, HooksTypeOK
<1>2. \A g \in Handler, r \in Receipt : Applies(g, r)' => Applies(g, r) /\ g # h
  BY <1>1 DEF Applies
<1>3. OneApplies'
  <2>1. ASSUME NEW r \in Receipt \ events, Serving(r, {"status"})' PROVE FALSE
    <3>1. PICK g \in Handler : Applies(g, r)'
      BY <2>1 DEF Serving, Applies
    <3>2. Applies(g, r)
      BY <3>1, <1>2
    <3> QED BY <3>2 DEF HooksInv, OneApplies, Serving, Applies
  <2> QED BY <2>1, <1>2 DEF HooksInv, OneApplies
<1>4. AppliedOnce'
  BY DEF HooksInv, AppliedOnce
<1>5. BounceSuppressed'
  <2> SUFFICES ASSUME NEW r \in events, r[2] \in {"bounced", "complained"},
                      r[1] \notin suppressed, r \notin cutShort'
               PROVE  Serving(r, {"status", "suppress"})'
    BY DEF BounceSuppressed
  <2>1. Serving(r, {"status", "suppress"})
    BY DEF HooksInv, BounceSuppressed
  <2>2. PICK g \in Handler : call[g].receipt = r /\ call[g].at \in {"status", "suppress"}
    BY <2>1 DEF Serving
  <2>3. g # h
    BY <2>2 DEF What
  <2> QED BY <2>2, <2>3, <1>1 DEF Serving
<1>6. KeptForReplay'
  <2> SUFFICES ASSUME NEW r \in Receipt, Serving(r, HookStep)' \/ r \in events \cup dropped'
               PROVE  r \in kept'
    BY DEF KeptForReplay
  <2>1. CASE Serving(r, HookStep)'
    <3>1. PICK g \in Handler : call'[g].receipt = r /\ call'[g].at \in HookStep
      BY <2>1 DEF Serving
    <3>2. CASE g = h
      BY <3>1, <3>2, <1>1
    <3>3. CASE g # h
      <4>1. Serving(r, HookStep)
        BY <3>1, <3>3, <1>1 DEF Serving
      <4> QED BY <4>1 DEF HooksInv, KeptForReplay
    <3> QED BY <3>2, <3>3
  <2>2. CASE r \in events \cup dropped
    BY <2>2 DEF HooksInv, KeptForReplay
  <2>3. CASE r \in dropped' \ dropped
    <3>1. call[h].receipt = r /\ call[h].at \in HookStep
      BY <2>3 DEF What, HooksInv, HooksTypeOK
    <3>2. Serving(r, HookStep)
      BY <3>1 DEF Serving
    <3> QED BY <3>2 DEF HooksInv, KeptForReplay
  <2> QED BY <2>1, <2>2, <2>3
<1> QED BY <1>3, <1>4, <1>5, <1>6

\* A step that serves no receipt.
LEMMA QuietHooks ==
    ASSUME HooksInv, UNCHANGED <<call, events, suppressed, applied, kept, dropped, cutShort>>
    PROVE  OneApplies' /\ AppliedOnce' /\ BounceSuppressed' /\ KeptForReplay'
BY DEF HooksInv, OneApplies, AppliedOnce, BounceSuppressed, KeptForReplay, Applies, Serving

LEMMA InsertPreserves ==
    ASSUME HooksInv, NEW h \in Handler, InsertEvent(h)
    PROVE  OneApplies' /\ AppliedOnce' /\ BounceSuppressed' /\ KeptForReplay'
<1> USE WebhookConstants
<1> DEFINE receipt == What(h)
           there == IF receipt \in events THEN "finish" ELSE "status"
<1>1. receipt \in Receipt /\ call[h].at = "insert"
  BY ServedReceipt DEF HooksInv, InsertEvent, Serves
<1>2. \A g \in Handler : call'[g] = IF g = h THEN [call[h] EXCEPT !.at = there] ELSE call[g]
  BY DEF HooksInv, HooksTypeOK, InsertEvent, Turns
<1>3. call'[h].at = there /\ call'[h].receipt = receipt
  BY <1>2 DEF HooksInv, HooksTypeOK, What
<1>4. events' = events \cup {receipt} /\ UNCHANGED <<suppressed, applied, kept, dropped, cutShort>>
  BY DEF InsertEvent, hookHistory
<1>5. OneApplies'
  <2>1. ASSUME NEW r \in Receipt \ events' PROVE applied'[r] = 0 /\ ~Serving(r, {"status"})'
    <3>1. r # receipt /\ applied[r] = 0 /\ ~Serving(r, {"status"})
      BY <2>1, <1>4 DEF HooksInv, OneApplies
    <3>2. \A g \in Handler : ~(call'[g].receipt = r /\ call'[g].at = "status")
      BY <3>1, <1>2, <1>3 DEF Serving
    <3> QED BY <3>1, <3>2, <1>4 DEF Serving
  <2>2. \A g \in Handler, r \in Receipt :
            Applies(g, r)' => Applies(g, r) \/ (g = h /\ r = receipt /\ receipt \notin events)
    BY <1>2, <1>3 DEF Applies
  <2>3. receipt \notin events => applied[receipt] = 0 /\ \A g \in Handler : ~Applies(g, receipt)
    BY <1>1 DEF HooksInv, OneApplies, Serving, Applies
  <2> QED BY <2>1, <2>2, <2>3, <1>4 DEF HooksInv, OneApplies
<1>6. AppliedOnce'
  BY <1>4 DEF HooksInv, AppliedOnce
<1>7. BounceSuppressed'
  <2> SUFFICES ASSUME NEW r \in events', r[2] \in {"bounced", "complained"},
                      r[1] \notin suppressed, r \notin cutShort
               PROVE  Serving(r, {"status", "suppress"})'
    BY <1>4 DEF BounceSuppressed
  <2>1. CASE r \notin events
    BY <2>1, <1>3, <1>4 DEF Serving
  <2>2. CASE r \in events
    <3>1. PICK g \in Handler : call[g].receipt = r /\ call[g].at \in {"status", "suppress"}
      BY <2>2 DEF HooksInv, BounceSuppressed, Serving
    <3>2. call'[g] = call[g]
      BY <3>1, <1>1, <1>2
    <3> QED BY <3>1, <3>2 DEF Serving
  <2> QED BY <2>1, <2>2
<1>8. KeptForReplay'
  <2>1. Serving(receipt, HookStep)
    BY <1>1 DEF Serving, What, HookStep
  <2>2. \A r \in Receipt : Serving(r, HookStep)' => Serving(r, HookStep)
    BY <1>2, <1>3, <2>1 DEF Serving, What, HookStep
  <2> QED BY <1>4, <2>1, <2>2 DEF HooksInv, KeptForReplay
<1> QED BY <1>5, <1>6, <1>7, <1>8

LEMMA StatusPreserves ==
    ASSUME HooksInv, NEW h \in Handler, SetStatus(h)
    PROVE  OneApplies' /\ AppliedOnce' /\ BounceSuppressed' /\ KeptForReplay'
<1> USE WebhookConstants
<1> DEFINE receipt == What(h)
           there == IF receipt[2] \in {"delivered", "failed"} THEN "finish" ELSE "suppress"
<1>1. receipt \in Receipt /\ Applies(h, receipt)
  BY ServedReceipt DEF HooksInv, SetStatus, Serves, Applies, What
<1>2. \A g \in Handler : call'[g] = IF g = h THEN [call[h] EXCEPT !.at = there] ELSE call[g]
  BY DEF HooksInv, HooksTypeOK, SetStatus, Turns
<1>3. call'[h].at = there /\ call'[h].receipt = receipt
  BY <1>2 DEF HooksInv, HooksTypeOK, What
<1>4. \A r \in Receipt : applied'[r] = IF r = receipt THEN applied[r] + 1 ELSE applied[r]
  BY DEF HooksInv, HooksTypeOK, SetStatus
<1>5. UNCHANGED <<events, suppressed, kept, dropped, cutShort>>
  BY DEF SetStatus
<1>6. receipt \in events
  BY <1>1 DEF HooksInv, OneApplies, Serving, Applies
<1>7. \A g \in Handler, r \in Receipt : Applies(g, r)' => Applies(g, r) /\ g # h /\ r # receipt
  BY <1>1, <1>2, <1>3 DEF Applies, HooksInv, OneApplies
<1>8. OneApplies'
  <2>1. ASSUME NEW r \in Receipt \ events PROVE applied'[r] = 0 /\ ~Serving(r, {"status"})'
    <3>1. r # receipt /\ applied[r] = 0 /\ \A g \in Handler : ~Applies(g, r)
      BY <1>6 DEF HooksInv, OneApplies, Serving, Applies
    <3>2. \A g \in Handler : ~Applies(g, r)'
      BY <3>1, <1>7
    <3> QED BY <3>1, <3>2, <1>4 DEF Serving, Applies
  <2> QED BY <2>1, <1>4, <1>5, <1>7 DEF HooksInv, OneApplies
<1>9. AppliedOnce'
  <2>1. applied[receipt] = 0
    BY <1>1 DEF HooksInv, OneApplies
  <2> QED BY <2>1, <1>4 DEF HooksInv, AppliedOnce
<1>10. BounceSuppressed'
  <2> SUFFICES ASSUME NEW r \in events, r[2] \in {"bounced", "complained"},
                      r[1] \notin suppressed, r \notin cutShort
               PROVE  Serving(r, {"status", "suppress"})'
    BY <1>5 DEF BounceSuppressed
  <2>1. PICK g \in Handler : call[g].receipt = r /\ call[g].at \in {"status", "suppress"}
    BY DEF HooksInv, BounceSuppressed, Serving
  <2>2. CASE g = h
    <3>1. there = "suppress"
      BY <2>1, <2>2 DEF What
    <3> QED BY <3>1, <2>1, <2>2, <1>3 DEF Serving, What
  <2>3. CASE g # h
    BY <2>1, <2>3, <1>2 DEF Serving
  <2> QED BY <2>2, <2>3
<1>11. KeptForReplay'
  <2>1. Serving(receipt, HookStep)
    BY <1>1 DEF Serving, Applies, HookStep
  <2>2. \A r \in Receipt : Serving(r, HookStep)' => Serving(r, HookStep)
    BY <1>2, <1>3, <2>1 DEF Serving, HookStep
  <2> QED BY <1>5, <2>2 DEF HooksInv, KeptForReplay
<1> QED BY <1>8, <1>9, <1>10, <1>11

LEMMA SuppressPreserves ==
    ASSUME HooksInv, NEW h \in Handler, Suppress(h)
    PROVE  OneApplies' /\ AppliedOnce' /\ BounceSuppressed' /\ KeptForReplay'
<1> USE WebhookConstants
<1>1. What(h) \in Receipt /\ call[h].at = "suppress"
  BY ServedReceipt DEF HooksInv, Suppress, Serves
<1>2. \A g \in Handler : call'[g] = IF g = h THEN [call[h] EXCEPT !.at = "finish"] ELSE call[g]
  BY DEF HooksInv, HooksTypeOK, Suppress, Turns
<1>3. call'[h].at = "finish" /\ call'[h].receipt = What(h)
  BY <1>2 DEF HooksInv, HooksTypeOK, What
<1>4. suppressed' = suppressed \cup {What(h)[1]} /\ UNCHANGED <<events, applied, kept, dropped, cutShort>>
  BY DEF Suppress, hookHistory
<1>5. \A g \in Handler, r \in Receipt : Applies(g, r)' => Applies(g, r)
  BY <1>2, <1>3 DEF Applies
<1>6. OneApplies' /\ AppliedOnce'
  <2>1. ASSUME NEW r \in Receipt \ events PROVE ~Serving(r, {"status"})'
    BY <2>1, <1>5 DEF HooksInv, OneApplies, Serving, Applies
  <2> QED BY <2>1, <1>4, <1>5 DEF HooksInv, OneApplies, AppliedOnce
<1>7. BounceSuppressed'
  <2> SUFFICES ASSUME NEW r \in events, r[2] \in {"bounced", "complained"},
                      r[1] \notin suppressed', r \notin cutShort
               PROVE  Serving(r, {"status", "suppress"})'
    BY <1>4 DEF BounceSuppressed
  <2>1. PICK g \in Handler : call[g].receipt = r /\ call[g].at \in {"status", "suppress"}
    BY <1>4 DEF HooksInv, BounceSuppressed, Serving
  <2>2. g # h
    BY <2>1, <1>4 DEF What
  <2> QED BY <2>1, <2>2, <1>2 DEF Serving
<1>8. KeptForReplay'
  <2>1. Serving(What(h), HookStep)
    BY <1>1 DEF Serving, What, HookStep
  <2>2. \A r \in Receipt : Serving(r, HookStep)' => Serving(r, HookStep)
    BY <1>2, <1>3, <2>1 DEF Serving, HookStep
  <2> QED BY <1>4, <2>2 DEF HooksInv, KeptForReplay
<1> QED BY <1>6, <1>7, <1>8

LEMMA HooksStep == HooksInv /\ [HooksNext]_hookVars => HooksInv'
<1> SUFFICES ASSUME HooksInv, [HooksNext]_hookVars
             PROVE  OneApplies' /\ AppliedOnce' /\ BounceSuppressed' /\ KeptForReplay'
  BY HooksTypeStep DEF HooksInv
<1> USE WebhookConstants
<1>0. /\ \A g \in Handler : call[g] \in [at : HookStep, receipt : Receipt \cup {NoReceipt}]
      /\ Waiting \in [at : HookStep, receipt : Receipt \cup {NoReceipt}]
      /\ Waiting.at = "idle" /\ Waiting.receipt = NoReceipt
  BY DEF HooksInv, HooksTypeOK, Waiting, HookStep
<1>1. ASSUME NEW l \in Letter, RecordSend(l) \/ (\E fate \in Fate : Accept(l, fate)) \/ RotateCredential
      PROVE  UNCHANGED <<call, events, suppressed, applied, kept, dropped, cutShort>>
  BY <1>1 DEF RecordSend, Accept, RotateCredential, hookHistory
<1>2. ASSUME NEW h \in Handler, NEW r \in Receipt, Receive(h, r)
      PROVE  OneApplies' /\ AppliedOnce' /\ BounceSuppressed' /\ KeptForReplay'
  <2>1. [at |-> "verify", receipt |-> r] \in [at : HookStep, receipt : Receipt \cup {NoReceipt}]
    BY DEF HookStep
  <2> QED BY <1>2, <2>1, QuietHandler DEF Receive, Serves, hookHistory
<1>3. ASSUME NEW h \in Handler, Verify(h)
      PROVE  OneApplies' /\ AppliedOnce' /\ BounceSuppressed' /\ KeptForReplay'
  <2> DEFINE served == IF credential THEN [call[h] EXCEPT !.at = "lookup"] ELSE Waiting
  <2>1. served \in [at : HookStep, receipt : Receipt \cup {NoReceipt}] /\ served.at # "status"
    BY <1>0 DEF HookStep
  <2>2. served.receipt \in Receipt => served.receipt \in kept
    <3>1. served.receipt \in Receipt => served.receipt = call[h].receipt /\ call[h].at \in HookStep
      BY <1>0
    <3> QED BY <3>1 DEF HooksInv, KeptForReplay, Serving
  <2>3. call' = [call EXCEPT ![h] = served]
    BY <1>3 DEF Verify
  <2> QED BY <1>3, <2>1, <2>2, <2>3, QuietHandler DEF Verify, Serves, hookHistory
<1>4. ASSUME NEW h \in Handler, Lookup(h)
      PROVE  OneApplies' /\ AppliedOnce' /\ BounceSuppressed' /\ KeptForReplay'
  <2>1. PICK there \in {"insert", "finish"} : call' = [call EXCEPT ![h].at = there]
    BY <1>4 DEF Lookup, Turns
  <2> DEFINE served == [call[h] EXCEPT !.at = there]
  <2>2. /\ served \in [at : HookStep, receipt : Receipt \cup {NoReceipt}]
        /\ served.at # "status" /\ served.receipt = call[h].receipt
    BY <1>0 DEF HookStep
  <2>3. call' = [call EXCEPT ![h] = served]
    BY <2>1
  <2>4. served.receipt \in Receipt => served.receipt \in kept
    BY <1>0, <2>2 DEF HooksInv, KeptForReplay, Serving
  <2>5. /\ dropped \subseteq dropped' /\ \A r \in dropped' \ dropped : r = What(h)
        /\ call[h].at = "lookup" /\ UNCHANGED <<events, suppressed, applied, kept, cutShort>>
    BY <1>4 DEF Lookup, Serves
  <2> HIDE DEF served
  <2> QED BY <2>2, <2>3, <2>4, <2>5, QuietHandler
<1>5. ASSUME NEW h \in Handler, Answer(h)
      PROVE  OneApplies' /\ AppliedOnce' /\ BounceSuppressed' /\ KeptForReplay'
  BY <1>5, <1>0, QuietHandler DEF Answer, Serves, hookHistory
<1>6. ASSUME NEW h \in Handler, RequestDies(h)
      PROVE  OneApplies' /\ AppliedOnce' /\ BounceSuppressed' /\ KeptForReplay'
  <2>1. cutShort \subseteq cutShort' /\ (call[h].at \in {"status", "suppress"} => What(h) \in cutShort')
    BY <1>6 DEF RequestDies
  <2> QED BY <1>6, <1>0, <2>1, QuietHandler DEF RequestDies
<1>7. ASSUME UNCHANGED hookVars
      PROVE  OneApplies' /\ AppliedOnce' /\ BounceSuppressed' /\ KeptForReplay'
  BY <1>7, QuietHooks DEF hookVars
<1>8. ASSUME HooksNext PROVE OneApplies' /\ AppliedOnce' /\ BounceSuppressed' /\ KeptForReplay'
  <2>1. CASE RotateCredential
    BY <2>1, QuietHooks DEF RotateCredential, hookHistory
  <2>2. CASE \E l \in Letter : RecordSend(l) \/ \E fate \in Fate : Accept(l, fate)
    BY <2>2, <1>1, QuietHooks
  <2>3. CASE \E h \in Handler : Handle(h) \/ RequestDies(h) \/ \E r \in Receipt : Receive(h, r)
    BY <2>3, <1>2, <1>3, <1>4, <1>5, <1>6, InsertPreserves, StatusPreserves, SuppressPreserves DEF Handle
  <2> QED BY <1>8, <2>1, <2>2, <2>3 DEF HooksNext
<1> QED BY <1>7, <1>8

(***************************************************************************)
(* For any letters, handlers and mishaps: a receipt is applied once        *)
(* however often it is delivered, who bounced is suppressed unless a       *)
(* request died in between, and what was refused or dropped is kept        *)
(* (webhooks.ts, applyProviderEvent).                                      *)
(***************************************************************************)
THEOREM EventsAppliedOnce == HooksSpec => [](AppliedOnce /\ BounceSuppressed /\ KeptForReplay)
<1>1. HooksInv => AppliedOnce /\ BounceSuppressed /\ KeptForReplay
  BY DEF HooksInv
<1> QED BY HooksStart, HooksStep, <1>1, PTL DEF HooksSpec

(***************************************************************************)
(* The same of the composition that TLC runs.                              *)
(***************************************************************************)
THEOREM EventStoreKeepsItsPromise == UpkeepSpec => []EventStoreHolds
<1> DEFINE Inv == part = "webhooks" => HooksInv
<1>1. UpkeepInit => Inv
  BY HooksStart DEF UpkeepInit
<1>2. Inv /\ [UpkeepNext]_upkeepVars => Inv'
  BY HooksStep DEF UpkeepNext, upkeepVars
<1>3. Inv => EventStoreHolds
  BY DEF EventStoreHolds, HooksInv
<1> QED BY <1>1, <1>2, <1>3, PTL DEF UpkeepSpec

-----------------------------------------------------------------------------
(* The lock of a job                                                       *)

(***************************************************************************)
(* A body runs only under the lock, unless a session was lost: what makes  *)
(* OneBody inductive.                                                      *)
(***************************************************************************)
LockInv ==
    /\ step \in [Rebuilder -> Step]
    /\ unlocked \/ \A r \in Run : InBody(r) => lock = r

LEMMA LockInit == SchedulerInit => LockInv
BY DEF SchedulerInit, LockInv, InBody, Step, Rebuilder

\* A run that moves and is not in its body before or after changes nothing of
\* the others; one that enters its body has just taken the lock.
LEMMA MovePreserves ==
    ASSUME LockInv, NEW r \in Rebuilder, NEW there \in Step,
           To(r, there), lock' = lock, unlocked' = unlocked,
           there \in {"start", "delete", "insert", "ok", "failed"} => InBody(r) \/ r \notin Run
    PROVE  LockInv'
<1>1. step' \in [Rebuilder -> Step]
  BY DEF LockInv, To
<1>2. ASSUME NEW q \in Run, ~unlocked, InBody(q)'
      PROVE  lock' = q
  <2>1. CASE q = r
    <3>1. step'[r] = there
      BY DEF LockInv, To
    <3>2. InBody(r)
      BY <3>1, <2>1, <1>2 DEF InBody
    <3> QED BY <3>2, <2>1, <1>2 DEF LockInv
  <2>2. CASE q # r
    <3>1. step'[q] = step[q]
      BY <2>2 DEF LockInv, To, Rebuilder
    <3> QED BY <3>1, <1>2 DEF LockInv, InBody
  <2> QED BY <2>1, <2>2
<1> QED BY <1>1, <1>2 DEF LockInv

LEMMA LockStep == LockInv /\ [SchedulerNext]_schedulerVars => LockInv'
<1> SUFFICES ASSUME LockInv, [SchedulerNext]_schedulerVars PROVE LockInv'
  OBVIOUS
<1> USE SchedulerConstants
<1>1. ASSUME NEW r \in Run, Tick(r) PROVE LockInv'
  BY <1>1, MovePreserves DEF Tick, Step, Rebuilder, schedulerHistory
<1>2. ASSUME NEW r \in Run, Connect(r) PROVE LockInv'
  BY <1>2, MovePreserves DEF Connect, Step, Rebuilder
<1>3. ASSUME NEW r \in Run, TryLock(r) PROVE LockInv'
  <2>1. step' \in [Rebuilder -> Step]
    BY <1>3 DEF LockInv, TryLock, To, Step
  <2>2. ASSUME NEW q \in Run, ~unlocked, InBody(q)'
        PROVE  lock' = q
    <3>1. CASE q = r
      <4>1. lock = NoRun
        BY <1>3, <2>2, <3>1 DEF LockInv, TryLock, To, InBody, Rebuilder
      <4> QED BY <4>1, <3>1, <1>3 DEF TryLock
    <3>2. CASE q # r
      <4>1. InBody(q)
        BY <1>3, <2>2, <3>2 DEF LockInv, TryLock, To, InBody, Rebuilder
      <4>2. lock = q /\ lock # NoRun
        BY <4>1, <2>2 DEF LockInv, Rebuilder
      <4> QED BY <4>2, <1>3 DEF TryLock
    <3> QED BY <3>1, <3>2
  <2>3. unlocked' = unlocked
    BY <1>3 DEF TryLock, schedulerHistory
  <2> QED BY <2>1, <2>2, <2>3 DEF LockInv
<1>4. ASSUME NEW r \in Run, Unlock(r) PROVE LockInv'
  <2>1. step' \in [Rebuilder -> Step]
    BY <1>4 DEF LockInv, Unlock, To, Step
  <2>2. ASSUME NEW q \in Run, ~unlocked, InBody(q)'
        PROVE  lock' = q
    <3>1. q # r /\ InBody(q)
      BY <1>4, <2>2 DEF LockInv, Unlock, To, InBody, Rebuilder
    <3>2. lock = q
      BY <3>1, <2>2 DEF LockInv
    <3> QED BY <3>1, <3>2, <1>4 DEF Unlock
  <2>3. unlocked' = unlocked
    BY <1>4 DEF Unlock, schedulerHistory
  <2> QED BY <2>1, <2>2, <2>3 DEF LockInv
<1>5. ASSUME NEW r \in Rebuilder, InsertRun(r) PROVE LockInv'
  BY <1>5, MovePreserves DEF InsertRun, From, InBody, Step, schedulerHistory
<1>6. ASSUME NEW r \in Rebuilder, DeleteDays(r) PROVE LockInv'
  BY <1>6, MovePreserves DEF DeleteDays, From, InBody, Step
<1>7. ASSUME NEW r \in Rebuilder, InsertDays(r) PROVE LockInv'
  BY <1>7, MovePreserves DEF InsertDays, From, InBody, Step
<1>8. ASSUME NEW r \in Rebuilder, Record(r) PROVE LockInv'
  BY <1>8, MovePreserves DEF Record, Step, schedulerHistory
<1>9. ASSUME NEW r \in Rebuilder, BodyFails(r) PROVE LockInv'
  BY <1>9, MovePreserves DEF BodyFails, InBody, Step, schedulerHistory
<1>10. ASSUME NEW w, Halt(w), unlocked' = unlocked PROVE LockInv'
  <2>1. step' \in [Rebuilder -> Step]
    BY <1>10 DEF LockInv, Halt, Step
  <2>2. ASSUME NEW q \in Run, ~unlocked, InBody(q)'
        PROVE  lock' = q
    <3>1. Home[q] # w /\ InBody(q)
      BY <1>10, <2>2 DEF Halt, InBody, Rebuilder
    <3>2. lock = q
      BY <3>1, <2>2 DEF LockInv
    <3> QED BY <3>1, <3>2, <1>10 DEF Halt
  <2> QED BY <2>1, <2>2, <1>10 DEF LockInv
<1>11. ASSUME NEW r \in Run, RejectionEscapes(r) PROVE LockInv'
  BY <1>11, <1>10 DEF RejectionEscapes, schedulerHistory
<1>12. ASSUME NEW w \in Worker, WorkerDies(w) PROVE LockInv'
  BY <1>12, <1>10 DEF WorkerDies, schedulerHistory
<1>13. ASSUME LoseSession PROVE LockInv'
  BY <1>13 DEF LoseSession, LockInv
<1>14. ASSUME RunScript PROVE LockInv'
  BY <1>14, MovePreserves DEF RunScript, Step, Rebuilder, schedulerHistory
<1>15. ASSUME UNCHANGED <<step, lock, unlocked>> PROVE LockInv'
  BY <1>15 DEF LockInv, InBody
<1>16. ASSUME NEW w \in Worker, WorkerStarts(w) PROVE LockInv'
  BY <1>16, <1>15 DEF WorkerStarts, schedulerHistory
<1>17. ASSUME NEW d \in Days, Event(d) PROVE LockInv'
  BY <1>17, <1>15 DEF Event, schedulerHistory
<1>18. ASSUME DayEnds PROVE LockInv'
  BY <1>18, <1>15 DEF DayEnds, schedulerHistory
<1>19. ASSUME UNCHANGED schedulerVars PROVE LockInv'
  BY <1>19, <1>15 DEF schedulerVars
<1> QED
  BY <1>1, <1>2, <1>3, <1>4, <1>5, <1>6, <1>7, <1>8, <1>9, <1>11, <1>12, <1>13, <1>14, <1>16,
     <1>17, <1>18, <1>19 DEF SchedulerNext, RunJob, Rebuild

(***************************************************************************)
(* Over any number of processes and runs, whatever dies, throws or starts  *)
(* again, two bodies of the job overlap only after a session was lost      *)
(* (job-runner.ts: the lock is taken before and released after the body).  *)
(***************************************************************************)
THEOREM BodiesExclude == SchedulerSpec => []OneBody
<1>1. LockInv => OneBody
  BY DEF LockInv, OneBody
<1> QED BY LockInit, LockStep, <1>1, PTL DEF SchedulerSpec

-----------------------------------------------------------------------------
(* The statistics a job rebuilds                                           *)

(***************************************************************************)
(* Counts are natural numbers: with it, a day that had no row when it was  *)
(* deleted still says what its last rebuild counted.                       *)
(***************************************************************************)
StatsInv ==
    /\ happened \in [Days -> Nat] /\ stats \in [Days -> Nat]
    /\ StatsAreTheLastRebuild

LEMMA StatsInit == SchedulerInit => StatsInv
BY DEF SchedulerInit, StatsInv, StatsAreTheLastRebuild

LEMMA StatsStep == StatsInv /\ [SchedulerNext]_schedulerVars => StatsInv'
<1> SUFFICES ASSUME StatsInv, [SchedulerNext]_schedulerVars PROVE StatsInv'
  OBVIOUS
<1>1. ASSUME UNCHANGED <<happened, stats, torn, counted>> PROVE StatsInv'
  BY <1>1 DEF StatsInv, StatsAreTheLastRebuild
<1>2. ASSUME NEW r \in Rebuilder, DeleteDays(r) PROVE StatsInv'
  <2> DEFINE gone == IF r = Script THEN Days ELSE DaysOf(r)
  <2>1. /\ stats' = [d \in Days |-> IF d \in gone THEN 0 ELSE stats[d]]
        /\ torn' = torn \cup {d \in gone : stats[d] > 0}
        /\ UNCHANGED <<happened, counted>>
    BY <1>2 DEF DeleteDays
  <2>2. ASSUME NEW d \in Days, d \notin torn' PROVE stats'[d] = counted'[d]
    <3>1. d \notin torn /\ stats[d] = counted[d]
      BY <2>1, <2>2 DEF StatsInv, StatsAreTheLastRebuild
    <3>2. CASE d \in gone
      <4>1. ~(stats[d] > 0) /\ stats[d] \in Nat
        BY <2>1, <2>2, <3>2 DEF StatsInv
      <4> QED BY <4>1, <3>1, <3>2, <2>1
    <3>3. CASE d \notin gone
      BY <3>1, <3>3, <2>1
    <3> QED BY <3>2, <3>3
  <2>3. stats' \in [Days -> Nat]
    BY <2>1 DEF StatsInv
  <2> QED BY <2>1, <2>2, <2>3 DEF StatsInv, StatsAreTheLastRebuild
<1>3. ASSUME NEW r \in Rebuilder, InsertDays(r) PROVE StatsInv'
  <2>1. CASE UNCHANGED <<stats, torn, counted>>
    BY <2>1, <1>3, <1>1 DEF InsertDays
  <2>2. CASE /\ stats' = [d \in Days |-> IF d \in range[r] THEN happened[d] ELSE stats[d]]
             /\ torn' = torn \ range[r]
             /\ counted' = [d \in Days |-> IF d \in range[r] THEN happened[d] ELSE counted[d]]
    <3>1. \A d \in Days : d \notin torn' => stats'[d] = counted'[d]
      BY <2>2 DEF StatsInv, StatsAreTheLastRebuild
    <3>2. happened' = happened
      BY <1>3 DEF InsertDays
    <3> QED BY <3>1, <3>2, <2>2 DEF StatsInv, StatsAreTheLastRebuild
  <2> QED BY <1>3, <2>1, <2>2 DEF InsertDays
<1>4. ASSUME NEW d \in Days, Event(d) PROVE StatsInv'
  BY <1>4 DEF Event, StatsInv, StatsAreTheLastRebuild, schedulerHistory
<1>5. ASSUME NEW r \in Run, Tick(r) \/ Connect(r) \/ TryLock(r) \/ Unlock(r) \/ RejectionEscapes(r)
      PROVE  StatsInv'
  BY <1>5, <1>1 DEF Tick, Connect, TryLock, Unlock, RejectionEscapes, schedulerHistory
<1>6. ASSUME NEW r \in Rebuilder, InsertRun(r) \/ Record(r) \/ BodyFails(r) PROVE StatsInv'
  BY <1>6, <1>1 DEF InsertRun, Record, BodyFails, schedulerHistory
<1>7. ASSUME NEW w \in Worker, WorkerDies(w) \/ WorkerStarts(w) PROVE StatsInv'
  BY <1>7, <1>1 DEF WorkerDies, WorkerStarts, schedulerHistory
<1>8. ASSUME LoseSession \/ RunScript \/ DayEnds \/ UNCHANGED schedulerVars PROVE StatsInv'
  BY <1>8, <1>1 DEF LoseSession, RunScript, DayEnds, schedulerVars, schedulerHistory
<1> QED
  BY <1>2, <1>3, <1>4, <1>5, <1>6, <1>7, <1>8 DEF SchedulerNext, RunJob, Rebuild

(***************************************************************************)
(* Whatever overlaps, crashes or runs without the lock: the statistics of  *)
(* a day are those its last rebuild inserted, except for days deleted and  *)
(* not yet inserted again (rollups.ts: DELETE, then INSERT ... SELECT).    *)
(***************************************************************************)
THEOREM StatsFollowRebuilds == SchedulerSpec => []StatsAreTheLastRebuild
<1>1. StatsInv => StatsAreTheLastRebuild
  BY DEF StatsInv
<1> QED BY StatsInit, StatsStep, <1>1, PTL DEF SchedulerSpec

-----------------------------------------------------------------------------
(* The types of the scheduler, and the pool                                *)

\* A number of the counts and the places of runs and days.
JobTypes ==
    /\ date \in Days /\ happened \in [Days -> 0..MaxEvents] /\ stats \in [Days -> 0..MaxEvents]
    /\ step \in [Rebuilder -> Step] /\ range \in [Rebuilder -> SUBSET Days]
    /\ up \subseteq Worker /\ \A r \in Run : step[r] # "idle" => Home[r] \in up
    /\ \A d \in Days : stats[d] <= happened[d]

(***************************************************************************)
(* What the runs of a process hold of its pool; they are finitely many     *)
(* because the pool is, however many runs there may be.  Whose session has *)
(* the lock holds its connection.                                          *)
(***************************************************************************)
PoolInv ==
    /\ lock \in Run \cup {NoRun} /\ (lock # NoRun => Holds(lock))
    /\ \A w \in Worker : IsFiniteSet(Held(w)) /\ Cardinality(Held(w)) <= PoolSize

LEMMA JobsStart == SchedulerInit => JobTypes /\ PoolInv
<1> SUFFICES ASSUME SchedulerInit PROVE JobTypes /\ PoolInv
  OBVIOUS
<1> USE SchedulerConstants
<1>1. JobTypes
  BY DEF SchedulerInit, JobTypes, Step, Days, Rebuilder
<1>2. \A w \in Worker : Held(w) = {}
  BY DEF SchedulerInit, Held, Holds, Rebuilder
<1>3. \A w \in Worker : IsFiniteSet(Held(w)) /\ Cardinality(Held(w)) <= PoolSize
  BY <1>2, FS_EmptySet
<1> QED BY <1>1, <1>3 DEF PoolInv, SchedulerInit

LEMMA JobTypesStep == JobTypes /\ [SchedulerNext]_schedulerVars => JobTypes'
<1> SUFFICES ASSUME JobTypes, [SchedulerNext]_schedulerVars PROVE JobTypes'
  OBVIOUS
<1> USE SchedulerConstants
<1>0. /\ \A r \in Rebuilder : DaysOf(r) \subseteq Days
      /\ Script \in Rebuilder /\ Run \subseteq Rebuilder /\ 0 \in 0 .. MaxEvents
  BY DEF DaysOf, Rebuilder
<1>1. ASSUME NEW r \in Rebuilder, NEW there \in Step, To(r, there),
             r \in Run => Home[r] \in up,
             UNCHANGED <<date, happened, stats, up>>, range' \in [Rebuilder -> SUBSET Days]
      PROVE  JobTypes'
  BY <1>1 DEF To, JobTypes, Rebuilder
<1>2. ASSUME NEW r \in Run, Tick(r) \/ Connect(r) \/ TryLock(r) \/ Unlock(r) PROVE JobTypes'
  <2>1. PICK there \in Step : To(r, there)
    BY <1>2 DEF Tick, Connect, TryLock, Unlock, Step
  <2>2. Home[r] \in up
    BY <1>2 DEF Tick, Connect, TryLock, Unlock, From, JobTypes
  <2>3. UNCHANGED <<date, happened, stats, up, range>>
    BY <1>2 DEF Tick, Connect, TryLock, Unlock
  <2> QED BY <2>1, <2>2, <2>3, <1>0, <1>1 DEF JobTypes
<1>3. ASSUME NEW r \in Rebuilder, InsertRun(r) \/ Record(r) \/ BodyFails(r) PROVE JobTypes'
  <2>1. PICK there \in Step : To(r, there)
    BY <1>3 DEF InsertRun, Record, BodyFails, Step
  <2>2. r \in Run => Home[r] \in up
    BY <1>3 DEF InsertRun, Record, BodyFails, JobTypes
  <2>3. UNCHANGED <<date, happened, stats, up>> /\ range' \in [Rebuilder -> SUBSET Days]
    BY <1>3 DEF InsertRun, Record, BodyFails, JobTypes
  <2> QED BY <2>1, <2>2, <2>3, <1>1
<1>4. ASSUME NEW r \in Rebuilder, DeleteDays(r) PROVE JobTypes'
  BY <1>4, <1>0 DEF DeleteDays, To, From, JobTypes, Rebuilder, Step
<1>5. ASSUME NEW r \in Rebuilder, InsertDays(r) PROVE JobTypes'
  <2>1. CASE UNCHANGED <<stats, torn, counted>> /\ To(r, "failed")
    BY <2>1, <1>5 DEF InsertDays, To, From, JobTypes, Rebuilder, Step
  <2>2. CASE /\ stats' = [d \in Days |-> IF d \in range[r] THEN happened[d] ELSE stats[d]]
             /\ To(r, "ok")
    BY <2>2, <1>5 DEF InsertDays, To, From, JobTypes, Rebuilder, Step
  <2> QED BY <1>5, <2>1, <2>2 DEF InsertDays
<1>6. ASSUME NEW w, Halt(w), UNCHANGED <<date, happened, stats>> PROVE JobTypes'
  BY <1>6 DEF Halt, JobTypes, Rebuilder, Step
<1>7. ASSUME NEW r \in Run, RejectionEscapes(r) PROVE JobTypes'
  BY <1>7, <1>6 DEF RejectionEscapes
<1>8. ASSUME NEW w \in Worker, WorkerDies(w) PROVE JobTypes'
  BY <1>8, <1>6 DEF WorkerDies
<1>9. ASSUME NEW w \in Worker, WorkerStarts(w) PROVE JobTypes'
  BY <1>9 DEF WorkerStarts, JobTypes
<1>10. ASSUME LoseSession \/ UNCHANGED schedulerVars PROVE JobTypes'
  BY <1>10 DEF LoseSession, schedulerVars, JobTypes
<1>11. ASSUME RunScript PROVE JobTypes'
  BY <1>11, <1>0, <1>1 DEF RunScript, JobTypes, Step
<1>12. ASSUME DayEnds PROVE JobTypes'
  BY <1>12 DEF DayEnds, JobTypes, Days
<1>13. ASSUME NEW d \in Days, Event(d) PROVE JobTypes'
  <2>1. /\ happened' = [happened EXCEPT ![d] = happened[d] + 1] /\ happened[d] \in 0 .. MaxEvents
        /\ happened[d] < MaxEvents /\ UNCHANGED <<date, stats, step, range, up>>
    BY <1>13 DEF Event, JobTypes
  <2>2. happened' \in [Days -> 0..MaxEvents]
    BY <2>1 DEF JobTypes
  <2>3. \A e \in Days : stats'[e] <= happened'[e]
    BY <2>1 DEF JobTypes
  <2> QED BY <2>1, <2>2, <2>3 DEF JobTypes
<1> QED
  BY <1>2, <1>3, <1>4, <1>5, <1>7, <1>8, <1>9, <1>10, <1>11, <1>12, <1>13
     DEF SchedulerNext, RunJob, Rebuild

\* Giving connections back, and keeping them.
LEMMA PoolShrinks ==
    ASSUME PoolInv, NEW w \in Worker, Held(w)' \subseteq Held(w)
    PROVE  IsFiniteSet(Held(w)') /\ Cardinality(Held(w)') <= PoolSize
<1>1. IsFiniteSet(Held(w)) /\ Cardinality(Held(w)) <= PoolSize
  BY DEF PoolInv
<1>2. IsFiniteSet(Held(w)') /\ Cardinality(Held(w)') <= Cardinality(Held(w))
  BY <1>1, FS_Subset
<1>3. Cardinality(Held(w)') \in Nat /\ Cardinality(Held(w)) \in Nat /\ PoolSize \in Nat
  BY <1>1, <1>2, FS_CardinalityType, SchedulerConstants
<1> QED BY <1>1, <1>2, <1>3

\* A run that moves and takes no connection.
LEMMA MoveKeepsPool ==
    ASSUME PoolInv, JobTypes, NEW r \in Rebuilder, NEW there \in Step, To(r, there),
           r \in Run /\ there \notin {"idle", "connect"} => Holds(r),
           lock' = lock \/ (lock = r /\ lock' = NoRun),
           there \in {"idle", "connect"} => lock' # r
    PROVE  PoolInv'
<1>1. \A q \in Rebuilder : step'[q] = IF q = r THEN there ELSE step[q]
  BY DEF JobTypes, To
<1>2. ASSUME NEW w \in Worker PROVE Held(w)' \subseteq Held(w)
  BY <1>1 DEF Held, Holds, Rebuilder
<1>3. lock' \in Run \cup {NoRun} /\ (lock' # NoRun => Holds(lock)')
  <2>1. CASE lock' # NoRun
    <3>1. lock' = lock /\ Holds(lock) /\ lock \in Run
      BY <2>1 DEF PoolInv
    <3> QED BY <3>1, <1>1 DEF Holds, Rebuilder
  <2> QED BY <2>1 DEF PoolInv
<1> QED BY <1>2, <1>3, PoolShrinks DEF PoolInv

LEMMA PoolStep == JobTypes /\ PoolInv /\ [SchedulerNext]_schedulerVars => PoolInv'
<1> SUFFICES ASSUME JobTypes, PoolInv, [SchedulerNext]_schedulerVars PROVE PoolInv'
  OBVIOUS
<1> USE SchedulerConstants
<1>0. Run \subseteq Rebuilder /\ Script \in Rebuilder /\ Script \notin Run /\ NoRun \notin Run
  BY DEF Rebuilder
<1>1. ASSUME NEW r \in Run, Tick(r) PROVE PoolInv'
  BY <1>1, <1>0, MoveKeepsPool DEF Tick, From, PoolInv, Holds, Step
<1>2. ASSUME NEW r \in Run, Connect(r) PROVE PoolInv'
  <2>1. \A q \in Run : step'[q] = IF q = r THEN "lock" ELSE step[q]
    BY <1>2, <1>0 DEF JobTypes, To, Connect
  <2>2. lock' = lock
    BY <1>2 DEF Connect
  <2>3. ASSUME NEW w \in Worker, w # Home[r] PROVE Held(w)' \subseteq Held(w)
    BY <2>1, <2>3 DEF Held, Holds
  <2>4. Held(Home[r])' = Held(Home[r]) \cup {r} /\ r \notin Held(Home[r])
    BY <2>1, <1>2 DEF Held, Holds, Connect, From
  <2>5. Home[r] \in Worker /\ Cardinality(Held(Home[r])) < PoolSize
    BY <1>2 DEF Connect, Spare
  <2>6. IsFiniteSet(Held(Home[r])) /\ Cardinality(Held(Home[r])) \in Nat
    BY <2>5, FS_CardinalityType DEF PoolInv
  <2>7. /\ IsFiniteSet(Held(Home[r])')
        /\ Cardinality(Held(Home[r])') = Cardinality(Held(Home[r])) + 1
    BY <2>4, <2>6, FS_AddElement
  <2>8. Cardinality(Held(Home[r])') <= PoolSize
    BY <2>5, <2>6, <2>7
  <2>9. \A w \in Worker : IsFiniteSet(Held(w)') /\ Cardinality(Held(w)') <= PoolSize
    BY <2>3, <2>7, <2>8, PoolShrinks
  <2>10. lock' # NoRun => Holds(lock)'
    BY <2>1, <2>2 DEF PoolInv, Holds
  <2> QED BY <2>2, <2>9, <2>10 DEF PoolInv
<1>3. ASSUME NEW r \in Run, TryLock(r) PROVE PoolInv'
  <2>1. \A q \in Run : step'[q] = IF q = r THEN (IF lock = NoRun THEN "start" ELSE "skip") ELSE step[q]
    BY <1>3, <1>0 DEF JobTypes, To, TryLock
  <2>2. \A q \in Run : Holds(q)' <=> Holds(q)
    BY <2>1, <1>3 DEF Holds, TryLock, From
  <2>3. Holds(r)
    BY <1>3 DEF TryLock, From, Holds
  <2>4. lock' \in Run \cup {NoRun} /\ (lock' # NoRun => Holds(lock)')
    BY <2>2, <2>3, <1>3 DEF TryLock, PoolInv, Holds
  <2>5. ASSUME NEW w \in Worker PROVE Held(w)' \subseteq Held(w)
    BY <2>2 DEF Held
  <2> QED BY <2>4, <2>5, PoolShrinks DEF PoolInv
<1>4. ASSUME NEW r \in Run, Unlock(r) PROVE PoolInv'
  BY <1>4, <1>0, MoveKeepsPool DEF Unlock, From, PoolInv, Holds, Step
<1>5. ASSUME NEW r \in Rebuilder, InsertRun(r) PROVE PoolInv'
  BY <1>5, MoveKeepsPool DEF InsertRun, From, Holds, Step
<1>6. ASSUME NEW r \in Rebuilder, DeleteDays(r) PROVE PoolInv'
  BY <1>6, MoveKeepsPool DEF DeleteDays, From, Holds, Step
<1>7. ASSUME NEW r \in Rebuilder, InsertDays(r) PROVE PoolInv'
  BY <1>7, MoveKeepsPool DEF InsertDays, From, Holds, Step
<1>8. ASSUME NEW r \in Rebuilder, Record(r) PROVE PoolInv'
  BY <1>8, <1>0, MoveKeepsPool DEF Record, Holds, Step, PoolInv
<1>9. ASSUME NEW r \in Rebuilder, BodyFails(r) PROVE PoolInv'
  BY <1>9, <1>0, MoveKeepsPool DEF BodyFails, Holds, Step, PoolInv, schedulerHistory
<1>10. ASSUME NEW w, Halt(w) PROVE PoolInv'
  <2>1. \A q \in Run : step'[q] = IF Home[q] = w THEN "idle" ELSE step[q]
    BY <1>10, <1>0 DEF Halt
  <2>2. ASSUME NEW v \in Worker PROVE Held(v)' \subseteq Held(v)
    BY <2>1 DEF Held, Holds
  <2>3. lock' \in Run \cup {NoRun} /\ (lock' # NoRun => Holds(lock)')
    BY <2>1, <1>10 DEF Halt, PoolInv, Holds
  <2> QED BY <2>2, <2>3, PoolShrinks DEF PoolInv
<1>11. ASSUME NEW r \in Run, RejectionEscapes(r) PROVE PoolInv'
  BY <1>11, <1>10 DEF RejectionEscapes
<1>12. ASSUME NEW w \in Worker, WorkerDies(w) PROVE PoolInv'
  BY <1>12, <1>10 DEF WorkerDies
<1>13. ASSUME LoseSession PROVE PoolInv'
  <2>1. \A w \in Worker : Held(w)' \subseteq Held(w)
    BY <1>13 DEF LoseSession, Held, Holds
  <2> QED BY <2>1, <1>13, PoolShrinks DEF LoseSession, PoolInv
<1>14. ASSUME RunScript PROVE PoolInv'
  BY <1>14, <1>0, MoveKeepsPool DEF RunScript, PoolInv, Step
<1>15. ASSUME UNCHANGED <<step, lock>> PROVE PoolInv'
  BY <1>15 DEF PoolInv, Held, Holds
<1>16. ASSUME NEW w \in Worker, WorkerStarts(w) PROVE PoolInv'
  BY <1>16, <1>15 DEF WorkerStarts
<1>17. ASSUME (\E d \in Days : Event(d)) \/ DayEnds \/ UNCHANGED schedulerVars PROVE PoolInv'
  BY <1>17, <1>15 DEF Event, DayEnds, schedulerVars
<1> QED
  BY <1>1, <1>2, <1>3, <1>4, <1>5, <1>6, <1>7, <1>8, <1>9, <1>11, <1>12, <1>13, <1>14, <1>16,
     <1>17 DEF SchedulerNext, RunJob, Rebuild

(***************************************************************************)
(* For any workers, runs, days and faults, the composition that TLC runs   *)
(* keeps what the rollups promise: the types, no process holding more      *)
(* connections than its pool has, the lock only with one who holds its     *)
(* connection, and the statistics those of the last rebuild.               *)
(***************************************************************************)
THEOREM RollupsKeepTheirPromise == UpkeepSpec => []StatsHold
<1> DEFINE Inv == JobTypes /\ PoolInv /\ StatsInv
<1>1. UpkeepInit => Inv
  BY JobsStart, StatsInit DEF UpkeepInit
<1>2. Inv /\ [UpkeepNext]_upkeepVars => Inv'
  <2>1. [UpkeepNext]_upkeepVars => [SchedulerNext]_schedulerVars
    BY DEF UpkeepNext, upkeepVars
  <2> QED BY <2>1, JobTypesStep, PoolStep, StatsStep
<1>3. Inv => StatsHold
  BY DEF StatsHold, SchedulerTypeOK, JobTypes, PoolInv, StatsInv
<1> QED BY <1>1, <1>2, <1>3, PTL DEF UpkeepSpec
=============================================================================
