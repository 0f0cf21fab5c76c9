------------------------------ MODULE Tracking ------------------------------
(***************************************************************************)
(* The event store and the numbers made of it: the open pixel and the link *)
(* redirect (packages/api/src/routes/public.ts), the ingestion of a        *)
(* batch of events that a client repeats until it is answered              *)
(* (routes/events.ts), and the statistics of a campaign, which are read in *)
(* several statements (routes/analytics.ts) and divided by the definitions *)
(* of packages/core/src/metrics/denominators.ts.                           *)
(***************************************************************************)
EXTENDS Naturals, Sequences, FiniteSets

CONSTANTS
    Mail,           \* messages of one campaign that have been sent
    Reader, ReaderOf,       \* whom each of them was sent to
    Linked,         \* those whose body has a tracked link
    Agent,          \* mail clients and proxies that fetch
    Batch,          \* the events a client posts: who they are about, and their key
    NoKey,
    Verdict,        \* what receipts report
    LastDate,       \* bound: the clock
    MaxTries        \* bound: how often the batch is posted

ASSUME TrackingConstants ==
    /\ IsFiniteSet(Mail) /\ ReaderOf \in [Mail -> Reader] /\ Linked \subseteq Mail
    /\ Verdict \subseteq {"delivered", "bounced", "complained"}
    /\ Len(Batch) \in Nat /\ DOMAIN Batch = 1 .. Len(Batch)
    /\ \A i \in DOMAIN Batch : Batch[i].about \in Mail \cup {"unknown"}
    /\ LastDate \in Nat /\ MaxTries \in Nat

\* The keys of a client tell its events apart, and are not those the tracking
\* endpoints form of a tracking id, a date and the hash of a user agent.
ASSUME ClientKeys ==
    /\ \A i, j \in DOMAIN Batch : Batch[i].key = Batch[j].key /\ Batch[i].key # NoKey => Batch[i].about = Batch[j].about
    /\ \A i \in DOMAIN Batch, type \in {"opened", "clicked"}, l \in Mail, d \in 0 .. LastDate, a \in Agent :
          Batch[i].key # <<type, l, d, a>>

VARIABLES
    date,
    outcome,     \* message_queue.status, as the receipts set it
    store,       \* message_events
    post,        \* the request of the client: the next event, how often it was sent
    report,      \* a request for statistics: how far it is and what it has read
    behind       \* history: outcome or store changed since it began to read

trackingVars == <<date, outcome, store, post, report, behind>>

Unread == [at |-> "idle", sent |-> 0, delivered |-> 0, bounced |-> 0, complained |-> 0,
           opens |-> 0, clicks |-> 0, clickable |-> 0]

TrackingInit ==
    /\ date = 0
    /\ outcome = [l \in Mail |-> "sent"]
    /\ store = {}
    /\ post = [at |-> "idle", next |-> 1, tries |-> 0]
    /\ report = Unread
    /\ behind = FALSE

\* Something a report adds up has changed.
Disturbs == behind' = (report.at # "idle")

-----------------------------------------------------------------------------
(* What is counted *)

\* Rows that say the same are told apart by a number.
Row(type, l, key) ==
    [row |-> Cardinality({e \in store : e.type = type /\ e.mail = l /\ e.key = key}),
     type |-> type, mail |-> l, key |-> key]

\* Mutant of Recorded: no ON CONFLICT.
RecordedAgain(type, l, key) ==
    store \cup {Row(type, l, key)}

\* INSERT ... ON CONFLICT (tenant_id, idempotency_key) DO NOTHING; NULL keys
\* never conflict.
Recorded(type, l, key) ==
    IF key # NoKey /\ \E e \in store : e.key = key THEN store
    ELSE store \cup {Row(type, l, key)}

\* A receipt decides the status of the row (Webhooks has how).
ReceiptSets(l, verdict) ==
    /\ outcome[l] # verdict
    /\ outcome' = [outcome EXCEPT ![l] = verdict]
    /\ Disturbs
    /\ UNCHANGED <<date, store, post, report>>

\* One open of a message per day and client, whether or not a receipt has come.
OpenPixel(l, agent) ==
    /\ store' = Recorded("opened", l, <<"opened", l, date, agent>>)
    /\ Disturbs
    /\ UNCHANGED <<date, outcome, post, report>>

Redirect(l, agent) ==
    /\ l \in Linked
    /\ store' = Recorded("clicked", l, <<"clicked", l, date, agent>>)
    /\ Disturbs
    /\ UNCHANGED <<date, outcome, post, report>>

-----------------------------------------------------------------------------
(* POST /events *)

PostBatch ==
    /\ post.at = "idle" /\ post.tries < MaxTries
    /\ post' = [at |-> "serving", next |-> 1, tries |-> post.tries + 1]
    /\ UNCHANGED <<date, outcome, store, report, behind>>

\* Mutant of IngestEvent: the first unknown contact ends the batch.
IngestEventStops ==
    LET event == Batch[post.next] IN
    /\ post.at = "serving" /\ post.next <= Len(Batch)
    /\ IF event.about = "unknown"
       THEN post' = [post EXCEPT !.next = Len(Batch) + 1] /\ UNCHANGED store
       ELSE /\ store' = Recorded("converted", event.about, event.key)
            /\ post' = [post EXCEPT !.next = @ + 1]
    /\ Disturbs
    /\ UNCHANGED <<date, outcome, report>>

\* One statement per event; an address nobody has is reported and passed over.
IngestEvent ==
    LET event == Batch[post.next] IN
    /\ post.at = "serving" /\ post.next <= Len(Batch)
    /\ store' = IF event.about = "unknown" THEN store ELSE Recorded("converted", event.about, event.key)
    /\ post' = [post EXCEPT !.next = @ + 1]
    /\ Disturbs
    /\ UNCHANGED <<date, outcome, report>>

AnswerBatch ==
    /\ post.at = "serving" /\ post.next > Len(Batch)
    /\ post' = [post EXCEPT !.at = "answered"]
    /\ UNCHANGED <<date, outcome, store, report, behind>>

\* No answer reaches the client, which posts the batch again.
PostDies ==
    /\ post.at = "serving"
    /\ post' = [post EXCEPT !.at = "idle"]
    /\ UNCHANGED <<date, outcome, store, report, behind>>

-----------------------------------------------------------------------------
(* GET /campaigns/:id/stats: three statements, no transaction *)

With(verdict) == {l \in Mail : outcome[l] = verdict}

ReadQueue ==
    /\ report.at = "idle"
    /\ report' = [Unread EXCEPT !.at = "queue", !.sent = Cardinality(Mail),
                     !.delivered = Cardinality(With("delivered")),
                     !.bounced = Cardinality(With("bounced")),
                     !.complained = Cardinality(With("complained"))]
    /\ behind' = FALSE
    /\ UNCHANGED <<date, outcome, store, post>>

\* Mutant of Uniques: rows are counted.
UniquesTotal(type) == Cardinality({e \in store : e.type = type})

\* count(DISTINCT contact_id)
Uniques(type) == Cardinality({ReaderOf[e.mail] : e \in {f \in store : f.type = type}})

ReadEvents ==
    /\ report.at = "queue"
    /\ report' = [report EXCEPT !.at = "events", !.opens = Uniques("opened"), !.clicks = Uniques("clicked")]
    /\ UNCHANGED <<date, outcome, store, post, behind>>

\* Mutant of ReadClickable: every delivered message counts as one with a link.
ReadClickableAll ==
    /\ report.at = "events"
    /\ report' = [report EXCEPT !.at = "done", !.clickable = Cardinality(With("delivered"))]
    /\ UNCHANGED <<date, outcome, store, post, behind>>

ReadClickable ==
    /\ report.at = "events"
    /\ report' = [report EXCEPT !.at = "done", !.clickable = Cardinality(With("delivered") \cap Linked)]
    /\ UNCHANGED <<date, outcome, store, post, behind>>

ReadAgain ==
    /\ report.at = "done"
    /\ report' = Unread
    /\ behind' = FALSE
    /\ UNCHANGED <<date, outcome, store, post>>

DatePasses ==
    /\ date < LastDate
    /\ date' = date + 1
    /\ UNCHANGED <<outcome, store, post, report, behind>>

TrackingNext ==
    \/ \E l \in Mail : (\E verdict \in Verdict : ReceiptSets(l, verdict))
                       \/ \E agent \in Agent : OpenPixel(l, agent) \/ Redirect(l, agent)
    \/ PostBatch \/ IngestEvent \/ AnswerBatch \/ PostDies
    \/ ReadQueue \/ ReadEvents \/ ReadClickable \/ ReadAgain
    \/ DatePasses

TrackingSpec == TrackingInit /\ [][TrackingNext]_trackingVars

-----------------------------------------------------------------------------
TrackingTypeOK ==
    /\ date \in 0 .. LastDate
    /\ outcome \in [Mail -> {"sent"} \cup Verdict]
    /\ \A e \in store : e.type \in {"opened", "clicked", "converted"} /\ e.mail \in Mail
    /\ post.at \in {"idle", "serving", "answered"} /\ post.next \in 1 .. Len(Batch) + 1
    /\ report.at \in {"idle", "queue", "events", "done"}
    /\ \A count \in DOMAIN report \ {"at"} : report[count] \in 0 .. Cardinality(Mail)
    /\ behind \in BOOLEAN

(***************************************************************************)
(* Whatever is fetched again on the same day by the same client, and       *)
(* whatever a client posts again after it was not answered, is one row;    *)
(* only events posted without a key of their own double.                   *)
(***************************************************************************)
KeyedOnce == \A e, f \in store : e.key = f.key /\ e.key # NoKey => e = f

(***************************************************************************)
(* A batch that was answered is stored but for the events about nobody:    *)
(* one unrecognised address does not discard the others, however often the *)
(* batch had to be posted (routes/events.ts).                              *)
(***************************************************************************)
AnsweredIsStored ==
    post.at = "answered" =>
        \A i \in DOMAIN Batch : Batch[i].about # "unknown" =>
            \E e \in store : e.type = "converted" /\ e.mail = Batch[i].about /\ e.key = Batch[i].key

Receipted(type) == \A e \in store : e.type = type => outcome[e.mail] = "delivered"

(***************************************************************************)
(* I12: a report that nothing disturbed divides parts by their wholes.     *)
(* Nobody opens or clicks more often than there are messages that could be *)
(* opened or clicked, provided the receipts of those are in, and the       *)
(* outcomes of messages do not add up to more than were sent.              *)
(***************************************************************************)
RatesAreShares ==
    report.at = "done" /\ ~behind =>
        /\ report.delivered + report.bounced + report.complained <= report.sent
        /\ Receipted("opened") => report.opens <= report.delivered
        /\ Receipted("clicked") => report.clicks <= report.clickable
        /\ report.clickable <= Cardinality(Linked)
=============================================================================
