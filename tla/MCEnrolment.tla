---------------------------- MODULE MCEnrolment ----------------------------
(***************************************************************************)
(* The constants of Enrolment for TLC: a one-time campaign on orders whose *)
(* message waits for the delivery, and a win-back campaign.                *)
(***************************************************************************)
EXTENDS Enrolment

CONSTANTS receipt, winback, thanks, review, comeback, o1, o2, k1, k2, e1, e2, w1, w2

MCTrigger == [c \in Campaign |-> IF c = receipt THEN "order_placed" ELSE "days_since_last_order"]
MCJourney == [c \in Campaign |-> IF c = receipt THEN <<thanks, review>> ELSE <<comeback>>]
MCBuyer == [o \in Order |-> k1]
MCUnreachable == {<<thanks, k1>>}
MCFollowed == {<<review, k1, o1>>}

\* Campaigns of different triggers do not meet: one of them is live.  Passes are
\* interchangeable, and so are evaluations: the second begins while the first
\* is at work.  The second order is never delivered: its messages are not followed.
MCInit == Init /\ \E c \in Campaign : \A d \in Campaign \ {c} : campaign[d] = "draft"
MCNext ==
    /\ Next
    /\ campaign[receipt] = "draft" => order' = order
    /\ campaign[winback] = "draft" => lapsed' = lapsed
    /\ order'[o2] = "placed"
    /\ eval[e1] = Idle /\ eval[e2] = Idle => eval'[e2] = Idle
    /\ work[w1] = Free /\ work[w2] = Free => work'[w2] = Free
MCSpec == MCInit /\ [][MCNext]_vars /\ JobFairness
=============================================================================
