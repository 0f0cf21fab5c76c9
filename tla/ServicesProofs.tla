--------------------------- MODULE ServicesProofs ---------------------------
(***************************************************************************)
(* What MCServices checks of the handlers of the API and the shop, for any *)
(* callers, rows and faults: reply triage, the storefront, tracking and    *)
(* analytics, the campaigns and the segments.                              *)
(***************************************************************************)
EXTENDS MCServices, FiniteSetTheorems, WellFoundedInduction, TLAPS

-----------------------------------------------------------------------------
(* Reply triage                                                            *)

(***************************************************************************)
(* OptOutHonoured says nothing of a call in progress.  What makes it       *)
(* inductive: a reply with a keyword never gets to the model, one without  *)
(* never gets to the suppression, and one that is about to be filed has    *)
(* had its suppression.                                                    *)
(***************************************************************************)
Careful(c) ==
    /\ asking[c].at = "suppress" => asking[c].reply \in Keyword
    /\ asking[c].at # "idle" => asking[c].reply \in Reply
    /\ asking[c].at \notin {"idle", "suppress"} /\ asking[c].reply \in Keyword => asking[c].reply \in stopped

TriageInv ==
    /\ DOMAIN asking = Caller /\ DOMAIN classified = Reply
    /\ \A c \in Caller : Careful(c)
    /\ OptOutHonoured

LEMMA TriageStart == TriageInit => TriageInv
BY DEF TriageInit, TriageInv, Careful, OptOutHonoured, Idle, Unclassified

\* A call that goes on with its reply, or ends, after its suppression if it
\* needed one.
LEMMA GoesOnCarefully ==
    ASSUME TriageInv, NEW c \in Caller, NEW next,
           asking' = [asking EXCEPT ![c] = next],
           UNCHANGED <<classified, stopped>>,
           next.at = "idle" \/ /\ asking[c].at \notin {"idle", "suppress"}
                               /\ next.at # "suppress" /\ next.reply = asking[c].reply
    PROVE  TriageInv'
<1>1. asking'[c] = next /\ DOMAIN asking' = Caller
  BY DEF TriageInv
<1>2. ASSUME NEW d \in Caller PROVE Careful(d)'
  <2>1. CASE d = c
    BY <2>1, <1>1 DEF TriageInv, Careful
  <2>2. CASE d # c
    <3>1. asking'[d] = asking[d]
      BY <2>2 DEF TriageInv
    <3> QED BY <3>1 DEF TriageInv, Careful
  <2> QED BY <2>1, <2>2
<1>3. OptOutHonoured'
  BY DEF TriageInv, OptOutHonoured
<1> QED BY <1>1, <1>2, <1>3 DEF TriageInv

LEMMA TriageStep == TriageInv /\ [TriageNext]_triageVars => TriageInv'
<1> SUFFICES ASSUME TriageInv, [TriageNext]_triageVars PROVE TriageInv'
  OBVIOUS
<1>0. Idle.at = "idle"
  BY DEF Idle
<1>1. ASSUME NEW c \in Caller, NEW r \in Reply, Classify(c, r) PROVE TriageInv'
  <2> DEFINE next == [Idle EXCEPT !.at = IF r \in Keyword THEN "suppress" ELSE "look", !.reply = r]
  <2>1. asking' = [asking EXCEPT ![c] = next] /\ UNCHANGED <<classified, stopped>>
    BY <1>1 DEF Classify
  <2>2. next.reply = r /\ next.at = IF r \in Keyword THEN "suppress" ELSE "look"
    BY DEF Idle
  <2>3. asking'[c] = next /\ DOMAIN asking' = Caller
    BY <2>1 DEF TriageInv
  <2>4. ASSUME NEW d \in Caller PROVE Careful(d)'
    <3>1. CASE d = c
      BY <3>1, <2>2, <2>3 DEF Careful
    <3>2. CASE d # c
      <4>1. asking'[d] = asking[d]
        BY <3>2, <2>1 DEF TriageInv
      <4> QED BY <4>1, <2>1 DEF TriageInv, Careful
    <3> QED BY <3>1, <3>2
  <2>5. OptOutHonoured'
    BY <2>1 DEF TriageInv, OptOutHonoured
  <2> QED BY <2>1, <2>3, <2>4, <2>5 DEF TriageInv
<1>2. ASSUME NEW c \in Caller, AddProtection(c) PROVE TriageInv'
  <2>1. asking[c].reply \in Keyword /\ asking[c].reply \in Reply
    BY <1>2 DEF AddProtection, TriageInv, Careful
  <2>2. /\ stopped' = stopped \cup {asking[c].reply} /\ classified' = classified
        /\ asking' = [asking EXCEPT ![c] = [asking[c] EXCEPT !.at = "persist"]]
    BY <1>2 DEF AddProtection, Goes
  <2>3. asking'[c] = [asking[c] EXCEPT !.at = "persist"] /\ DOMAIN asking' = Caller
    BY <2>2 DEF TriageInv
  <2>4. ASSUME NEW d \in Caller PROVE Careful(d)'
    <3>1. CASE d = c
      <4>1. asking'[c].reply = asking[c].reply
        BY <2>3
      <4>2. asking[c].at = "suppress"
        BY <1>2 DEF AddProtection
      <4>3. asking'[c].at = "persist"
        BY <2>3, <4>2
      <4> QED BY <4>1, <4>3, <3>1, <2>1, <2>2 DEF Careful
    <3>2. CASE d # c
      <4>1. asking'[d] = asking[d]
        BY <3>2, <2>2 DEF TriageInv
      <4> QED BY <4>1, <2>2 DEF TriageInv, Careful
    <3> QED BY <3>1, <3>2
  <2>5. OptOutHonoured'
    BY <2>1, <2>2 DEF TriageInv, OptOutHonoured
  <2> QED BY <2>2, <2>3, <2>4, <2>5 DEF TriageInv
<1>3. ASSUME NEW c \in Caller, ServeCached(c) PROVE TriageInv'
  <2> DEFINE next == [asking[c] EXCEPT !.at = "persist"]
  <2>1. asking' = [asking EXCEPT ![c] = next] /\ UNCHANGED <<classified, stopped>>
    BY <1>3 DEF ServeCached, Goes
  <2>2. asking[c].at = "look" /\ next.at = "persist" /\ next.reply = asking[c].reply
    BY <1>3 DEF ServeCached
  <2> HIDE DEF next
  <2> QED BY <2>1, <2>2, GoesOnCarefully
<1>4. ASSUME NEW c \in Caller, Miss(c) PROVE TriageInv'
  <2> DEFINE next == [asking[c] EXCEPT !.at = "reserve"]
  <2>1. asking' = [asking EXCEPT ![c] = next] /\ UNCHANGED <<classified, stopped>>
    BY <1>4 DEF Miss, Goes
  <2>2. asking[c].at = "look" /\ next.at = "reserve" /\ next.reply = asking[c].reply
    BY <1>4 DEF Miss
  <2> HIDE DEF next
  <2> QED BY <2>1, <2>2, GoesOnCarefully
<1>5. ASSUME NEW c \in Caller, VendorThrows(c) PROVE TriageInv'
  <2> DEFINE next == [asking[c] EXCEPT !.at = "release"]
  <2>1. asking' = [asking EXCEPT ![c] = next] /\ UNCHANGED <<classified, stopped>>
    BY <1>5 DEF VendorThrows, Goes
  <2>2. asking[c].at = "call" /\ next.at = "release" /\ next.reply = asking[c].reply
    BY <1>5 DEF VendorThrows
  <2> HIDE DEF next
  <2> QED BY <2>1, <2>2, GoesOnCarefully
<1>6. ASSUME NEW c \in Caller, Release(c) PROVE TriageInv'
  <2>1. asking' = [asking EXCEPT ![c] = Idle] /\ UNCHANGED <<classified, stopped>>
    BY <1>6 DEF Release
  <2> QED BY <1>0, <2>1, GoesOnCarefully
<1>7. ASSUME NEW c \in Caller, CallerDies(c) PROVE TriageInv'
  <2>1. asking' = [asking EXCEPT ![c] = Idle] /\ UNCHANGED <<classified, stopped>>
    BY <1>7 DEF CallerDies
  <2> QED BY <1>0, <2>1, GoesOnCarefully
<1>8. ASSUME NEW c \in Caller, Reserve(c) PROVE TriageInv'
  <2> DEFINE next == [asking[c] EXCEPT !.at = "call", !.booked = Estimate, !.since = month]
  <2>1. /\ asking[c].at = "reserve" /\ UNCHANGED <<classified, stopped>>
        /\ asking' = [asking EXCEPT ![c] = next] \/ asking' = [asking EXCEPT ![c] = Idle]
    BY <1>8 DEF Reserve
  <2>2. next.at = "call" /\ next.reply = asking[c].reply
    OBVIOUS
  <2> HIDE DEF next
  <2> QED BY <1>0, <2>1, <2>2, GoesOnCarefully
<1>9. ASSUME NEW c \in Caller, Answer(c) PROVE TriageInv'
  <2>1. PICK used \in Usage, valid \in BOOLEAN :
            asking' = [asking EXCEPT ![c] = [asking[c] EXCEPT !.at = "settle", !.used = used,
                                                              !.valid = valid]]
    BY <1>9 DEF Answer
  <2> DEFINE next == [asking[c] EXCEPT !.at = "settle", !.used = used, !.valid = valid]
  <2>2. asking[c].at = "call" /\ UNCHANGED <<classified, stopped>>
    BY <1>9 DEF Answer
  <2>3. next.at = "settle" /\ next.reply = asking[c].reply
    OBVIOUS
  <2>4. asking' = [asking EXCEPT ![c] = next]
    BY <2>1
  <2> HIDE DEF next
  <2> QED BY <2>2, <2>3, <2>4, GoesOnCarefully
<1>10. ASSUME NEW c \in Caller, SettleCall(c) PROVE TriageInv'
  <2> DEFINE next == [asking[c] EXCEPT !.at = "record", !.booked = 0]
  <2>1. asking' = [asking EXCEPT ![c] = next] /\ UNCHANGED <<classified, stopped>>
    BY <1>10 DEF SettleCall
  <2>2. asking[c].at = "settle" /\ next.at = "record" /\ next.reply = asking[c].reply
    BY <1>10 DEF SettleCall
  <2> HIDE DEF next
  <2> QED BY <2>1, <2>2, GoesOnCarefully
<1>11. ASSUME NEW c \in Caller, RecordCall(c) PROVE TriageInv'
  <2> DEFINE again == [asking[c] EXCEPT !.at = "reserve", !.attempt = 2, !.used = 0]
             last == [asking[c] EXCEPT !.at = "persist", !.used = 0]
  <2>1. /\ asking[c].at = "record" /\ UNCHANGED <<classified, stopped>>
        /\ asking' = [asking EXCEPT ![c] = again] \/ asking' = [asking EXCEPT ![c] = last]
    BY <1>11, Zenon DEF RecordCall
  <2>2. /\ again.at = "reserve" /\ again.reply = asking[c].reply
        /\ last.at = "persist" /\ last.reply = asking[c].reply
    OBVIOUS
  <2> HIDE DEF again, last
  <2>3. CASE asking' = [asking EXCEPT ![c] = again]
    BY <2>1, <2>2, <2>3, GoesOnCarefully
  <2>4. CASE asking' = [asking EXCEPT ![c] = last]
    BY <2>1, <2>2, <2>4, GoesOnCarefully
  <2> QED BY <2>1, <2>3, <2>4
<1>12. ASSUME NEW c \in Caller, Persist(c) PROVE TriageInv'
  <2> DEFINE filed == IF asking[c].reply \in Keyword THEN [by |-> "deterministic", label |-> TRUE]
                      ELSE [by |-> "model", label |-> asking[c].valid]
  <2>1. /\ asking' = [asking EXCEPT ![c] = Idle] /\ stopped' = stopped
        /\ classified' = [classified EXCEPT ![asking[c].reply] = filed]
    BY <1>12 DEF Persist
  <2>2. filed.by = "deterministic" => asking[c].reply \in stopped
    BY <1>12 DEF Persist, TriageInv, Careful
  <2>3. ASSUME NEW d \in Caller PROVE Careful(d)'
    <3>1. CASE d = c
      <4>1. asking'[d].at = "idle"
        BY <1>0, <2>1, <3>1 DEF TriageInv
      <4> QED BY <4>1 DEF Careful
    <3>2. CASE d # c
      <4>1. asking'[d] = asking[d]
        BY <3>2, <2>1 DEF TriageInv
      <4> QED BY <4>1, <2>1 DEF TriageInv, Careful
    <3> QED BY <3>1, <3>2
  <2>4. ASSUME NEW r \in Reply, classified'[r].by = "deterministic" PROVE r \in stopped
    <3>1. CASE r = asking[c].reply
      BY <2>1, <2>2, <2>4, <3>1 DEF TriageInv
    <3>2. CASE r # asking[c].reply
      BY <2>1, <2>4, <3>2 DEF TriageInv, OptOutHonoured
    <3> QED BY <3>1, <3>2
  <2> QED BY <2>1, <2>3, <2>4 DEF TriageInv, OptOutHonoured
<1>13. CASE MonthEnds \/ UNCHANGED triageVars
  <2>1. UNCHANGED <<asking, classified, stopped>>
    BY <1>13 DEF MonthEnds, triageVars
  <2>2. ASSUME NEW d \in Caller PROVE Careful(d)'
    BY <2>1 DEF TriageInv, Careful
  <2> QED BY <2>1, <2>2 DEF TriageInv, OptOutHonoured
<1> QED
  BY <1>1, <1>2, <1>3, <1>4, <1>5, <1>6, <1>7, <1>8, <1>9, <1>10, <1>11, <1>12, <1>13
     DEF TriageNext

(***************************************************************************)
(* For any callers, replies, budgets and faults: whoever wrote the keyword *)
(* is suppressed before the reply is filed as an opt-out, and nobody else  *)
(* is suppressed (classifier.ts, deterministic.ts).                        *)
(***************************************************************************)
THEOREM OptOutsAreHonoured == ServicesSpec => []OptOutHonoured
<1>1. ServicesInit => TriageInv
  BY TriageStart DEF ServicesInit
<1>2. TriageInv /\ [ServicesNext]_servicesVars => TriageInv'
  <2>1. [ServicesNext]_servicesVars => [TriageNext]_triageVars
    BY DEF ServicesNext, servicesVars
  <2> QED BY <2>1, TriageStep
<1>3. TriageInv => OptOutHonoured
  BY DEF TriageInv
<1> QED BY <1>1, <1>2, <1>3, PTL DEF ServicesSpec

-----------------------------------------------------------------------------
(* The token ledger of reply triage                                        *)

CallStage == {"idle", "suppress", "look", "reserve", "call", "release", "settle", "record", "persist"}
CallRow == [id : Nat, body : {Body[r] : r \in Reply}, status : {"ok", "retry_ok", "schema_violation", "escalated"},
            hit : BOOLEAN, used : Nat, month : Month]
CallState == [at : CallStage, reply : Reply \cup {NoReply}, attempt : 1 .. 2, booked : Nat, since : Month,
              used : Nat, valid : BOOLEAN]

(***************************************************************************)
(* Only a call at the vendor, or about to be corrected, holds tokens it    *)
(* booked; unless its month is one of those that are upset, it booked them *)
(* in the month of the clock, which has a row to correct.                  *)
(***************************************************************************)
Booking(a) ==
    /\ a.at # "idle" => a.reply \in Reply
    /\ a.since <= month
    /\ IF a.at \in {"call", "release", "settle"} THEN a.booked > 0 ELSE a.booked = 0
    /\ a.at \notin {"settle", "record"} => a.used = 0
    /\ a.booked > 0 /\ a.since = month => month \in opened
    /\ a.booked > 0 /\ a.since # month => {a.since, month} \subseteq upset

LedgerInv ==
    /\ month \in Month /\ opened \subseteq Month /\ upset \subseteq Month
    /\ tokens \in [Month -> Nat]
    /\ asking \in [Caller -> CallState] /\ \A c \in Caller : Booking(asking[c])
    /\ IsFiniteSet(modelCalls) /\ modelCalls \subseteq CallRow
    /\ \A entry \in modelCalls : entry.id < Cardinality(modelCalls)
    /\ classified \in [Reply -> Outcomes] /\ stopped \subseteq Reply
    /\ LedgerAccounts /\ CacheServesFirstAnswers

LEMMA TriageConstants == IsFiniteSet(Caller) /\ Keyword \subseteq Reply /\ Budget \in Nat /\ Estimate \in Nat \ {0}
                         /\ Usage \subseteq Nat /\ LastMonth \in Nat /\ NoReply \notin Reply
BY TriageAssumption DEF TriageAssumption

\* n units of one element.
LEMMA UnitsOfOne ==
    ASSUME NEW x, NEW n \in Nat
    PROVE  IsFiniteSet({x} \X (1 .. n)) /\ Cardinality({x} \X (1 .. n)) = n
<1>1. IsFiniteSet(1 .. n) /\ Cardinality(1 .. n) = n
  BY FS_Interval
<1>2. IsFiniteSet({x}) /\ Cardinality({x}) = 1
  BY FS_Singleton
<1>3. IsFiniteSet({x} \X (1 .. n)) /\ Cardinality({x} \X (1 .. n)) = 1 * n
  BY <1>1, <1>2, FS_Product
<1> QED BY <1>3

LEMMA TotalIsNat ==
    ASSUME NEW D, IsFiniteSet(D), NEW f \in [D -> Nat]
    PROVE  IsFiniteSet(Units(f)) /\ Total(f) \in Nat
<1> DEFINE parts == {{x} \X (1 .. f[x]) : x \in D}
           chunk == [x \in D |-> {x} \X (1 .. f[x])]
<1>1. chunk \in Surjection(D, parts)
  BY DEF Surjection
<1>2. IsFiniteSet(parts)
  BY <1>1, FS_Surjection
<1>3. ASSUME NEW one \in parts PROVE IsFiniteSet(one)
  <2>1. PICK x \in D : one = {x} \X (1 .. f[x])
    OBVIOUS
  <2>2. f[x] \in Nat
    OBVIOUS
  <2> QED BY <2>1, <2>2, UnitsOfOne
<1>4. IsFiniteSet(UNION parts)
  BY <1>2, <1>3, FS_UNION
<1>5. Units(f) = UNION parts
  BY DEF Units
<1> QED BY <1>4, <1>5, FS_CardinalityType DEF Total

\* A sum grows by the value of the element that joins its terms.
LEMMA TotalGrows ==
    ASSUME NEW D, IsFiniteSet(D), NEW x, x \notin D, NEW f \in [D -> Nat], NEW g \in [D \cup {x} -> Nat],
           \A y \in D : g[y] = f[y]
    PROVE  Total(g) = Total(f) + g[x]
<1> DEFINE own == {x} \X (1 .. g[x])
<1>1. Units(g) = Units(f) \cup own
  <2>1. DOMAIN f = D /\ DOMAIN g = D \cup {x}
    OBVIOUS
  <2>2. Units(g) = (UNION {{y} \X (1 .. g[y]) : y \in D}) \cup own
    <3> DEFINE units(y) == {y} \X (1 .. g[y])
               parts == {units(y) : y \in D}
    <3>1. {units(y) : y \in D \cup {x}} = parts \cup {units(x)}
      <4> HIDE DEF units
      <4> QED OBVIOUS
    <3>2. UNION (parts \cup {units(x)}) = (UNION parts) \cup units(x)
      <4> HIDE DEF parts, units
      <4> QED OBVIOUS
    <3> QED BY <2>1, <3>1, <3>2 DEF Units
  <2>3. {{y} \X (1 .. g[y]) : y \in D} = {{y} \X (1 .. f[y]) : y \in D}
    OBVIOUS
  <2> QED BY <2>1, <2>2, <2>3 DEF Units
<1>2. Units(f) \cap own = {}
  <2> SUFFICES ASSUME NEW u \in Units(f), u \in own PROVE FALSE
    OBVIOUS
  <2>1. PICK y \in D : u \in {y} \X (1 .. f[y])
    BY DEF Units
  <2>2. u[1] = y /\ u[1] = x
    BY <2>1
  <2> QED BY <2>2
<1>3. IsFiniteSet(Units(f)) /\ Cardinality(Units(f)) \in Nat
  BY TotalIsNat DEF Total
<1>4. g[x] \in Nat
  OBVIOUS
<1>5. IsFiniteSet(own) /\ Cardinality(own) = g[x]
  BY <1>4, UnitsOfOne
<1>6. Cardinality(Units(f) \cup own) = Cardinality(Units(f)) + Cardinality(own) - Cardinality(Units(f) \cap own)
  BY <1>3, <1>5, FS_Union
<1>7. Cardinality({}) = 0
  BY FS_EmptySet
<1>8. Cardinality(Units(g)) = Cardinality(Units(f)) + g[x]
  <2> HIDE DEF own
  <2>1. Cardinality(Units(f) \cap own) = 0
    BY <1>2, <1>7
  <2>2. Cardinality(Units(g)) = Cardinality(Units(f) \cup own)
    BY <1>1
  <2> QED BY <2>1, <2>2, <1>3, <1>4, <1>5, <1>6
<1> QED BY <1>8 DEF Total

\* A sum follows the one term that changes.
LEMMA TotalChanges ==
    ASSUME NEW D, IsFiniteSet(D), NEW x \in D, NEW f \in [D -> Nat], NEW g \in [D -> Nat],
           \A y \in D : y # x => g[y] = f[y]
    PROVE  /\ Total(f) \in Nat /\ Total(g) \in Nat
           /\ f[x] <= Total(f) /\ Total(g) = Total(f) - f[x] + g[x]
<1> DEFINE rest == [y \in D \ {x} |-> f[y]]
<1>1. IsFiniteSet(D \ {x}) /\ x \notin D \ {x} /\ (D \ {x}) \cup {x} = D
  BY FS_RemoveElement
<1>2. rest \in [D \ {x} -> Nat] /\ \A y \in D \ {x} : f[y] = rest[y] /\ g[y] = rest[y]
  OBVIOUS
<1>3. Total(rest) \in Nat
  BY <1>1, <1>2, TotalIsNat
<1> HIDE DEF rest
<1>4. f \in [(D \ {x}) \cup {x} -> Nat] /\ g \in [(D \ {x}) \cup {x} -> Nat]
  BY <1>1
<1>5. Total(f) = Total(rest) + f[x]
  BY <1>1, <1>2, <1>4, TotalGrows
<1>6. Total(g) = Total(rest) + g[x]
  BY <1>1, <1>2, <1>4, TotalGrows
<1>7. f[x] \in Nat /\ g[x] \in Nat
  OBVIOUS
<1> QED BY <1>3, <1>5, <1>6, <1>7

\* A sum of noughts.
LEMMA TotalOfNothing ==
    ASSUME NEW f, \A x \in DOMAIN f : f[x] = 0
    PROVE  Total(f) = 0
<1>1. \A x \in DOMAIN f : {x} \X (1 .. f[x]) = {}
  <2>1. 1 .. 0 = {}
    OBVIOUS
  <2> QED BY <2>1
<1>2. Units(f) = {}
  BY <1>1 DEF Units
<1> QED BY <1>2, FS_EmptySet DEF Total

-----------------------------------------------------------------------------
UsedTotal(m) == Total([entry \in modelCalls |-> UsedIn(m, entry)])
HeldTotal(m) == Total([c \in Caller |-> HeldIn(m, asking[c])])

LEMMA TotalsAreNats ==
    ASSUME LedgerInv, NEW m \in Month
    PROVE  UsedTotal(m) \in Nat /\ HeldTotal(m) \in Nat
<1>1. \A entry \in modelCalls : UsedIn(m, entry) \in Nat
  BY DEF LedgerInv, CallRow, UsedIn
<1>2. \A c \in Caller : HeldIn(m, asking[c]) \in Nat
  BY DEF LedgerInv, CallState, HeldIn
<1>3. IsFiniteSet(modelCalls) /\ IsFiniteSet(Caller)
  BY TriageConstants DEF LedgerInv
<1>4. [entry \in modelCalls |-> UsedIn(m, entry)] \in [modelCalls -> Nat]
  BY <1>1
<1>5. [c \in Caller |-> HeldIn(m, asking[c])] \in [Caller -> Nat]
  BY <1>2
<1> QED BY <1>3, <1>4, <1>5, TotalIsNat DEF UsedTotal, HeldTotal

\* One call goes on: what all of them hold changes by what it holds.
LEMMA HeldFollows ==
    ASSUME LedgerInv, NEW m \in Month, NEW c \in Caller, NEW next \in CallState,
           asking' = [asking EXCEPT ![c] = next]
    PROVE  /\ HeldTotal(m) \in Nat /\ HeldIn(m, asking[c]) <= HeldTotal(m)
           /\ HeldTotal(m)' = HeldTotal(m) - HeldIn(m, asking[c]) + HeldIn(m, next)
<1> DEFINE f == [d \in Caller |-> HeldIn(m, asking[d])]
           g == [d \in Caller |-> HeldIn(m, asking'[d])]
<1>1. \A d \in Caller : asking'[d] = IF d = c THEN next ELSE asking[d]
  BY DEF LedgerInv
<1>2. \A d \in Caller : asking[d] \in CallState /\ asking'[d] \in CallState
  BY <1>1 DEF LedgerInv
<1>3. \A d \in Caller : HeldIn(m, asking[d]) \in Nat /\ HeldIn(m, asking'[d]) \in Nat
  BY <1>2 DEF CallState, HeldIn
<1>4. f \in [Caller -> Nat] /\ g \in [Caller -> Nat]
  BY <1>3
<1>5. \A d \in Caller : d # c => g[d] = f[d]
  BY <1>1
<1>6. f[c] = HeldIn(m, asking[c]) /\ g[c] = HeldIn(m, next)
  BY <1>1
<1>7. HeldTotal(m) = Total(f) /\ HeldTotal(m)' = Total(g)
  BY DEF HeldTotal, HeldIn
<1> HIDE DEF f, g
<1>8. /\ Total(f) \in Nat /\ Total(g) \in Nat
      /\ f[c] <= Total(f) /\ Total(g) = Total(f) - f[c] + g[c]
  BY <1>4, <1>5, TriageConstants, TotalChanges
<1> QED BY <1>6, <1>7, <1>8

\* One row of a call is recorded.
LEMMA UsedFollows ==
    ASSUME LedgerInv, NEW new \in CallRow, new.id = Cardinality(modelCalls), modelCalls' = modelCalls \cup {new}
    PROVE  /\ IsFiniteSet(modelCalls') /\ modelCalls' \subseteq CallRow
           /\ \A entry \in modelCalls' : entry.id < Cardinality(modelCalls')
           /\ \A m \in Month : UsedTotal(m)' = UsedTotal(m) + UsedIn(m, new)
<1>1. Cardinality(modelCalls) \in Nat /\ IsFiniteSet(modelCalls)
  BY FS_CardinalityType DEF LedgerInv
<1>2. new \notin modelCalls
  BY <1>1 DEF LedgerInv
<1>3. IsFiniteSet(modelCalls') /\ Cardinality(modelCalls') = Cardinality(modelCalls) + 1
  BY <1>1, <1>2, FS_AddElement
<1>4. modelCalls' \subseteq CallRow
  BY DEF LedgerInv
<1>5. \A entry \in modelCalls' : entry.id < Cardinality(modelCalls')
  <2>1. \A entry \in modelCalls : entry.id \in Nat /\ entry.id < Cardinality(modelCalls)
    BY DEF LedgerInv, CallRow
  <2> QED BY <2>1, <1>1, <1>3
<1>6. ASSUME NEW m \in Month PROVE UsedTotal(m)' = UsedTotal(m) + UsedIn(m, new)
  <2> DEFINE f == [entry \in modelCalls |-> UsedIn(m, entry)]
             g == [entry \in modelCalls \cup {new} |-> UsedIn(m, entry)]
  <2>1. \A entry \in modelCalls \cup {new} : UsedIn(m, entry) \in Nat
    BY <1>4 DEF CallRow, UsedIn
  <2>2. f \in [modelCalls -> Nat] /\ g \in [modelCalls \cup {new} -> Nat]
    BY <2>1
  <2>3. \A entry \in modelCalls : g[entry] = f[entry]
    OBVIOUS
  <2>4. g[new] = UsedIn(m, new)
    OBVIOUS
  <2>5. UsedTotal(m) = Total(f) /\ UsedTotal(m)' = Total(g)
    BY DEF UsedTotal, UsedIn
  <2> HIDE DEF f, g
  <2>6. Total(g) = Total(f) + g[new]
    BY <1>1, <1>2, <2>2, <2>3, TotalGrows
  <2> QED BY <2>4, <2>5, <2>6
<1> QED BY <1>3, <1>4, <1>5, <1>6

-----------------------------------------------------------------------------
(* The steps of a call *)

\* The part of LedgerInv that speaks of one call at a time.
LEMMA CallsStayBooked ==
    ASSUME LedgerInv, NEW c \in Caller, NEW next \in CallState,
           asking' = [asking EXCEPT ![c] = next],
           month' = month, opened \subseteq opened', upset \subseteq upset',
           Booking(next)'
    PROVE  asking' \in [Caller -> CallState] /\ (\A d \in Caller : Booking(asking[d]))'
<1>1. asking' \in [Caller -> CallState]
  BY DEF LedgerInv
<1>2. ASSUME NEW d \in Caller PROVE Booking(asking[d])'
  <2>1. CASE d = c
    <3>1. asking'[d] = next
      BY <2>1 DEF LedgerInv
    <3> QED BY <3>1 DEF Booking
  <2>2. CASE d # c
    <3>1. asking'[d] = asking[d] /\ Booking(asking[d])
      BY <2>2 DEF LedgerInv
    <3> QED BY <3>1 DEF Booking
  <2> QED BY <2>1, <2>2
<1> QED BY <1>1, <1>2

\* A step of one call that leaves the tables of the model alone, and holds what
\* it held.
LEMMA CallStep ==
    ASSUME LedgerInv, NEW c \in Caller, NEW next \in CallState,
           asking' = [asking EXCEPT ![c] = next],
           UNCHANGED <<month, opened, tokens, modelCalls>>,
           upset \subseteq upset', upset' \subseteq Month,
           classified' \in [Reply -> Outcomes], stopped' \subseteq Reply,
           Booking(next),
           \A m \in Month \ upset' : HeldIn(m, next) = HeldIn(m, asking[c])
    PROVE  LedgerInv'
<1>1. asking' \in [Caller -> CallState] /\ (\A d \in Caller : Booking(asking[d]))'
  <2>1. Booking(next)'
    BY DEF Booking
  <2> QED BY <2>1, CallsStayBooked
<1>2. LedgerAccounts'
  <2> SUFFICES ASSUME NEW m \in Month, m \notin upset'
               PROVE  tokens'[m] = UsedTotal(m)' + HeldTotal(m)'
    BY DEF LedgerAccounts, UsedTotal, HeldTotal, Month
  <2>1. tokens[m] = UsedTotal(m) + HeldTotal(m)
    BY DEF LedgerInv, LedgerAccounts, UsedTotal, HeldTotal
  <2>2. HeldTotal(m)' = HeldTotal(m) - HeldIn(m, asking[c]) + HeldIn(m, next) /\ HeldTotal(m) \in Nat
    BY HeldFollows
  <2>3. HeldIn(m, next) = HeldIn(m, asking[c]) /\ HeldIn(m, next) \in Nat
    BY DEF CallState, HeldIn
  <2>4. UsedTotal(m)' = UsedTotal(m)
    BY DEF UsedTotal
  <2> QED BY <2>1, <2>2, <2>3, <2>4
<1>3. CacheServesFirstAnswers'
  BY DEF LedgerInv, CacheServesFirstAnswers
<1> QED BY <1>1, <1>2, <1>3 DEF LedgerInv, Month

\* A step of one call that records a row of it.
LEMMA RecordingStep ==
    ASSUME LedgerInv, NEW c \in Caller, NEW next \in CallState, NEW new \in CallRow,
           asking' = [asking EXCEPT ![c] = next],
           UNCHANGED <<month, opened, tokens, classified, stopped, upset>>,
           modelCalls' = modelCalls \cup {new}, new.id = Cardinality(modelCalls),
           Booking(next),
           \A m \in Month : HeldIn(m, next) + UsedIn(m, new) = HeldIn(m, asking[c]),
           new.hit => \E entry \in modelCalls : ~entry.hit /\ entry.body = new.body /\ entry.status = "ok"
    PROVE  LedgerInv'
<1>1. asking' \in [Caller -> CallState] /\ (\A d \in Caller : Booking(asking[d]))'
  <2>1. Booking(next)'
    BY DEF Booking
  <2> QED BY <2>1, CallsStayBooked
<1>2. LedgerAccounts'
  <2> SUFFICES ASSUME NEW m \in Month, m \notin upset
               PROVE  tokens'[m] = UsedTotal(m)' + HeldTotal(m)'
    BY DEF LedgerAccounts, UsedTotal, HeldTotal, Month
  <2>1. tokens[m] = UsedTotal(m) + HeldTotal(m) /\ UsedTotal(m) \in Nat
    BY TotalsAreNats DEF LedgerInv, LedgerAccounts, UsedTotal, HeldTotal
  <2>2. HeldTotal(m)' = HeldTotal(m) - HeldIn(m, asking[c]) + HeldIn(m, next) /\ HeldTotal(m) \in Nat
    BY HeldFollows
  <2>3. HeldIn(m, next) + UsedIn(m, new) = HeldIn(m, asking[c])
    OBVIOUS
  <2>4. HeldIn(m, next) \in Nat /\ UsedIn(m, new) \in Nat
    BY DEF CallState, CallRow, HeldIn, UsedIn
  <2>5. UsedTotal(m)' = UsedTotal(m) + UsedIn(m, new)
    BY UsedFollows
  <2> QED BY <2>1, <2>2, <2>3, <2>4, <2>5
<1>3. /\ IsFiniteSet(modelCalls') /\ modelCalls' \subseteq CallRow
      /\ \A entry \in modelCalls' : entry.id < Cardinality(modelCalls')
  BY UsedFollows
<1>4. CacheServesFirstAnswers'
  <2>1. \A entry \in modelCalls : entry.id < new.id
    BY DEF LedgerInv
  <2>2. ASSUME NEW hit \in modelCalls', hit.hit
        PROVE  \E entry \in modelCalls' : ~entry.hit /\ entry.body = hit.body /\ entry.id < hit.id /\ entry.status = "ok"
    <3>1. CASE hit \in modelCalls
      BY <3>1, <2>2 DEF LedgerInv, CacheServesFirstAnswers
    <3>2. CASE hit = new
      BY <3>2, <2>1, <2>2
    <3> QED BY <3>1, <3>2
  <2> QED BY <2>2 DEF CacheServesFirstAnswers
<1> QED BY <1>1, <1>2, <1>3, <1>4 DEF LedgerInv, Month

\* A correction of the ledger by what a call held and now holds.
LEMMA CorrectingStep ==
    ASSUME LedgerInv, NEW c \in Caller, NEW next \in CallState, NEW delta \in Int,
           asking' = [asking EXCEPT ![c] = next], Correct(delta),
           UNCHANGED <<month, opened, modelCalls, classified, stopped, upset>>,
           Booking(next),
           asking[c].at # "record", asking[c].booked > 0,
           \A m \in Month \ upset : HeldIn(m, next) = HeldIn(m, asking[c]) + (IF m = asking[c].since THEN delta ELSE 0)
    PROVE  LedgerInv'
<1>1. asking' \in [Caller -> CallState] /\ (\A d \in Caller : Booking(asking[d]))'
  <2>1. Booking(next)'
    BY DEF Booking
  <2> QED BY <2>1, CallsStayBooked
<1>2. tokens' \in [Month -> Nat]
  <2>1. tokens \in [Month -> Nat] /\ month \in Month
    BY DEF LedgerInv
  <2>2. tokens[month] \in Nat
    BY <2>1
  <2>3. (IF tokens[month] + delta > 0 THEN tokens[month] + delta ELSE 0) \in Nat
    BY <2>2
  <2> QED BY <2>1, <2>3 DEF Correct
<1>3. LedgerAccounts'
  <2> SUFFICES ASSUME NEW m \in Month, m \notin upset
               PROVE  tokens'[m] = UsedTotal(m)' + HeldTotal(m)'
    BY DEF LedgerAccounts, UsedTotal, HeldTotal, Month
  <2>1. tokens[m] = UsedTotal(m) + HeldTotal(m) /\ UsedTotal(m) \in Nat
    BY TotalsAreNats DEF LedgerInv, LedgerAccounts, UsedTotal, HeldTotal
  <2>2. HeldTotal(m)' = HeldTotal(m) - HeldIn(m, asking[c]) + HeldIn(m, next) /\ HeldTotal(m) \in Nat
        /\ HeldIn(m, asking[c]) <= HeldTotal(m)
    BY HeldFollows
  <2>3. HeldIn(m, next) \in Nat /\ HeldIn(m, asking[c]) \in Nat
    BY DEF LedgerInv, CallState, HeldIn
  <2>4. UsedTotal(m)' = UsedTotal(m)
    BY DEF UsedTotal
  <2>5. HeldIn(m, next) = HeldIn(m, asking[c]) + (IF m = asking[c].since THEN delta ELSE 0)
    OBVIOUS
  <2>6. tokens \in [Month -> Nat] /\ month \in Month /\ Booking(asking[c])
    BY DEF LedgerInv
  <2>7. CASE m = asking[c].since
    <3>1. m = month /\ month \in opened
      BY <2>6, <2>7 DEF Booking
    <3>2. tokens'[m] = IF tokens[m] + delta > 0 THEN tokens[m] + delta ELSE 0
      BY <3>1, <2>6 DEF Correct
    <3>3. tokens[m] + delta >= 0 /\ tokens[m] + delta = UsedTotal(m) + HeldTotal(m) - HeldIn(m, asking[c]) + HeldIn(m, next)
      BY <2>7, <2>1, <2>2, <2>3, <2>5
    <3>4. tokens'[m] = tokens[m] + delta
      BY <3>2, <3>3, <2>6
    <3> QED BY <3>3, <3>4, <2>1, <2>2, <2>3, <2>4
  <2>8. CASE m # asking[c].since
    <3>1. m # month
      BY <2>6, <2>8 DEF Booking
    <3>2. tokens'[m] = tokens[m]
      BY <3>1, <2>6 DEF Correct
    <3> QED BY <3>2, <2>8, <2>1, <2>2, <2>3, <2>4, <2>5
  <2> QED BY <2>7, <2>8
<1>4. CacheServesFirstAnswers'
  BY DEF LedgerInv, CacheServesFirstAnswers
<1> QED BY <1>1, <1>2, <1>3, <1>4 DEF LedgerInv, Month

LEMMA LedgerStart == TriageInit => LedgerInv
<1> SUFFICES ASSUME TriageInit PROVE LedgerInv
  OBVIOUS
<1>1. month \in Month /\ 0 \in Month
  BY TriageConstants DEF TriageInit, Month
<1>2. Idle \in CallState /\ Booking(Idle)
  <2>1. Idle.since <= month
    BY DEF TriageInit, Idle
  <2> QED BY <1>1, <2>1 DEF Idle, CallState, CallStage, Booking
<1>3. IsFiniteSet(modelCalls) /\ Cardinality(modelCalls) = 0
  BY FS_EmptySet DEF TriageInit
<1>4. ASSUME NEW m \in Month PROVE tokens[m] = UsedTotal(m) + HeldTotal(m)
  <2>1. UsedTotal(m) = 0
    BY TotalOfNothing DEF TriageInit, UsedTotal
  <2>2. \A c \in Caller : HeldIn(m, asking[c]) = 0
    BY DEF TriageInit, HeldIn, Idle
  <2>3. HeldTotal(m) = 0
    BY <2>2, TotalOfNothing DEF HeldTotal
  <2> QED BY <2>1, <2>3 DEF TriageInit
<1>5. LedgerAccounts
  BY <1>4 DEF LedgerAccounts, UsedTotal, HeldTotal
<1>6. Unclassified \in Outcomes
  BY DEF Outcomes
<1> QED BY <1>1, <1>2, <1>3, <1>5, <1>6 DEF TriageInit, LedgerInv, CacheServesFirstAnswers

LEMMA LedgerStep == LedgerInv /\ [TriageNext]_triageVars => LedgerInv'
<1> SUFFICES ASSUME LedgerInv, [TriageNext]_triageVars PROVE LedgerInv'
  OBVIOUS
<1>0. \A d \in Caller : asking[d] \in CallState /\ Booking(asking[d])
  BY DEF LedgerInv
<1>a. 0 \in Month /\ Idle \in CallState /\ Idle.at = "idle" /\ Idle.booked = 0 /\ Idle.used = 0 /\ Idle.since = 0 /\ 0 <= month
  BY TriageConstants DEF Idle, CallState, CallStage, Month, LedgerInv
<1>b. classified \in [Reply -> Outcomes] /\ stopped \subseteq Reply /\ upset \subseteq Month /\ month \in Month
  BY DEF LedgerInv
<1>c. month \in Nat /\ \A d \in Caller : asking[d].since <= month
  BY <1>0, TriageConstants DEF LedgerInv, Month, Booking
<1>1. ASSUME NEW c \in Caller, NEW place \in CallStage, Goes(c, place),
             asking[c].at \in {"suppress", "look", "call"},
             place = "release" <=> asking[c].at = "call", place \in {"persist", "reserve", "release"},
             UNCHANGED <<month, opened, tokens, modelCalls, classified, upset>>, stopped' \subseteq Reply
      PROVE  LedgerInv'
  <2>1. PICK next : next = [asking[c] EXCEPT !.at = place]
    OBVIOUS
  <2>2. next \in CallState
    BY <1>0, <2>1 DEF CallState
  <2>3. asking' = [asking EXCEPT ![c] = next]
    BY <1>1, <2>1 DEF Goes
  <2>4. next.at = place /\ next.booked = asking[c].booked /\ next.used = asking[c].used
        /\ next.since = asking[c].since /\ next.reply = asking[c].reply
    BY <1>0, <2>1 DEF CallState
  <2>5. Booking(next)
    BY <1>0, <1>1, <2>4 DEF Booking
  <2>6. \A m \in Month : HeldIn(m, next) = HeldIn(m, asking[c])
    BY <1>1, <2>4 DEF HeldIn
  <2> QED BY <1>1, <1>b, <2>2, <2>3, <2>5, <2>6, CallStep
<1>2. ASSUME NEW c \in Caller, NEW r \in Reply, Classify(c, r) PROVE LedgerInv'
  <2>1. PICK next : next = [Idle EXCEPT !.at = IF r \in Keyword THEN "suppress" ELSE "look", !.reply = r]
    OBVIOUS
  <2>2. next \in CallState
    BY <1>a, <2>1 DEF CallState, CallStage
  <2>3. next.at \in {"suppress", "look"} /\ next.booked = 0 /\ next.used = 0 /\ next.reply \in Reply
        /\ next.since = 0
    BY <2>1 DEF Idle
  <2>4. asking' = [asking EXCEPT ![c] = next] /\ asking[c] = Idle
    BY <1>2, <2>1 DEF Classify
  <2>5. Booking(next)
    BY <1>a, <2>3 DEF Booking
  <2>6. \A m \in Month : HeldIn(m, next) = HeldIn(m, asking[c])
    BY <1>a, <2>3, <2>4 DEF HeldIn
  <2> QED BY <1>2, <1>b, <2>2, <2>4, <2>5, <2>6, CallStep DEF Classify
<1>3. ASSUME NEW c \in Caller, AddProtection(c) PROVE LedgerInv'
  <2>1. stopped' \subseteq Reply
    BY <1>0, <1>3, <1>b DEF AddProtection, Booking
  <2> QED BY <1>1, <1>3, <2>1 DEF AddProtection, CallStage
<1>4. ASSUME NEW c \in Caller, Miss(c) PROVE LedgerInv'
  BY <1>1, <1>4, <1>b DEF Miss, CallStage
<1>5. ASSUME NEW c \in Caller, VendorThrows(c) PROVE LedgerInv'
  BY <1>1, <1>5, <1>b DEF VendorThrows, CallStage
<1>6. ASSUME NEW c \in Caller, Answer(c) PROVE LedgerInv'
  <2>1. PICK used \in Usage, valid \in BOOLEAN :
          asking' = [asking EXCEPT ![c] = [@ EXCEPT !.at = "settle", !.used = used, !.valid = valid]]
    BY <1>6 DEF Answer
  <2>2. PICK next : next = [asking[c] EXCEPT !.at = "settle", !.used = used, !.valid = valid]
    OBVIOUS
  <2>3. next \in CallState
    BY <1>0, <2>2, TriageConstants DEF CallState, CallStage
  <2>4. asking' = [asking EXCEPT ![c] = next]
    BY <2>1, <2>2
  <2>5. next.at = "settle" /\ next.booked = asking[c].booked
        /\ next.since = asking[c].since /\ next.reply = asking[c].reply /\ asking[c].at = "call"
    BY <1>0, <1>6, <2>2 DEF CallState, Answer
  <2>6. Booking(next)
    BY <1>0, <1>6, <2>5 DEF Booking, Answer
  <2>7. \A m \in Month : HeldIn(m, next) = HeldIn(m, asking[c])
    BY <2>5 DEF HeldIn
  <2> QED BY <1>6, <1>b, <2>3, <2>4, <2>6, <2>7, CallStep DEF Answer
<1>7. ASSUME NEW c \in Caller, Persist(c) PROVE LedgerInv'
  <2>1. PICK next : next = Idle
    OBVIOUS
  <2>2. asking' = [asking EXCEPT ![c] = next] /\ asking[c].at = "persist"
    BY <1>7, <2>1 DEF Persist
  <2>3. classified' \in [Reply -> Outcomes]
    <3>1. asking[c].valid \in BOOLEAN
      BY <1>0 DEF CallState
    <3>2. PICK filed : filed = IF asking[c].reply \in Keyword THEN [by |-> "deterministic", label |-> TRUE]
                               ELSE [by |-> "model", label |-> asking[c].valid]
      OBVIOUS
    <3>3. filed \in Outcomes
      BY <3>1, <3>2 DEF Outcomes
    <3>4. classified' = [classified EXCEPT ![asking[c].reply] = filed]
      BY <1>7, <3>2 DEF Persist
    <3> QED BY <1>b, <3>3, <3>4
  <2>4. Booking(next)
    BY <1>a, <2>1 DEF Booking
  <2>5. \A m \in Month : HeldIn(m, next) = HeldIn(m, asking[c])
    BY <1>0, <1>a, <2>1, <2>2 DEF HeldIn, Booking
  <2> QED BY <1>7, <1>a, <1>b, <2>1, <2>2, <2>3, <2>4, <2>5, CallStep DEF Persist
<1>8. ASSUME NEW c \in Caller, CallerDies(c) PROVE LedgerInv'
  <2>1. PICK next : next = Idle
    OBVIOUS
  <2>2. asking' = [asking EXCEPT ![c] = next]
    BY <1>8, <2>1 DEF CallerDies
  <2>3. asking[c].booked \in Nat /\ asking[c].used \in Nat /\ asking[c].since \in Month
    BY <1>0 DEF CallState
  <2>4. upset \subseteq upset' /\ upset' \subseteq Month
    BY <1>8, <1>b, <2>3 DEF CallerDies
  <2>5. Booking(next)
    BY <1>a, <2>1 DEF Booking
  <2>6. ASSUME NEW m \in Month \ upset' PROVE HeldIn(m, next) = HeldIn(m, asking[c])
    <3>1. CASE asking[c].booked + asking[c].used > 0
      BY <1>8, <1>a, <2>1, <2>6, <3>1 DEF CallerDies, HeldIn
    <3>2. CASE ~(asking[c].booked + asking[c].used > 0)
      <4>1. asking[c].booked = 0 /\ asking[c].used = 0
        BY <2>3, <3>2
      <4> QED BY <1>a, <2>1, <4>1 DEF HeldIn
    <3> QED BY <3>1, <3>2
  <2> QED BY <1>8, <1>a, <1>b, <2>1, <2>2, <2>4, <2>5, <2>6, CallStep DEF CallerDies
<1>9. ASSUME NEW c \in Caller, ServeCached(c) PROVE LedgerInv'
  <2>1. PICK next : next = [asking[c] EXCEPT !.at = "persist"]
    OBVIOUS
  <2>2. next \in CallState
    BY <1>0, <2>1 DEF CallState, CallStage
  <2>3. asking' = [asking EXCEPT ![c] = next] /\ asking[c].at = "look"
    BY <1>9, <2>1 DEF ServeCached, Goes
  <2>4. next.at = "persist" /\ next.booked = asking[c].booked /\ next.used = asking[c].used
        /\ next.since = asking[c].since /\ next.reply = asking[c].reply
    BY <1>0, <2>1 DEF CallState
  <2>5. asking[c].booked = 0 /\ asking[c].used = 0 /\ asking[c].reply \in Reply /\ asking[c].since \in Month
    BY <1>0, <2>3 DEF Booking, CallState
  <2>6. Booking(next)
    BY <1>c, <2>4, <2>5 DEF Booking
  <2>7. PICK new : new = [id |-> Cardinality(modelCalls), body |-> Body[asking[c].reply], status |-> "ok",
                          hit |-> TRUE, used |-> 0, month |-> asking[c].since]
    OBVIOUS
  <2>8. new \in CallRow
    BY <2>5, <2>7, FS_CardinalityType DEF LedgerInv, CallRow
  <2>9. modelCalls' = modelCalls \cup {new}
    BY <1>9, <2>7 DEF ServeCached, Insert
  <2>10. \A m \in Month : HeldIn(m, next) + UsedIn(m, new) = HeldIn(m, asking[c])
    <3>1. new.used = 0 /\ new.month = asking[c].since
      BY <2>7
    <3>2. \A m \in Month : HeldIn(m, next) = 0 /\ UsedIn(m, new) = 0 /\ HeldIn(m, asking[c]) = 0
      BY <2>4, <2>5, <3>1 DEF HeldIn, UsedIn
    <3> QED BY <3>2
  <2>11. \E entry \in modelCalls : ~entry.hit /\ entry.body = new.body /\ entry.status = "ok"
    <3>1. PICK found \in modelCalls : found.body = Body[asking[c].reply] /\ found.status = "ok"
      BY <1>9 DEF ServeCached, Cached
    <3>2. CASE found.hit
      BY <2>7, <3>1, <3>2 DEF LedgerInv, CacheServesFirstAnswers
    <3>3. CASE ~found.hit
      BY <2>7, <3>1, <3>3
    <3> QED BY <3>2, <3>3
  <2>12. new.id = Cardinality(modelCalls)
    BY <2>7
  <2> QED BY <1>9, <2>2, <2>3, <2>6, <2>8, <2>9, <2>10, <2>11, <2>12, RecordingStep DEF ServeCached
<1>10. ASSUME NEW c \in Caller, RecordCall(c) PROVE LedgerInv'
  <2>0. PICK a : a = asking[c]
    OBVIOUS
  <2>1. PICK verdict : verdict = CASE a.valid /\ a.attempt = 1 -> "ok"
                                 [] a.valid /\ a.attempt = 2 -> "retry_ok"
                                 [] ~a.valid /\ a.attempt = 1 -> "schema_violation"
                                 [] ~a.valid /\ a.attempt = 2 -> "escalated"
    OBVIOUS
  <2>2. a \in CallState /\ a.valid \in BOOLEAN /\ a.attempt \in {1, 2} /\ Booking(a) /\ a.at = "record"
    BY <1>0, <1>10, <2>0 DEF CallState, RecordCall
  <2>3. verdict \in {"ok", "retry_ok", "schema_violation", "escalated"}
    <3>1. CASE a.valid /\ a.attempt = 1
      BY <2>1, <3>1
    <3>2. CASE a.valid /\ a.attempt = 2
      BY <2>1, <3>2
    <3>3. CASE ~a.valid /\ a.attempt = 1
      BY <2>1, <3>3
    <3>4. CASE ~a.valid /\ a.attempt = 2
      BY <2>1, <3>4
    <3> QED BY <2>2, <3>1, <3>2, <3>3, <3>4
  <2>4. /\ Insert(c, verdict, FALSE, a.used)
        /\ IF verdict = "schema_violation"
           THEN asking' = [asking EXCEPT ![c] = [@ EXCEPT !.at = "reserve", !.attempt = 2, !.used = 0]]
           ELSE asking' = [asking EXCEPT ![c] = [@ EXCEPT !.at = "persist", !.used = 0]]
        /\ UNCHANGED <<month, opened, tokens, classified, stopped, upset>>
    BY <1>10, <2>0, <2>1 DEF RecordCall
  <2>5. PICK next : next = IF verdict = "schema_violation"
                           THEN [a EXCEPT !.at = "reserve", !.attempt = 2, !.used = 0]
                           ELSE [a EXCEPT !.at = "persist", !.used = 0]
    OBVIOUS
  <2>6. asking' = [asking EXCEPT ![c] = next]
    BY <2>0, <2>4, <2>5
  <2>7. next \in CallState
    <3>1. CASE verdict = "schema_violation"
      <4>1. next = [a EXCEPT !.at = "reserve", !.attempt = 2, !.used = 0]
        BY <2>5, <3>1
      <4>2. "reserve" \in CallStage /\ 2 \in 1 .. 2 /\ 0 \in Nat
        BY DEF CallStage
      <4> QED BY <2>2, <4>1, <4>2 DEF CallState
    <3>2. CASE verdict # "schema_violation"
      BY <2>2, <2>5, <3>2 DEF CallState, CallStage
    <3> QED BY <3>1, <3>2
  <2>8. a.booked = 0 /\ a.used \in Nat /\ a.since \in Month /\ a.reply \in Reply
    BY <2>2 DEF Booking, CallState
  <2>9. next.at \in {"reserve", "persist"} /\ next.booked = 0 /\ next.used = 0 /\ next.reply \in Reply
        /\ next.since = a.since
    BY <2>2, <2>5, <2>8 DEF CallState
  <2>10. Booking(next)
    BY <1>c, <2>0, <2>9 DEF Booking
  <2>11. PICK new : new = [id |-> Cardinality(modelCalls), body |-> Body[a.reply], status |-> verdict,
                           hit |-> FALSE, used |-> a.used, month |-> a.since]
    OBVIOUS
  <2>12. new \in CallRow
    BY <2>3, <2>8, <2>11, FS_CardinalityType DEF LedgerInv, CallRow
  <2>13. modelCalls' = modelCalls \cup {new}
    BY <2>0, <2>4, <2>11 DEF Insert
  <2>14. ASSUME NEW m \in Month PROVE HeldIn(m, next) + UsedIn(m, new) = HeldIn(m, asking[c])
    <3>1. HeldIn(m, next) = 0
      BY <2>9 DEF HeldIn
    <3>2. UsedIn(m, new) = IF a.since = m THEN a.used ELSE 0
      BY <2>11 DEF UsedIn
    <3>3. HeldIn(m, asking[c]) = IF a.since # m THEN 0 ELSE a.used
      BY <2>0, <2>2 DEF HeldIn
    <3> QED BY <3>1, <3>2, <3>3, <2>8
  <2>15. new.id = Cardinality(modelCalls) /\ ~new.hit
    BY <2>11
  <2> QED BY <2>4, <2>6, <2>7, <2>10, <2>12, <2>13, <2>14, <2>15, RecordingStep
<1>11. ASSUME NEW c \in Caller, Release(c) PROVE LedgerInv'
  <2>1. PICK next : next = Idle
    OBVIOUS
  <2>2. asking' = [asking EXCEPT ![c] = next] /\ asking[c].at = "release"
    BY <1>11, <2>1 DEF Release
  <2>3. asking[c].booked \in Nat /\ asking[c].booked > 0 /\ asking[c].since \in Month
    BY <1>0, <2>2 DEF CallState, Booking
  <2>4. Booking(next)
    BY <1>a, <2>1 DEF Booking
  <2>5. PICK delta : delta = 0 - asking[c].booked
    OBVIOUS
  <2>6. ASSUME NEW m \in Month
        PROVE  HeldIn(m, next) = HeldIn(m, asking[c]) + (IF m = asking[c].since THEN delta ELSE 0)
    <3>1. HeldIn(m, next) = 0
      BY <1>a, <2>1 DEF HeldIn
    <3>2. HeldIn(m, asking[c]) = IF asking[c].since # m THEN 0 ELSE asking[c].booked
      BY <2>2 DEF HeldIn
    <3> QED BY <2>3, <2>5, <3>1, <3>2
  <2>7. delta \in Int /\ Correct(delta)
    BY <1>11, <2>3, <2>5 DEF Release
  <2>8. UNCHANGED <<month, opened, modelCalls, classified, stopped, upset>>
    BY <1>11 DEF Release
  <2> QED BY <1>a, <2>1, <2>2, <2>3, <2>4, <2>6, <2>7, <2>8, CorrectingStep
<1>12. ASSUME NEW c \in Caller, SettleCall(c) PROVE LedgerInv'
  <2>1. PICK next : next = [asking[c] EXCEPT !.at = "record", !.booked = 0]
    OBVIOUS
  <2>2. asking' = [asking EXCEPT ![c] = next] /\ asking[c].at = "settle"
    BY <1>12, <2>1 DEF SettleCall
  <2>3. asking[c].booked \in Nat /\ asking[c].booked > 0 /\ asking[c].since \in Month /\ asking[c].used \in Nat
        /\ asking[c].reply \in Reply
    BY <1>0, <2>2 DEF CallState, Booking
  <2>4. next \in CallState
    BY <1>0, <2>1 DEF CallState, CallStage
  <2>5. next.at = "record" /\ next.booked = 0 /\ next.used = asking[c].used
        /\ next.since = asking[c].since /\ next.reply = asking[c].reply
    BY <1>0, <2>1 DEF CallState
  <2>6. Booking(next)
    BY <1>c, <2>3, <2>5 DEF Booking
  <2>7. PICK delta : delta = asking[c].used - asking[c].booked
    OBVIOUS
  <2>8. ASSUME NEW m \in Month
        PROVE  HeldIn(m, next) = HeldIn(m, asking[c]) + (IF m = asking[c].since THEN delta ELSE 0)
    <3>1. HeldIn(m, next) = IF asking[c].since # m THEN 0 ELSE asking[c].used
      BY <2>5 DEF HeldIn
    <3>2. HeldIn(m, asking[c]) = IF asking[c].since # m THEN 0 ELSE asking[c].booked
      BY <2>2 DEF HeldIn
    <3> QED BY <2>3, <2>7, <3>1, <3>2
  <2>9. delta \in Int /\ Correct(delta)
    BY <1>12, <2>3, <2>7 DEF SettleCall
  <2>10. UNCHANGED <<month, opened, modelCalls, classified, stopped, upset>>
    BY <1>12 DEF SettleCall
  <2> QED BY <2>2, <2>3, <2>4, <2>6, <2>8, <2>9, <2>10, CorrectingStep
<1>13. ASSUME NEW c \in Caller, Reserve(c) PROVE LedgerInv'
  <2>1. asking[c].at = "reserve" /\ asking[c].booked = 0 /\ asking[c].used = 0 /\ asking[c].reply \in Reply
    BY <1>0, <1>13 DEF Reserve, Booking
  <2>2. \A m \in Month : HeldIn(m, asking[c]) = 0
    BY <2>1 DEF HeldIn
  <2>3. CASE tokens[month] + Estimate <= Budget
    <3>1. PICK next : next = [asking[c] EXCEPT !.at = "call", !.booked = Estimate, !.since = month]
      OBVIOUS
    <3>2. /\ asking' = [asking EXCEPT ![c] = next]
          /\ opened' = opened \cup {month} /\ tokens' = [tokens EXCEPT ![month] = @ + Estimate]
          /\ UNCHANGED <<month, modelCalls, classified, stopped, upset>>
      BY <1>13, <2>3, <3>1 DEF Reserve
    <3>3. next \in CallState
      BY <1>0, <1>b, <3>1, TriageConstants DEF CallState, CallStage
    <3>4. next.at = "call" /\ next.booked = Estimate /\ next.used = 0 /\ next.since = month
          /\ next.reply = asking[c].reply
      BY <1>0, <2>1, <3>1 DEF CallState
    <3>5. Booking(next)'
      <4>1. next.since <= month'
        BY <1>c, <3>2, <3>4
      <4> QED BY <2>1, <3>2, <3>4, <4>1, TriageConstants DEF Booking
    <3>6. asking' \in [Caller -> CallState] /\ (\A d \in Caller : Booking(asking[d]))'
      BY <3>2, <3>3, <3>5, CallsStayBooked
    <3>7. tokens \in [Month -> Nat]
      BY DEF LedgerInv
    <3>8. tokens' \in [Month -> Nat] /\ \A m \in Month : tokens'[m] = IF m = month THEN tokens[m] + Estimate ELSE tokens[m]
      BY <1>b, <3>2, <3>7, TriageConstants
    <3>9. ASSUME NEW m \in Month, m \notin upset PROVE tokens'[m] = UsedTotal(m)' + HeldTotal(m)'
      <4>1. tokens[m] = UsedTotal(m) + HeldTotal(m) /\ UsedTotal(m) \in Nat
        BY <3>9, TotalsAreNats DEF LedgerInv, LedgerAccounts, UsedTotal, HeldTotal
      <4>2. HeldTotal(m)' = HeldTotal(m) - HeldIn(m, asking[c]) + HeldIn(m, next) /\ HeldTotal(m) \in Nat
        BY <3>2, <3>3, HeldFollows
      <4>3. HeldIn(m, next) = IF m = month THEN Estimate ELSE 0
        BY <3>4 DEF HeldIn
      <4>4. UsedTotal(m)' = UsedTotal(m)
        BY <3>2 DEF UsedTotal
      <4> QED BY <2>2, <3>8, <4>1, <4>2, <4>3, <4>4, TriageConstants
    <3>10. LedgerAccounts'
      BY <3>2, <3>9 DEF LedgerAccounts, UsedTotal, HeldTotal, Month
    <3>11. CacheServesFirstAnswers'
      BY <3>2 DEF LedgerInv, CacheServesFirstAnswers
    <3>12. opened' \subseteq Month
      BY <1>b, <3>2 DEF LedgerInv
    <3> QED BY <3>2, <3>6, <3>8, <3>10, <3>11, <3>12 DEF LedgerInv, Month
  <2>4. CASE ~(tokens[month] + Estimate <= Budget)
    <3>1. PICK next : next = Idle
      OBVIOUS
    <3>2. asking' = [asking EXCEPT ![c] = next] /\ UNCHANGED <<month, opened, tokens, modelCalls, classified, stopped, upset>>
      BY <1>13, <2>4, <3>1 DEF Reserve
    <3>3. Booking(next)
      BY <1>a, <3>1 DEF Booking
    <3>4. \A m \in Month : HeldIn(m, next) = HeldIn(m, asking[c])
      BY <1>a, <2>2, <3>1 DEF HeldIn
    <3> QED BY <1>a, <1>b, <3>1, <3>2, <3>3, <3>4, CallStep
  <2> QED BY <2>3, <2>4
<1>14. CASE MonthEnds
  <2>1. month' = month + 1 /\ month' \in Month /\ upset \subseteq upset'
        /\ UNCHANGED <<opened, tokens, asking, modelCalls, classified, stopped>>
    BY <1>14, <1>b, TriageConstants DEF MonthEnds, Month
  <2>2. upset' \subseteq Month
    BY <1>14, <1>b, <2>1 DEF MonthEnds
  <2>3. \A d \in Caller : asking[d].since <= month'
    BY <1>0, <1>c, <2>1 DEF CallState, Month
  <2>4. ASSUME NEW d \in Caller PROVE Booking(asking[d])'
    <3>1. CASE asking[d].booked > 0
      <4>1. upset' = upset \cup {month, month + 1}
        BY <1>14, <3>1 DEF MonthEnds
      <4>2. asking[d].since = month \/ asking[d].since \in upset
        BY <1>0, <3>1 DEF Booking
      <4>3. asking[d].since # month' => {asking[d].since, month'} \subseteq upset'
        BY <2>1, <4>1, <4>2
      <4>4. asking[d].since <= month /\ asking[d].since # month'
        BY <1>0, <2>1, <1>b DEF Booking, Month, CallState
      <4> QED BY <1>0, <2>1, <2>3, <3>1, <4>3, <4>4 DEF Booking
    <3>2. CASE ~(asking[d].booked > 0)
      BY <1>0, <2>1, <2>3, <3>2 DEF Booking
    <3> QED BY <3>1, <3>2
  <2>5. LedgerAccounts'
    BY <2>1 DEF LedgerInv, LedgerAccounts, UsedIn, HeldIn, Month
  <2> QED BY <2>1, <2>2, <2>4, <2>5 DEF LedgerInv, CacheServesFirstAnswers, Month
<1>15. CASE UNCHANGED triageVars
  BY <1>15 DEF triageVars, LedgerInv, LedgerAccounts, CacheServesFirstAnswers, UsedIn, HeldIn, Booking, Month
<1> QED
  BY <1>2, <1>3, <1>4, <1>5, <1>6, <1>7, <1>8, <1>9, <1>10, <1>11, <1>12, <1>13, <1>14, <1>15 DEF TriageNext

LEMMA TriagePromise == LedgerInv => TriageTypeOK /\ LedgerAccounts /\ CacheServesFirstAnswers
BY DEF LedgerInv, TriageTypeOK, CallState, CallStage, CallRow

(***************************************************************************)
(* For any callers, replies, budget, estimate, usage and faults: the       *)
(* ledger of a month is what its calls in flight booked plus what its      *)
(* recorded calls used, save for a month in which a call died or which a   *)
(* call outlived, and the cache serves only what the model answered at the *)
(* first attempt (budget.ts, classifier.ts).                               *)
(***************************************************************************)
THEOREM TriageKeepsItsPromise == ServicesSpec => []TriageHolds
<1>1. ServicesInit => LedgerInv
  BY LedgerStart DEF ServicesInit
<1>2. LedgerInv /\ [ServicesNext]_servicesVars => LedgerInv'
  <2>1. [ServicesNext]_servicesVars => [TriageNext]_triageVars
    BY DEF ServicesNext, servicesVars
  <2> QED BY <2>1, LedgerStep
<1>3. LedgerInv => TriageHolds
  BY TriagePromise DEF TriageHolds
<1> QED BY <1>1, <1>2, <1>3, PTL DEF ServicesSpec

-----------------------------------------------------------------------------
(* The checkout                                                            *)

Ordered == [address : Address, number : OrderNumber, placed : Nat, after : Nat]
LiveSend == [at : Nat, by : {"flush", "overtaken", "worker"}]
Before == {"claim", "look", "contact", "order"}
After == {"queue", "budget", "flush"}
CartState == [at : {"none"} \cup Before \cup After, address : Address \cup {"none"}, phone : Phone \cup {NoPhone},
              known : BOOLEAN, orders : Nat, tries : Nat, sends : Nat]

ShopTypes ==
    /\ today \in 0 .. MaxTime
    /\ contacts \in [Address -> Phone \cup {NoPhone, NoContact}]
    /\ orders \in Seq(Ordered) /\ sends \in Seq(LiveSend)
    /\ waiting \subseteq DOMAIN orders
    /\ cart \in [Shopper -> CartState]

\* What was let in is a cooldown after what was there; what was written came
\* from somebody let in.
OrdersKept ==
    /\ \A i, j \in DOMAIN orders : i # j => orders[i].number # orders[j].number
    /\ \A i \in DOMAIN orders : orders[i].address \in Known
    /\ CooldownUnlessRaced

\* At the time of a send that a checkout made in time, the sends of the day
\* before it and itself were within the budget.
SendsKept ==
    /\ \A j \in DOMAIN sends : sends[j].at <= today
    /\ \A i, j \in DOMAIN sends : i <= j => sends[i].at <= sends[j].at
    /\ \A j \in DOMAIN sends : sends[j].by = "flush" =>
          Cardinality({i \in 1 .. j : sends[i].at + Day > sends[j].at}) <= DailyBudget

\* There is room for a send.
Room == Cardinality(Recent) + 1 <= DailyBudget

\* What a cart remembers of what it read still bounds what is there.
CartFits(c) ==
    /\ c.tries < Tries
    /\ c.at \in Before =>
          /\ c.address \in Address /\ c.orders <= Len(orders)
          /\ \A i \in 1 .. c.orders : orders[i].address = c.address => orders[i].placed + Cooldown <= today
    /\ c.at = "order" => c.address \in Known
    /\ c.at \in After => c.orders \in DOMAIN orders
    /\ c.at = "flush" =>
          /\ c.sends <= Len(sends)
          /\ c.sends = Len(sends) /\ c.orders \in waiting => Room

CartsKept ==
    /\ \A s \in Shopper : CartFits(cart[s])
    /\ \A s, t \in Shopper : s # t /\ cart[s].at \in After /\ cart[t].at \in After => cart[s].orders # cart[t].orders

ShopInv == ShopTypes /\ OrdersKept /\ SendsKept /\ CartsKept

LEMMA EmptyCart == Empty \in CartState /\ Empty.at = "none" /\ Empty.tries = 0
BY DEF Empty, CartState

LEMMA EmptyFits == CartFits(Empty)
BY EmptyCart, StorefrontConstants DEF CartFits, Before, After

LEMMA ShopStart == StoreInit => ShopInv
<1> SUFFICES ASSUME StoreInit PROVE ShopInv
  OBVIOUS
<1>1. ShopTypes
  BY EmptyCart, StorefrontConstants DEF StoreInit, ShopTypes
<1>2. orders = <<>> /\ sends = <<>> /\ \A s \in Shopper : cart[s] = Empty
  BY DEF StoreInit
<1>3. OrdersKept /\ SendsKept
  BY <1>2 DEF OrdersKept, SendsKept, CooldownUnlessRaced
<1>4. CartsKept
  BY <1>2, EmptyCart, EmptyFits DEF CartsKept, After
<1> QED BY <1>1, <1>3, <1>4 DEF ShopInv

LEMMA RecentIsFinite ==
    ASSUME sends \in Seq(LiveSend)
    PROVE  IsFiniteSet(Recent) /\ Cardinality(Recent) \in Nat
<1>1. Recent \subseteq 1 .. Len(sends)
  BY DEF Recent
<1>2. IsFiniteSet(1 .. Len(sends))
  BY FS_Interval
<1> QED BY <1>1, <1>2, FS_Subset, FS_CardinalityType

\* What a cart remembers stays good while time passes, orders and contacts are
\* added, sends leave the day or are added, and its row is not queued again.
LEMMA StillFits ==
    ASSUME ShopTypes,
           today' \in Nat, today <= today',
           orders' \in Seq(Ordered), Len(orders) <= Len(orders'),
           \A i \in DOMAIN orders : orders'[i] = orders[i],
           \A a \in Address : contacts[a] # NoContact => contacts'[a] # NoContact,
           sends' \in Seq(LiveSend),
           sends' = sends \/ Len(sends) < Len(sends')
    PROVE  \A c \in CartState :
              CartFits(c) /\ (c.at = "flush" /\ c.orders \in waiting' => c.orders \in waiting) => CartFits(c)'
<1> SUFFICES ASSUME NEW c \in CartState, CartFits(c), c.at = "flush" /\ c.orders \in waiting' => c.orders \in waiting
             PROVE  CartFits(c)'
  OBVIOUS
<1>1. DOMAIN orders = 1 .. Len(orders) /\ DOMAIN orders' = 1 .. Len(orders') /\ Len(orders) \in Nat /\ Len(orders') \in Nat
      /\ Len(sends) \in Nat /\ Len(sends') \in Nat
  BY DEF ShopTypes
<1>2. c.orders \in Nat /\ c.sends \in Nat
  BY DEF CartState
<1>3. c.at \in Before =>
          /\ c.address \in Address /\ c.orders <= Len(orders')
          /\ \A i \in 1 .. c.orders : orders'[i].address = c.address => orders'[i].placed + Cooldown <= today'
  <2> SUFFICES ASSUME c.at \in Before, NEW i \in 1 .. c.orders, orders'[i].address = c.address
               PROVE  orders'[i].placed + Cooldown <= today'
    BY <1>1, <1>2 DEF CartFits
  <2>1. i \in DOMAIN orders /\ orders'[i] = orders[i] /\ orders[i].placed \in Nat
    <3>1. i \in DOMAIN orders
      BY <1>1, <1>2 DEF CartFits
    <3>2. orders[i] \in Ordered
      BY <3>1 DEF ShopTypes
    <3> QED BY <3>1, <3>2 DEF Ordered
  <2>2. orders[i].placed + Cooldown <= today
    BY <2>1 DEF CartFits
  <2> QED BY <2>1, <2>2, StorefrontConstants DEF ShopTypes
<1>4. c.at = "order" => c.address \in Known'
  BY DEF CartFits, Known
<1>5. c.at \in After => c.orders \in DOMAIN orders'
  BY <1>1, <1>2 DEF CartFits
<1>6. c.at = "flush" =>
          /\ c.sends <= Len(sends')
          /\ c.sends = Len(sends') /\ c.orders \in waiting' => Room'
  <2>1. c.at = "flush" => c.sends <= Len(sends) /\ c.sends <= Len(sends')
    BY <1>1, <1>2 DEF CartFits
  <2>2. SUFFICES ASSUME c.at = "flush", c.sends = Len(sends'), c.orders \in waiting'
                 PROVE  Room'
    BY <2>1
  <2>3. sends' = sends
    BY <2>1, <2>2, <1>1, <1>2
  <2>4. Recent' \subseteq Recent
    <3>1. \A i \in DOMAIN sends : sends[i] \in LiveSend
      BY DEF ShopTypes
    <3>2. \A i \in DOMAIN sends : sends[i].at \in Nat
      BY <3>1 DEF LiveSend
    <3>3. \A i \in DOMAIN sends : sends[i].at + Day > today' => sends[i].at + Day > today
      BY <3>2, StorefrontConstants DEF ShopTypes
    <3> QED BY <2>3, <3>3 DEF Recent
  <2>5. Cardinality(Recent) + 1 <= DailyBudget
    BY <2>2, <2>3 DEF CartFits, Room
  <2>6. Cardinality(Recent') <= Cardinality(Recent) /\ Cardinality(Recent') \in Nat /\ Cardinality(Recent) \in Nat
    BY <2>4, RecentIsFinite, FS_Subset, FS_CardinalityType DEF ShopTypes
  <2> QED BY <2>5, <2>6, StorefrontConstants DEF Room
<1> QED BY <1>3, <1>4, <1>5, <1>6 DEF CartFits

\* A cart is exchanged for one that fits.
LEMMA CartMoves ==
    ASSUME ShopInv, NEW s \in Shopper, NEW news \in CartState, Moves(s, news),
           today' \in Nat, today <= today',
           orders' \in Seq(Ordered), Len(orders) <= Len(orders'),
           \A i \in DOMAIN orders : orders'[i] = orders[i],
           \A a \in Address : contacts[a] # NoContact => contacts'[a] # NoContact,
           sends' \in Seq(LiveSend), sends' = sends \/ Len(sends) < Len(sends'),
           \A t \in Shopper \ {s} : cart[t].at = "flush" /\ cart[t].orders \in waiting' => cart[t].orders \in waiting,
           CartFits(news)',
           news.at \in After => \A t \in Shopper \ {s} : cart[t].at \in After => cart[t].orders # news.orders
    PROVE  cart' \in [Shopper -> CartState] /\ CartsKept'
<1>1. cart' \in [Shopper -> CartState] /\ \A t \in Shopper : cart'[t] = IF t = s THEN news ELSE cart[t]
  BY DEF ShopInv, ShopTypes, Moves
<1>2. \A t \in Shopper \ {s} : cart[t] \in CartState /\ CartFits(cart[t])
  BY DEF ShopInv, ShopTypes, CartsKept
<1>3. \A c \in CartState :
         CartFits(c) /\ (c.at = "flush" /\ c.orders \in waiting' => c.orders \in waiting) => CartFits(c)'
  BY StillFits DEF ShopInv
<1>4. ASSUME NEW t \in Shopper PROVE CartFits(cart[t])'
  <2>1. CASE t = s
    <3>1. cart'[t] = news
      BY <1>1, <2>1
    <3> QED BY <3>1 DEF CartFits
  <2>2. CASE t # s
    <3>1. cart'[t] = cart[t]
      BY <1>1, <2>2
    <3>2. PICK c : c = cart[t]
      OBVIOUS
    <3>3. CartFits(c)'
      BY <1>2, <1>3, <2>2, <3>2
    <3> QED BY <3>1, <3>2, <3>3 DEF CartFits
  <2> QED BY <2>1, <2>2
<1>5. \A x, y \in Shopper : x # y /\ cart'[x].at \in After /\ cart'[y].at \in After => cart'[x].orders # cart'[y].orders
  BY <1>1 DEF ShopInv, CartsKept
<1> QED BY <1>1, <1>4, <1>5 DEF CartsKept

\* A send is added: the row it is of leaves the queue.
LEMMA SendsGrow ==
    ASSUME ShopInv, UNCHANGED today, NEW how \in {"flush", "overtaken", "worker"}, NEW i, sends' = Sent(i, how),
           how = "flush" => Room
    PROVE  SendsKept' /\ sends' \in Seq(LiveSend) /\ Len(sends') = Len(sends) + 1
<1> DEFINE n == Len(sends) + 1
<1> DEFINE news == [at |-> today, by |-> how]
<1>0. sends \in Seq(LiveSend) /\ today \in Nat /\ today' = today
  BY DEF ShopInv, ShopTypes
<1>0a. news \in LiveSend /\ news.at = today /\ news.by = how
  BY <1>0 DEF LiveSend
<1>0b. sends' = Append(sends, news)
  BY DEF Sent
<1> HIDE DEF news
<1>0c. Len(sends) \in Nat /\ DOMAIN sends = 1 .. Len(sends) /\ n \in Nat
  BY <1>0
<1>1. /\ sends' \in Seq(LiveSend) /\ Len(sends') = n /\ DOMAIN sends' = 1 .. n
      /\ \A j \in 1 .. Len(sends) : sends'[j] = sends[j]
      /\ sends'[n] = news
  BY <1>0, <1>0a, <1>0b
<1>1a. \A j \in 1 .. n : j \in 1 .. Len(sends) \/ j = n
  BY <1>0c
<1>2. \A j \in 1 .. Len(sends) : sends[j].at \in Nat /\ sends[j].at <= today
  <2>1. \A j \in 1 .. Len(sends) : sends[j] \in LiveSend
    BY <1>0, <1>0c
  <2>2. \A send \in LiveSend : send.at \in Nat
    BY DEF LiveSend
  <2> QED BY <1>0, <1>0a, <1>0c, <1>1, <1>1a, <2>1, <2>2 DEF ShopInv, SendsKept
<1> HIDE DEF n
<1>3. \A j \in 1 .. n : sends'[j].at <= today /\ sends'[j].at \in Nat
  BY <1>0, <1>0a, <1>0c, <1>1, <1>1a, <1>2
<1>4. \A j, k \in 1 .. n : j <= k => sends'[j].at <= sends'[k].at
  <2> SUFFICES ASSUME NEW j \in 1 .. n, NEW k \in 1 .. n, j <= k PROVE sends'[j].at <= sends'[k].at
    OBVIOUS
  <2>1. CASE k = n
    BY <2>1, <1>0, <1>0a, <1>0c, <1>1, <1>1a, <1>3
  <2>2. CASE k # n
    <3>1. j \in 1 .. Len(sends) /\ k \in 1 .. Len(sends)
      BY <2>2, <1>0c, <1>1, <1>1a DEF n
    <3> QED BY <3>1, <1>1 DEF ShopInv, SendsKept
  <2> QED BY <2>1, <2>2
<1>5. ASSUME NEW j \in 1 .. n, sends'[j].by = "flush"
      PROVE  Cardinality({k \in 1 .. j : sends'[k].at + Day > sends'[j].at}) <= DailyBudget
  <2>1. CASE j <= Len(sends)
    <3>1. sends'[j] = sends[j] /\ \A k \in 1 .. j : sends'[k] = sends[k]
      BY <1>0, <1>0a, <1>0c, <1>1, <1>1a, <2>1
    <3>2. {k \in 1 .. j : sends'[k].at + Day > sends'[j].at} = {k \in 1 .. j : sends[k].at + Day > sends[j].at}
      BY <3>1
    <3> QED BY <3>1, <3>2, <1>1, <1>5, <2>1 DEF ShopInv, SendsKept
  <2>2. CASE j = n
    <3> DEFINE S == {k \in 1 .. j : sends'[k].at + Day > sends'[j].at}
    <3>1. S \subseteq Recent \cup {n}
      BY <1>0, <1>0a, <1>0c, <1>1, <1>1a, <2>2 DEF Recent
    <3>2. IsFiniteSet(Recent) /\ Cardinality(Recent) \in Nat
      BY <1>0, RecentIsFinite
    <3>3. IsFiniteSet(Recent \cup {n}) /\ Cardinality(Recent \cup {n}) <= Cardinality(Recent) + 1
      BY <3>2, FS_AddElement
    <3>4. Cardinality(S) <= Cardinality(Recent \cup {n}) /\ Cardinality(S) \in Nat /\ Cardinality(Recent \cup {n}) \in Nat
      BY <3>1, <3>3, FS_Subset, FS_CardinalityType
    <3>5. Cardinality(Recent) + 1 <= DailyBudget
      BY <1>0, <1>0a, <1>0c, <1>1, <1>1a, <1>5, <2>2 DEF Room
    <3> QED BY <3>2, <3>3, <3>4, <3>5, StorefrontConstants
  <2> QED BY <1>0c, <2>1, <2>2, <1>1a
<1> QED BY <1>0, <1>1, <1>3, <1>4, <1>5 DEF SendsKept, n

LEMMA ShopStep == ShopInv /\ [StoreNext]_shopVars => ShopInv'
<1> SUFFICES ASSUME ShopInv, [StoreNext]_shopVars PROVE ShopInv'
  OBVIOUS
<1>0. /\ ShopTypes /\ OrdersKept /\ SendsKept /\ CartsKept
      /\ today \in Nat /\ Len(orders) \in Nat /\ Len(sends) \in Nat
      /\ DOMAIN orders = 1 .. Len(orders) /\ DOMAIN sends = 1 .. Len(sends)
  BY DEF ShopInv, ShopTypes
<1>1. \A s \in Shopper : cart[s] \in CartState /\ CartFits(cart[s])
  BY <1>0 DEF ShopTypes, CartsKept
\* A step of a cart alone.
<1>2. ASSUME NEW s \in Shopper, NEW news \in CartState, Moves(s, news), CartFits(news)',
             UNCHANGED <<today, contacts, orders, waiting, sends>>,
             news.at \in After => cart[s].at \in After /\ news.orders = cart[s].orders
      PROVE  ShopInv'
  <2>1. today \in Nat /\ today' \in Nat /\ today <= today' /\ orders' \in Seq(Ordered) /\ sends' \in Seq(LiveSend)
    BY <1>0, <1>2 DEF ShopTypes
  <2>2. Len(orders) <= Len(orders') /\ orders' = orders /\ sends' = sends /\ contacts' = contacts /\ waiting' = waiting
    BY <1>0, <1>2
  <2>3. news.at \in After => \A t \in Shopper \ {s} : cart[t].at \in After => cart[t].orders # news.orders
    BY <1>0, <1>2 DEF CartsKept
  <2>4. cart' \in [Shopper -> CartState] /\ CartsKept'
    BY <1>2, <2>1, <2>2, <2>3, CartMoves
  <2>5. OrdersKept' /\ SendsKept'
    BY <1>0, <1>2 DEF OrdersKept, CooldownUnlessRaced, SendsKept, Known
  <2> QED BY <1>0, <1>2, <2>4, <2>5 DEF ShopInv, ShopTypes
<1>3. ASSUME NEW s \in Shopper, Ends(s), UNCHANGED <<today, contacts, orders, waiting, sends>>
      PROVE  ShopInv'
  <2>1. CartFits(Empty)'
    BY EmptyCart, StorefrontConstants DEF CartFits, Before, After
  <2> QED BY <1>2, <1>3, <2>1, EmptyCart DEF Ends, After
<1>4. ASSUME NEW s \in Shopper, NEW a \in Address, NEW p \in Phone \cup {NoPhone}, Enter(s, a, p) PROVE ShopInv'
  <2>0. PICK news : news = [Empty EXCEPT !.at = IF p = NoPhone THEN "look" ELSE "claim",
                                         !.address = a, !.phone = p, !.orders = Len(orders)]
    OBVIOUS
  <2>1. /\ news \in CartState /\ news.at \in {"look", "claim"} /\ news.address = a /\ news.orders = Len(orders)
        /\ news.tries = 0
    BY <1>0, <2>0 DEF Empty, CartState, Before
  <2>2. Moves(s, news) /\ UNCHANGED <<today, contacts, orders, waiting, sends>> /\ Cooled(a)
    BY <1>4, <2>0 DEF Enter
  <2>3. CartFits(news)'
    BY <2>1, <2>2, <1>0, StorefrontConstants DEF CartFits, Cooled, Before, After
  <2> QED BY <1>2, <2>1, <2>2, <2>3 DEF After
<1>5. ASSUME NEW s \in Shopper, ClaimPhone(s) PROVE ShopInv'
  <2> DEFINE phone == IF Holder(cart[s].phone) \subseteq {cart[s].address} THEN cart[s].phone ELSE NoPhone
  <2>0. PICK news : news = [cart[s] EXCEPT !.at = "look", !.phone = phone]
    OBVIOUS
  <2>1. phone \in Phone \cup {NoPhone}
    BY <1>1 DEF CartState
  <2>2. Moves(s, news) /\ UNCHANGED <<today, contacts, orders, waiting, sends>> /\ cart[s].at = "claim"
    BY <1>5, <2>0 DEF ClaimPhone, At
  <2> HIDE DEF phone
  <2>3. /\ news \in CartState /\ news.at = "look" /\ news.address = cart[s].address /\ news.orders = cart[s].orders
        /\ news.tries = cart[s].tries
    BY <1>1, <2>0, <2>1 DEF CartState, Before
  <2>4. CartFits(news)'
    BY <2>2, <2>3, <1>1 DEF CartFits, Before, After
  <2> QED BY <1>2, <2>2, <2>3, <2>4 DEF After
<1>6. ASSUME NEW s \in Shopper, LookUp(s) PROVE ShopInv'
  <2> DEFINE known == cart[s].address \in Known
  <2>0. PICK news : news = [cart[s] EXCEPT !.at = "contact", !.known = known]
    OBVIOUS
  <2>1. known \in BOOLEAN
    OBVIOUS
  <2>2. Moves(s, news) /\ UNCHANGED <<today, contacts, orders, waiting, sends>> /\ cart[s].at = "look"
    BY <1>6, <2>0 DEF LookUp, At
  <2> HIDE DEF known
  <2>3. /\ news \in CartState /\ news.at = "contact" /\ news.address = cart[s].address /\ news.orders = cart[s].orders
        /\ news.tries = cart[s].tries
    BY <1>1, <2>0, <2>1 DEF CartState, Before
  <2>4. CartFits(news)'
    BY <2>2, <2>3, <1>1 DEF CartFits, Before, After
  <2> QED BY <1>2, <2>2, <2>3, <2>4 DEF After
<1>7. ASSUME NEW s \in Shopper, WriteContact(s) PROVE ShopInv'
  <2> DEFINE a == cart[s].address
             p == cart[s].phone
  <2>1. cart[s].at = "contact" /\ UNCHANGED <<today, orders, waiting, sends>> /\ a \in Address /\ p \in Phone \cup {NoPhone}
    BY <1>7, <1>1 DEF WriteContact, At, CartFits, CartState, Before
  <2>2. CASE Ends(s) /\ UNCHANGED contacts
    BY <2>1, <2>2, <1>3
  <2>3. CASE /\ contacts' = [contacts EXCEPT ![a] = IF p = NoPhone /\ contacts[a] # NoContact THEN contacts[a] ELSE p]
             /\ Moves(s, [cart[s] EXCEPT !.at = "order", !.phone = NoPhone, !.known = FALSE])
    <3>0. PICK news : news = [cart[s] EXCEPT !.at = "order", !.phone = NoPhone, !.known = FALSE]
      OBVIOUS
    <3>1. /\ news \in CartState /\ news.at = "order" /\ news.address = a /\ news.orders = cart[s].orders
          /\ news.tries = cart[s].tries
      BY <1>1, <3>0 DEF CartState, Before
    <3> HIDE DEF p
    <3>2. /\ contacts' \in [Address -> Phone \cup {NoPhone, NoContact}]
          /\ contacts'[a] # NoContact /\ \A b \in Address : contacts[b] # NoContact => contacts'[b] # NoContact
      <4>1. contacts \in [Address -> Phone \cup {NoPhone, NoContact}] /\ p # NoContact
        BY <1>0, <2>1, StorefrontConstants DEF ShopTypes
      <4> HIDE DEF a
      <4> QED BY <4>1, <2>1, <2>3
    <3>3. CartFits(news)'
      BY <2>1, <3>1, <3>2, <1>1 DEF CartFits, Before, After, Known
    <3>4. cart' \in [Shopper -> CartState] /\ CartsKept'
      <4>1. today' \in Nat /\ today <= today' /\ orders' \in Seq(Ordered) /\ Len(orders) <= Len(orders') /\ sends' \in Seq(LiveSend)
        BY <1>0, <2>1 DEF ShopTypes
      <4> QED BY <4>1, <2>1, <2>3, <3>0, <3>1, <3>2, <3>3, CartMoves DEF After
    <3>5. OrdersKept'
      BY <1>0, <2>1, <3>2 DEF OrdersKept, CooldownUnlessRaced, Known
    <3>6. SendsKept'
      BY <1>0, <2>1 DEF SendsKept
    <3> QED BY <1>0, <2>1, <3>2, <3>4, <3>5, <3>6 DEF ShopInv, ShopTypes
  <2> QED BY <1>7, <2>2, <2>3 DEF WriteContact
<1>8. ASSUME NEW s \in Shopper, NEW n \in OrderNumber, PlaceOrder(s, n) PROVE ShopInv'
  <2>1. cart[s].at = "order" /\ UNCHANGED <<today, contacts, waiting, sends>> /\ cart[s].address \in Known
        /\ cart[s].address \in Address
    BY <1>8, <1>1 DEF PlaceOrder, At, CartFits, Before
  <2>2. CASE n \in Numbers
    <3>1. UNCHANGED orders /\ (Ends(s) \/ (cart[s].tries + 1 # Tries /\ Moves(s, [cart[s] EXCEPT !.tries = cart[s].tries + 1])))
      BY <1>8, <2>2 DEF PlaceOrder, Ends
    <3>2. CASE Ends(s)
      BY <3>1, <3>2, <2>1, <1>3
    <3>3. CASE cart[s].tries + 1 # Tries /\ Moves(s, [cart[s] EXCEPT !.tries = cart[s].tries + 1])
      <4>0. PICK news : news = [cart[s] EXCEPT !.tries = cart[s].tries + 1]
        OBVIOUS
      <4>1. cart[s].tries \in Nat /\ cart[s].tries + 1 < Tries
        BY <3>3, <1>1, StorefrontConstants DEF CartFits, CartState
      <4>2. /\ news \in CartState /\ news.at = "order" /\ news.address = cart[s].address /\ news.orders = cart[s].orders
            /\ news.tries = cart[s].tries + 1
        BY <1>1, <2>1, <4>0, <4>1 DEF CartState
      <4>3. CartFits(news)'
        BY <2>1, <3>1, <4>1, <4>2, <1>1 DEF CartFits, Before, After, Known
      <4> QED BY <1>2, <2>1, <3>1, <3>3, <4>0, <4>2, <4>3 DEF After
    <3> QED BY <3>1, <3>2, <3>3
  <2>3. CASE n \notin Numbers
    <3> DEFINE order == [address |-> cart[s].address, number |-> n, placed |-> today, after |-> cart[s].orders]
    <3>0. PICK news : news = [cart[s] EXCEPT !.at = "queue", !.orders = Len(orders) + 1, !.tries = 0]
      OBVIOUS
    <3>1. orders' = Append(orders, order) /\ Moves(s, news)
      BY <1>8, <2>3, <3>0 DEF PlaceOrder
    <3>2. /\ order \in Ordered /\ order.address = cart[s].address /\ order.number = n
          /\ order.placed = today /\ order.after = cart[s].orders
      BY <1>0, <1>1, <2>1 DEF Ordered, CartState
    <3>3. news \in CartState /\ news.at = "queue" /\ news.orders = Len(orders) + 1 /\ news.tries = 0
      <4>1. Len(orders) + 1 \in Nat /\ 0 \in Nat /\ cart[s] \in CartState
        BY <1>0, <1>1
      <4> HIDE DEF order
      <4> QED BY <3>0, <4>1 DEF CartState, After
    <3> HIDE DEF order
    <3>4. /\ orders' \in Seq(Ordered) /\ Len(orders') = Len(orders) + 1 /\ DOMAIN orders' = 1 .. Len(orders) + 1
          /\ \A i \in DOMAIN orders : orders'[i] = orders[i]
          /\ orders'[Len(orders) + 1] = order
      BY <1>0, <3>1, <3>2 DEF ShopTypes
    <3>5. \A i \in DOMAIN orders' : i \in DOMAIN orders \/ i = Len(orders) + 1
      BY <1>0, <3>4
    <3>6. CartFits(news)'
      BY <1>0, <3>3, <3>4, StorefrontConstants DEF CartFits, Before, After
    <3>7. cart' \in [Shopper -> CartState] /\ CartsKept'
      <4>1. today' \in Nat /\ today <= today' /\ Len(orders) <= Len(orders') /\ sends' \in Seq(LiveSend)
        BY <1>0, <2>1, <3>4 DEF ShopTypes
      <4>2. \A t \in Shopper : cart[t].at \in After => cart[t].orders # news.orders
        BY <1>0, <1>1, <3>3 DEF CartFits
      <4> QED BY <4>1, <4>2, <2>1, <3>1, <3>3, <3>4, <3>6, CartMoves
    <3>8. OrdersKept'
      <4>1. \A i, j \in DOMAIN orders' : i # j => orders'[i].number # orders'[j].number
        BY <1>0, <2>3, <3>2, <3>4, <3>5 DEF OrdersKept, Numbers
      <4>2. \A i \in DOMAIN orders' : orders'[i].address \in Known'
        BY <1>0, <2>1, <3>2, <3>4, <3>5 DEF OrdersKept, Known
      <4>3. ASSUME NEW i \in DOMAIN orders', NEW j \in DOMAIN orders', i < j,
                   orders'[i].address = orders'[j].address, i <= orders'[j].after
            PROVE  orders'[i].placed + Cooldown <= orders'[j].placed
        <5>1. i \in DOMAIN orders
          BY <4>3, <3>4, <3>5, <1>0
        <5>2. CASE j \in DOMAIN orders
          BY <5>1, <5>2, <4>3, <3>4, <1>0 DEF OrdersKept, CooldownUnlessRaced
        <5>3. CASE j = Len(orders) + 1
          <6>1. i \in 1 .. cart[s].orders /\ orders[i].address = cart[s].address
            BY <5>1, <5>3, <4>3, <3>2, <3>4, <1>0, <1>1 DEF CartState
          <6>2. orders[i].placed + Cooldown <= today
            BY <6>1, <2>1, <1>1 DEF CartFits, Before
          <6> QED BY <6>2, <5>1, <5>3, <3>2, <3>4
        <5> QED BY <5>2, <5>3, <3>5
      <4> QED BY <4>1, <4>2, <4>3 DEF OrdersKept, CooldownUnlessRaced
    <3>9. SendsKept'
      BY <1>0, <2>1 DEF SendsKept
    <3> QED BY <1>0, <2>1, <3>4, <3>7, <3>8, <3>9 DEF ShopInv, ShopTypes
  <2> QED BY <2>2, <2>3
<1>9. ASSUME NEW s \in Shopper, NEW enrolled \in BOOLEAN, QueueConfirmation(s, enrolled) PROVE ShopInv'
  <2>0. PICK news : news = [cart[s] EXCEPT !.at = "budget"]
    OBVIOUS
  <2>1. cart[s].at = "queue" /\ UNCHANGED <<today, contacts, orders, sends>> /\ Moves(s, news)
        /\ waiting' \subseteq waiting \cup {cart[s].orders}
    BY <1>9, <2>0 DEF QueueConfirmation, At, Step
  <2>2. news \in CartState /\ news.at = "budget" /\ news.orders = cart[s].orders /\ news.tries = cart[s].tries
    BY <1>1, <2>0 DEF CartState, After
  <2>3. cart[s].orders \in DOMAIN orders
    BY <1>1, <2>1 DEF CartFits, After
  <2>4. CartFits(news)'
    BY <1>1, <2>1, <2>2, <2>3 DEF CartFits, Before, After
  <2>5. \A t \in Shopper \ {s} : cart[t].at \in After => cart[t].orders # cart[s].orders
    BY <1>0, <2>1 DEF CartsKept, After
  <2>6. cart' \in [Shopper -> CartState] /\ CartsKept'
    <3>1. today' \in Nat /\ today <= today' /\ Len(orders) <= Len(orders') /\ sends' \in Seq(LiveSend) /\ orders' \in Seq(Ordered)
      BY <1>0, <2>1 DEF ShopTypes
    <3>2. \A t \in Shopper \ {s} : cart[t].at = "flush" /\ cart[t].orders \in waiting' => cart[t].orders \in waiting
      BY <2>1, <2>5 DEF After
    <3> QED BY <3>1, <3>2, <2>1, <2>2, <2>4, <2>5, CartMoves
  <2>7. OrdersKept' /\ SendsKept'
    BY <1>0, <2>1 DEF OrdersKept, CooldownUnlessRaced, SendsKept, Known
  <2> QED BY <1>0, <2>1, <2>3, <2>6, <2>7 DEF ShopInv, ShopTypes
<1>10. ASSUME NEW s \in Shopper, CheckBudget(s) PROVE ShopInv'
  <2> DEFINE inLine == Cardinality({cart[s].orders} \cap waiting)
  <2>0. PICK news : news = [cart[s] EXCEPT !.at = "flush", !.sends = Len(sends)]
    OBVIOUS
  <2>1. cart[s].at = "budget" /\ UNCHANGED <<today, contacts, orders, waiting, sends>>
    BY <1>10 DEF CheckBudget, At
  <2>2. CASE Ends(s)
    BY <2>1, <2>2, <1>3
  <2>3. CASE ~(Cardinality(Recent) + inLine > DailyBudget) /\ Moves(s, news)
    <3>1. /\ news \in CartState /\ news.at = "flush" /\ news.orders = cart[s].orders /\ news.tries = cart[s].tries
          /\ news.sends = Len(sends)
      BY <1>0, <1>1, <2>0 DEF CartState, After
    <3>2. cart[s].orders \in waiting => Room
      <4> SUFFICES ASSUME cart[s].orders \in waiting PROVE Room
        OBVIOUS
      <4>1. {cart[s].orders} \cap waiting = {cart[s].orders}
        OBVIOUS
      <4>2. inLine = 1
        BY <4>1, FS_Singleton
      <4>3. Cardinality(Recent) \in Nat
        BY <1>0, RecentIsFinite DEF ShopTypes
      <4> QED BY <4>2, <4>3, <2>3, StorefrontConstants DEF Room
    <3>3. Recent' = Recent
      BY <2>1 DEF Recent
    <3>4. CartFits(news)'
      BY <1>0, <1>1, <2>1, <3>1, <3>2, <3>3 DEF CartFits, Before, After, Room
    <3> QED BY <1>2, <2>1, <2>3, <3>1, <3>4 DEF After
  <2> QED BY <1>10, <2>0, <2>2, <2>3 DEF CheckBudget
\* A row leaves the queue, with or without a send.
<1>11. ASSUME NEW how \in {"flush", "overtaken", "worker"}, NEW i, waiting' = waiting \ {i},
              UNCHANGED <<today, contacts, orders>>,
              sends' = sends \/ (sends' = Sent(i, how) /\ (how = "flush" => Room)),
              UNCHANGED cart \/ \E s \in Shopper : Ends(s)
       PROVE  ShopInv'
  <2>1. SendsKept' /\ sends' \in Seq(LiveSend) /\ (sends' = sends \/ Len(sends) < Len(sends'))
    <3>1. CASE sends' = sends
      BY <3>1, <1>0, <1>11 DEF SendsKept, ShopTypes
    <3>2. CASE sends' = Sent(i, how) /\ (how = "flush" => Room)
      <4>1. SendsKept' /\ sends' \in Seq(LiveSend) /\ Len(sends') = Len(sends) + 1
        BY <1>11, <3>2, SendsGrow
      <4> QED BY <4>1, <1>0
    <3> QED BY <1>11, <3>1, <3>2
  <2>2. today' \in Nat /\ today <= today' /\ Len(orders) <= Len(orders') /\ orders' \in Seq(Ordered)
    BY <1>0, <1>11 DEF ShopTypes
  <2>3. cart' \in [Shopper -> CartState] /\ CartsKept'
    <3>1. CASE UNCHANGED cart
      <4>1. \A c \in CartState :
               CartFits(c) /\ (c.at = "flush" /\ c.orders \in waiting' => c.orders \in waiting) => CartFits(c)'
        BY <1>0, <1>11, <2>1, <2>2, StillFits
      <4>2. \A c \in CartState : CartFits(c) => CartFits(c)'
        BY <1>11, <4>1
      <4>3. ASSUME NEW t \in Shopper PROVE CartFits(cart[t])'
        <5>1. PICK c : c = cart[t]
          OBVIOUS
        <5>2. CartFits(c)'
          BY <1>1, <4>2, <5>1
        <5> QED BY <3>1, <5>1, <5>2 DEF CartFits
      <4> QED BY <1>0, <3>1, <4>3 DEF CartsKept, ShopTypes
    <3>2. CASE \E s \in Shopper : Ends(s)
      <4>1. PICK s \in Shopper : Moves(s, Empty)
        BY <3>2 DEF Ends
      <4>2. CartFits(Empty)'
        BY EmptyCart, StorefrontConstants DEF CartFits, Before, After
      <4> QED BY <1>11, <2>1, <2>2, <4>1, <4>2, EmptyCart, CartMoves DEF After
    <3> QED BY <1>11, <3>1, <3>2
  <2>4. OrdersKept'
    BY <1>0, <1>11 DEF OrdersKept, CooldownUnlessRaced, Known
  <2> QED BY <1>0, <1>11, <2>1, <2>3, <2>4 DEF ShopInv, ShopTypes
<1>12. ASSUME NEW s \in Shopper, Flush(s) PROVE ShopInv'
  <2> DEFINE i == cart[s].orders
  <2>1. /\ cart[s].at = "flush" /\ waiting' = waiting \ {i} /\ Ends(s) /\ UNCHANGED <<today, contacts, orders>>
        /\ sends' = IF i \in waiting THEN Sent(i, IF cart[s].sends = Len(sends) THEN "flush" ELSE "overtaken") ELSE sends
    BY <1>12 DEF Flush, At
  <2>2. i \in waiting /\ cart[s].sends = Len(sends) => Room
    BY <1>1, <2>1 DEF CartFits
  <2>3. CASE i \notin waiting
    BY <1>11, <2>1, <2>3
  <2>4. CASE i \in waiting /\ cart[s].sends = Len(sends)
    BY <1>11, <2>1, <2>2, <2>4
  <2>5. CASE i \in waiting /\ cart[s].sends # Len(sends)
    BY <1>11, <2>1, <2>5
  <2> QED BY <2>3, <2>4, <2>5
<1>13. ASSUME NEW i \in waiting, WorkerSends(i) PROVE ShopInv'
  BY <1>11, <1>13 DEF WorkerSends
<1>14. ASSUME NEW s \in Shopper, CheckoutDies(s) PROVE ShopInv'
  BY <1>3, <1>14 DEF CheckoutDies
<1>15. ASSUME TimePasses PROVE ShopInv'
  <2>1. today' = today + 1 /\ today' \in 0 .. MaxTime /\ UNCHANGED <<contacts, orders, waiting, sends, cart>>
    BY <1>15, <1>0, StorefrontConstants DEF TimePasses, ShopTypes
  <2>2. today' \in Nat /\ today <= today' /\ Len(orders) <= Len(orders') /\ orders' \in Seq(Ordered) /\ sends' \in Seq(LiveSend)
    BY <1>0, <2>1 DEF ShopTypes
  <2>3. \A c \in CartState : CartFits(c) => CartFits(c)'
    <3>1. \A c \in CartState :
             CartFits(c) /\ (c.at = "flush" /\ c.orders \in waiting' => c.orders \in waiting) => CartFits(c)'
      BY <1>0, <2>1, <2>2, StillFits
    <3> QED BY <2>1, <3>1
  <2>4. ASSUME NEW t \in Shopper PROVE CartFits(cart[t])'
    <3>1. PICK c : c = cart[t]
      OBVIOUS
    <3>2. CartFits(c)'
      BY <1>1, <2>3, <3>1
    <3> QED BY <2>1, <3>1, <3>2 DEF CartFits
  <2>5. CartsKept'
    BY <1>0, <2>1, <2>4 DEF CartsKept
  <2>6. OrdersKept'
    BY <1>0, <2>1 DEF OrdersKept, CooldownUnlessRaced, Known
  <2>7. SendsKept'
    <3>1. \A j \in DOMAIN sends : sends[j] \in LiveSend /\ sends[j].at <= today
      BY <1>0 DEF SendsKept, ShopTypes
    <3>2. \A j \in DOMAIN sends : sends[j].at <= today'
      BY <3>1, <2>1, <1>0 DEF LiveSend
    <3> QED BY <1>0, <2>1, <3>2 DEF SendsKept
  <2> QED BY <1>0, <2>1, <2>5, <2>6, <2>7 DEF ShopInv, ShopTypes
<1>16. ASSUME UNCHANGED shopVars PROVE ShopInv'
  <2>1. UNCHANGED <<today, contacts, orders, waiting, sends, cart>>
    BY <1>16 DEF shopVars
  <2>2. Recent' = Recent
    BY <2>1 DEF Recent
  <2>3. ASSUME NEW t \in Shopper PROVE CartFits(cart[t])'
    BY <1>1, <2>1, <2>2 DEF CartFits, Known, Room
  <2> QED BY <1>0, <2>1, <2>3 DEF ShopInv, ShopTypes, OrdersKept, CooldownUnlessRaced, SendsKept, CartsKept, Known
<1> QED BY <1>4, <1>5, <1>6, <1>7, <1>8, <1>9, <1>10, <1>12, <1>13, <1>14, <1>15, <1>16 DEF StoreNext, Checkout

LEMMA ShopPromise == ShopInv => StoreTypeOK /\ CooldownUnlessRaced /\ BudgetUnlessRaced
<1> SUFFICES ASSUME ShopInv PROVE StoreTypeOK /\ CooldownUnlessRaced /\ BudgetUnlessRaced
  OBVIOUS
<1>1. StoreTypeOK
  <2>0. (\A i \in DOMAIN orders : orders[i] \in Ordered) /\ (\A i \in DOMAIN sends : sends[i] \in LiveSend)
    BY DEF ShopInv, ShopTypes
  <2>1. \A i \in DOMAIN orders : orders[i].number \in OrderNumber
    BY <2>0 DEF Ordered
  <2>2. \A i \in DOMAIN sends : sends[i].by \in {"flush", "overtaken", "worker"}
    BY <2>0 DEF LiveSend
  <2>3. \A s \in Shopper : cart[s].tries < Tries
    BY DEF ShopInv, CartsKept, CartFits
  <2> QED BY <2>1, <2>2, <2>3 DEF ShopInv, ShopTypes, OrdersKept, StoreTypeOK
<1>2. BudgetUnlessRaced
  <2> SUFFICES ASSUME \A i \in Recent : sends[i].by = "flush" PROVE Cardinality(Recent) <= DailyBudget
    BY DEF BudgetUnlessRaced
  <2>0. sends \in Seq(LiveSend) /\ DOMAIN sends = 1 .. Len(sends) /\ Len(sends) \in Nat /\ today \in Nat
    BY DEF ShopInv, ShopTypes
  <2>1. CASE Recent = {}
    BY <2>1, FS_EmptySet, StorefrontConstants
  <2>2. CASE Recent # {}
    <3> DEFINE n == Len(sends)
               S == {i \in 1 .. n : sends[i].at + Day > sends[n].at}
    <3>0. \A i \in DOMAIN sends : sends[i] \in LiveSend
      BY <2>0
    <3>1. \A i \in DOMAIN sends : sends[i].at \in Nat /\ sends[i].at <= today
      BY <3>0 DEF ShopInv, SendsKept, LiveSend
    <3>2. PICK i \in DOMAIN sends : sends[i].at + Day > today
      BY <2>2 DEF Recent
    <3>3. n \in DOMAIN sends /\ i <= n
      BY <2>0, <3>2
    <3>4. sends[i].at <= sends[n].at
      BY <3>2, <3>3 DEF ShopInv, SendsKept
    <3>5. n \in Recent
      BY <2>0, <3>1, <3>2, <3>3, <3>4, StorefrontConstants DEF Recent
    <3>6. Cardinality(S) <= DailyBudget
      BY <3>3, <3>5 DEF ShopInv, SendsKept
    <3>7. Recent \subseteq S
      BY <2>0, <3>1, <3>3, StorefrontConstants DEF Recent
    <3>8. IsFiniteSet(S)
      <4>1. IsFiniteSet(1 .. n)
        BY <2>0, FS_Interval
      <4> QED BY <4>1, FS_Subset
    <3>9. Cardinality(Recent) <= Cardinality(S) /\ Cardinality(S) \in Nat /\ Cardinality(Recent) \in Nat
      BY <3>7, <3>8, FS_Subset, FS_CardinalityType
    <3> QED BY <3>6, <3>9, StorefrontConstants
  <2> QED BY <2>1, <2>2
<1> QED BY <1>1, <1>2 DEF ShopInv, OrdersKept

(***************************************************************************)
(* For any shoppers, addresses, cooldown, budget and order numbers: two    *)
(* orders of one address are a cooldown apart and a day stays within its   *)
(* budget, save for checkouts that had all passed the check before one of  *)
(* them wrote (storefront.ts).                                             *)
(***************************************************************************)
THEOREM ShopKeepsItsPromise == ServicesSpec => []ShopHolds
<1>1. ServicesInit => ShopInv
  BY ShopStart DEF ServicesInit
<1>2. ShopInv /\ [ServicesNext]_servicesVars => ShopInv'
  <2>1. [ServicesNext]_servicesVars => [StoreNext]_shopVars
    BY DEF ServicesNext, servicesVars
  <2> QED BY <2>1, ShopStep
<1>3. ShopInv => ShopHolds
  BY ShopPromise DEF ShopHolds
<1> QED BY <1>1, <1>2, <1>3, PTL DEF ServicesSpec

-----------------------------------------------------------------------------
(* The event store and its numbers                                         *)

Figures == {"sent", "delivered", "bounced", "complained", "opens", "clicks", "clickable"}
Figure == 0 .. Cardinality(Mail)
Report == [at : {"idle", "queue", "events", "done"}, sent : Figure, delivered : Figure, bounced : Figure,
           complained : Figure, opens : Figure, clicks : Figure, clickable : Figure]
Post == [at : {"idle", "serving", "answered"}, next : 1 .. Len(Batch) + 1, tries : Nat]

\* Every row is what an endpoint writes.
RowsAreWritten ==
    \A e \in store :
       /\ e.mail \in Mail /\ e.type \in {"opened", "clicked", "converted"}
       /\ e.type = "clicked" => e.mail \in Linked
       /\ e.type # "converted" => \E d \in 0 .. LastDate, a \in Agent : e.key = <<e.type, e.mail, d, a>>
       /\ e.type = "converted" => \E i \in DOMAIN Batch : Batch[i].about = e.mail /\ Batch[i].key = e.key

IsStored(i) ==
    Batch[i].about # "unknown" =>
        \E e \in store : e.type = "converted" /\ e.mail = Batch[i].about /\ e.key = Batch[i].key

\* What the request has come past is stored.
PastIsStored ==
    /\ post.at # "idle" => \A i \in 1 .. post.next - 1 : IsStored(i)
    /\ post.at = "answered" => post.next = Len(Batch) + 1

\* What an undisturbed report has read is still so.
ReadIsSo ==
    ~behind =>
        /\ report.at # "idle" =>
              /\ report.sent = Cardinality(Mail)
              /\ report.delivered = Cardinality(With("delivered"))
              /\ report.bounced = Cardinality(With("bounced"))
              /\ report.complained = Cardinality(With("complained"))
        /\ report.at \in {"events", "done"} => report.opens = Uniques("opened") /\ report.clicks = Uniques("clicked")
        /\ report.at = "done" => report.clickable = Cardinality(With("delivered") \cap Linked)

TrackingInv ==
    /\ date \in 0 .. LastDate /\ behind \in BOOLEAN
    /\ outcome \in [Mail -> {"sent"} \cup Verdict]
    /\ post \in Post /\ report \in Report
    /\ RowsAreWritten /\ KeyedOnce /\ PastIsStored /\ ReadIsSo

LEMMA MailIsCounted ==
    /\ Cardinality(Mail) \in Nat
    /\ \A S \in SUBSET Mail : IsFiniteSet(S) /\ Cardinality(S) \in Figure
<1>1. ASSUME NEW S \in SUBSET Mail PROVE IsFiniteSet(S) /\ Cardinality(S) \in Nat /\ Cardinality(S) <= Cardinality(Mail)
  BY TrackingConstants, FS_Subset, FS_CardinalityType
<1>2. Cardinality(Mail) \in Nat
  BY TrackingConstants, FS_CardinalityType
<1> QED BY <1>1, <1>2 DEF Figure

\* Messages have at least as many as their readers are.
LEMMA ReadersAreFewer ==
    ASSUME NEW S \in SUBSET Mail, NEW T, \A r \in T : \E l \in S : r = ReaderOf[l]
    PROVE  IsFiniteSet(T) /\ Cardinality(T) \in Nat /\ Cardinality(T) <= Cardinality(S)
<1> DEFINE kept == {l \in S : ReaderOf[l] \in T}
           f == [l \in kept |-> ReaderOf[l]]
<1>1. kept \in SUBSET Mail /\ kept \in SUBSET S
  OBVIOUS
<1>2. f \in Surjection(kept, T)
  BY DEF Surjection
<1>3. IsFiniteSet(S) /\ IsFiniteSet(kept)
  BY <1>1, MailIsCounted
<1>4. IsFiniteSet(T) /\ Cardinality(T) <= Cardinality(kept)
  BY <1>2, <1>3, FS_Surjection
<1>5. Cardinality(kept) <= Cardinality(S)
  BY <1>1, <1>3, FS_Subset
<1>6. Cardinality(S) \in Nat /\ Cardinality(kept) \in Nat /\ Cardinality(T) \in Nat
  BY <1>3, <1>4, FS_CardinalityType
<1> QED BY <1>4, <1>5, <1>6

LEMMA UniquesAreFigures ==
    ASSUME RowsAreWritten, NEW type
    PROVE  Uniques(type) \in Figure
<1> DEFINE T == {ReaderOf[e.mail] : e \in {f \in store : f.type = type}}
<1>1. \A r \in T : \E l \in Mail : r = ReaderOf[l]
  BY DEF RowsAreWritten
<1>2. Cardinality(T) \in Nat /\ Cardinality(T) <= Cardinality(Mail)
  BY <1>1, ReadersAreFewer
<1> QED BY <1>2, MailIsCounted DEF Uniques, Figure

LEMMA TrackingStart == TrackingInit => TrackingInv
<1> SUFFICES ASSUME TrackingInit PROVE TrackingInv
  OBVIOUS
<1>1. Cardinality(Mail) \in Nat /\ Len(Batch) \in Nat /\ LastDate \in Nat
  BY MailIsCounted, TrackingConstants
<1>2. post \in Post /\ report \in Report /\ report.at = "idle" /\ post.at = "idle"
  BY <1>1 DEF TrackingInit, Unread, Post, Report, Figure
<1>3. /\ date \in 0 .. LastDate /\ behind \in BOOLEAN /\ store = {}
      /\ outcome \in [Mail -> {"sent"} \cup Verdict]
  <2>1. date = 0 /\ behind = FALSE
    BY DEF TrackingInit
  <2>2. store = {} /\ outcome = [l \in Mail |-> "sent"]
    BY DEF TrackingInit
  <2>3. 0 \in 0 .. LastDate
    BY <1>1
  <2> QED BY <2>1, <2>2, <2>3
<1>4. RowsAreWritten /\ KeyedOnce
  BY <1>3 DEF RowsAreWritten, KeyedOnce
<1>5. PastIsStored /\ ReadIsSo
  BY <1>2 DEF PastIsStored, ReadIsSo
<1> QED BY <1>2, <1>3, <1>4, <1>5 DEF TrackingInv

\* An insertion keeps what is stored, and keys unique.
LEMMA RecordingKeeps ==
    ASSUME TrackingInv, NEW type, NEW l \in Mail, NEW key, store' = Recorded(type, l, key)
    PROVE  /\ store \subseteq store' /\ KeyedOnce'
           /\ \A e \in store' \ store : e.type = type /\ e.mail = l /\ e.key = key
           /\ \E e \in store' : e.key = key
           /\ key = NoKey => \E e \in store' : e.key = key /\ e.type = type /\ e.mail = l
<1>1. Row(type, l, key).type = type /\ Row(type, l, key).mail = l /\ Row(type, l, key).key = key
  BY DEF Row
<1>2. CASE key # NoKey /\ \E e \in store : e.key = key
  <2>1. store' = store
    BY <1>2 DEF Recorded
  <2> QED BY <1>2, <2>1 DEF TrackingInv, KeyedOnce
<1>3. CASE ~(key # NoKey /\ \E e \in store : e.key = key)
  <2>1. PICK new : new = Row(type, l, key)
    OBVIOUS
  <2>2. store' = store \cup {new} /\ new.type = type /\ new.mail = l /\ new.key = key
    BY <1>1, <1>3, <2>1 DEF Recorded
  <2>3. KeyedOnce'
    BY <1>3, <2>2 DEF TrackingInv, KeyedOnce
  <2> QED BY <2>2, <2>3
<1> QED BY <1>2, <1>3

LEMMA TrackingStep == TrackingInv /\ [TrackingNext]_trackingVars => TrackingInv'
<1> SUFFICES ASSUME TrackingInv, [TrackingNext]_trackingVars PROVE TrackingInv'
  OBVIOUS
<1>0. /\ date \in 0 .. LastDate /\ behind \in BOOLEAN /\ outcome \in [Mail -> {"sent"} \cup Verdict]
      /\ post \in Post /\ report \in Report
      /\ RowsAreWritten /\ KeyedOnce /\ PastIsStored /\ ReadIsSo
      /\ Len(Batch) \in Nat /\ DOMAIN Batch = 1 .. Len(Batch) /\ LastDate \in Nat
      /\ \A i \in DOMAIN Batch : Batch[i].about \in Mail \cup {"unknown"}
  BY TrackingConstants DEF TrackingInv
\* What a report reads changes.
<1>1. ASSUME Disturbs, UNCHANGED report PROVE ReadIsSo' /\ behind' \in BOOLEAN
  BY <1>1, <1>0 DEF Disturbs, ReadIsSo
<1>2. ASSUME NEW l \in Mail, NEW verdict \in Verdict, ReceiptSets(l, verdict) PROVE TrackingInv'
  <2>1. outcome' \in [Mail -> {"sent"} \cup Verdict] /\ UNCHANGED <<date, store, post, report>> /\ Disturbs
    BY <1>2, <1>0 DEF ReceiptSets
  <2>2. RowsAreWritten' /\ KeyedOnce' /\ PastIsStored'
    BY <2>1, <1>0 DEF RowsAreWritten, KeyedOnce, PastIsStored, IsStored
  <2> QED BY <2>1, <2>2, <1>0, <1>1 DEF TrackingInv
<1>3. ASSUME NEW type \in {"opened", "clicked"}, NEW l \in Mail, NEW agent \in Agent,
             type = "clicked" => l \in Linked,
             store' = Recorded(type, l, <<type, l, date, agent>>), Disturbs, UNCHANGED <<date, outcome, post, report>>
      PROVE  TrackingInv'
  <2>1. PICK key : key = <<type, l, date, agent>>
    OBVIOUS
  <2>2. /\ store \subseteq store' /\ KeyedOnce'
        /\ \A e \in store' \ store : e.type = type /\ e.mail = l /\ e.key = key
    BY <1>3, <2>1, RecordingKeeps
  <2>3. RowsAreWritten'
    <3> SUFFICES ASSUME NEW e \in store'
                 PROVE  /\ e.mail \in Mail /\ e.type \in {"opened", "clicked", "converted"}
                        /\ e.type = "clicked" => e.mail \in Linked
                        /\ e.type # "converted" => \E d \in 0 .. LastDate, a \in Agent : e.key = <<e.type, e.mail, d, a>>
                        /\ e.type = "converted" => \E i \in DOMAIN Batch : Batch[i].about = e.mail /\ Batch[i].key = e.key
      BY DEF RowsAreWritten
    <3>1. CASE e \in store
      BY <3>1, <1>0 DEF RowsAreWritten
    <3>2. CASE e \notin store
      <4>1. e.type = type /\ e.mail = l /\ e.key = <<type, l, date, agent>>
        BY <2>1, <2>2, <3>2
      <4> QED BY <4>1, <1>0, <1>3
    <3> QED BY <3>1, <3>2
  <2>4. PastIsStored'
    BY <1>0, <1>3, <2>2 DEF PastIsStored, IsStored
  <2> QED BY <2>2, <2>3, <2>4, <1>0, <1>1, <1>3 DEF TrackingInv
<1>4. ASSUME PostBatch PROVE TrackingInv'
  <2>1. post' = [at |-> "serving", next |-> 1, tries |-> post.tries + 1] /\ UNCHANGED <<date, outcome, store, report, behind>>
    BY <1>4 DEF PostBatch
  <2>2. post' \in Post /\ post'.next = 1 /\ post'.at = "serving"
    BY <2>1, <1>0 DEF Post
  <2>3. PastIsStored' /\ RowsAreWritten' /\ KeyedOnce' /\ ReadIsSo'
    BY <2>1, <2>2, <1>0 DEF PastIsStored, RowsAreWritten, KeyedOnce, ReadIsSo, With, Uniques
  <2> QED BY <2>1, <2>2, <2>3, <1>0 DEF TrackingInv
<1>5. ASSUME IngestEvent PROVE TrackingInv'
  <2>0. PICK n : n = post.next
    OBVIOUS
  <2>1. /\ post.at = "serving" /\ n \in 1 .. Len(Batch)
        /\ store' = IF Batch[n].about = "unknown" THEN store ELSE Recorded("converted", Batch[n].about, Batch[n].key)
        /\ post' = [post EXCEPT !.next = n + 1] /\ Disturbs /\ UNCHANGED <<date, outcome, report>>
    BY <1>5, <1>0, <2>0 DEF IngestEvent, Post
  <2>2. post' \in Post /\ post'.next = n + 1 /\ post'.at = "serving"
    BY <1>0, <2>1 DEF Post
  <2>3. /\ store \subseteq store' /\ KeyedOnce' /\ RowsAreWritten' /\ IsStored(n)'
    <3>1. CASE Batch[n].about = "unknown"
      BY <2>1, <3>1, <1>0 DEF KeyedOnce, RowsAreWritten, IsStored
    <3>2. CASE Batch[n].about # "unknown"
      <4> DEFINE l == Batch[n].about
                 key == Batch[n].key
      <4>1. l \in Mail /\ store' = Recorded("converted", l, key)
        BY <1>0, <2>1, <3>2
      <4>2. /\ store \subseteq store' /\ KeyedOnce'
            /\ \A e \in store' \ store : e.type = "converted" /\ e.mail = l /\ e.key = key
            /\ \E e \in store' : e.key = key
            /\ key = NoKey => \E e \in store' : e.key = key /\ e.type = "converted" /\ e.mail = l
        BY <4>1, RecordingKeeps
      <4>3. RowsAreWritten'
        <5> SUFFICES ASSUME NEW e \in store'
                     PROVE  /\ e.mail \in Mail /\ e.type \in {"opened", "clicked", "converted"}
                            /\ e.type = "clicked" => e.mail \in Linked
                            /\ e.type # "converted" => \E d \in 0 .. LastDate, a \in Agent : e.key = <<e.type, e.mail, d, a>>
                            /\ e.type = "converted" => \E i \in DOMAIN Batch : Batch[i].about = e.mail /\ Batch[i].key = e.key
          BY DEF RowsAreWritten
        <5>1. CASE e \in store
          BY <5>1, <1>0 DEF RowsAreWritten
        <5>2. CASE e \notin store
          <6>1. e.type = "converted" /\ e.mail = Batch[n].about /\ e.key = Batch[n].key
            BY <4>2, <5>2
          <6> QED BY <6>1, <4>1, <1>0, <2>1
        <5> QED BY <5>1, <5>2
      <4>4. ASSUME key # NoKey PROVE \E e \in store' : e.type = "converted" /\ e.mail = l /\ e.key = key
        <5>1. PICK e \in store' : e.key = key
          BY <4>2
        <5>2. e.type = "converted"
          <6>1. e.type # "converted" => \E d \in 0 .. LastDate, a \in Agent : e.key = <<e.type, e.mail, d, a>>
            BY <4>3 DEF RowsAreWritten
          <6>2. e.type \in {"opened", "clicked", "converted"} /\ e.mail \in Mail
            BY <4>3 DEF RowsAreWritten
          <6> QED BY <5>1, <6>1, <6>2, <1>0, <2>1, ClientKeys
        <5>3. PICK i \in DOMAIN Batch : Batch[i].about = e.mail /\ Batch[i].key = e.key
          BY <5>2, <4>3 DEF RowsAreWritten
        <5>4. e.mail = l
          BY <5>1, <5>3, <4>4, <1>0, <2>1, ClientKeys
        <5> QED BY <5>1, <5>2, <5>4
      <4> QED BY <4>2, <4>3, <4>4 DEF IsStored
    <3> QED BY <3>1, <3>2
  <2>4. PastIsStored'
    <3>1. \A i \in 1 .. n - 1 : IsStored(i)
      BY <1>0, <2>0, <2>1 DEF PastIsStored
    <3>2. \A i \in 1 .. n - 1 : IsStored(i)'
      BY <2>3, <3>1 DEF IsStored
    <3>3. \A i \in 1 .. n : i \in 1 .. n - 1 \/ i = n
      BY <2>1
    <3> QED BY <2>1, <2>2, <2>3, <3>2, <3>3 DEF PastIsStored
  <2> QED BY <2>1, <2>2, <2>3, <2>4, <1>0, <1>1 DEF TrackingInv
<1>6. ASSUME AnswerBatch \/ PostDies PROVE TrackingInv'
  <2>1. PICK at \in {"idle", "answered"} :
           /\ post.at = "serving" /\ (at = "answered" => post.next > Len(Batch))
           /\ post' = [post EXCEPT !.at = at] /\ UNCHANGED <<date, outcome, store, report, behind>>
    BY <1>6 DEF AnswerBatch, PostDies
  <2>2. post' \in Post /\ post'.next = post.next /\ post'.at = at /\ post.next \in 1 .. Len(Batch) + 1
    BY <2>1, <1>0 DEF Post
  <2>3. PastIsStored'
    BY <2>1, <2>2, <1>0 DEF PastIsStored, IsStored
  <2>4. RowsAreWritten' /\ KeyedOnce' /\ ReadIsSo'
    BY <2>1, <1>0 DEF RowsAreWritten, KeyedOnce, ReadIsSo, With, Uniques
  <2> QED BY <2>1, <2>2, <2>3, <2>4, <1>0 DEF TrackingInv
\* A step of a report.
<1>7. ASSUME UNCHANGED <<date, outcome, store, post>>, report' \in Report, behind' \in BOOLEAN, ReadIsSo' PROVE TrackingInv'
  BY <1>7, <1>0 DEF TrackingInv, RowsAreWritten, KeyedOnce, PastIsStored, IsStored
<1>8. /\ \A verdict : Cardinality(With(verdict)) \in Figure
      /\ Cardinality(Mail) \in Figure /\ 0 \in Figure
      /\ Cardinality(With("delivered") \cap Linked) \in Figure
  BY MailIsCounted, TrackingConstants DEF With, Figure
<1>9. ASSUME ReadQueue PROVE TrackingInv'
  <2>1. /\ report' = [Unread EXCEPT !.at = "queue", !.sent = Cardinality(Mail),
                         !.delivered = Cardinality(With("delivered")), !.bounced = Cardinality(With("bounced")),
                         !.complained = Cardinality(With("complained"))]
        /\ behind' = FALSE /\ UNCHANGED <<date, outcome, store, post>>
    BY <1>9 DEF ReadQueue
  <2>2. /\ report' \in Report /\ report'.at = "queue" /\ report'.sent = Cardinality(Mail)
        /\ report'.delivered = Cardinality(With("delivered")) /\ report'.bounced = Cardinality(With("bounced"))
        /\ report'.complained = Cardinality(With("complained"))
    BY <2>1, <1>8 DEF Unread, Report
  <2>3. ReadIsSo'
    BY <2>1, <2>2 DEF ReadIsSo, With
  <2> QED BY <2>1, <2>2, <2>3, <1>7
<1>10. ASSUME ReadEvents PROVE TrackingInv'
  <2>1. /\ report.at = "queue"
        /\ report' = [report EXCEPT !.at = "events", !.opens = Uniques("opened"), !.clicks = Uniques("clicked")]
        /\ UNCHANGED <<date, outcome, store, post, behind>>
    BY <1>10 DEF ReadEvents
  <2>2. Uniques("opened") \in Figure /\ Uniques("clicked") \in Figure
    BY <1>0, UniquesAreFigures
  <2>3. /\ report' \in Report /\ report'.at = "events" /\ report'.sent = report.sent
        /\ report'.delivered = report.delivered /\ report'.bounced = report.bounced
        /\ report'.complained = report.complained /\ report'.opens = Uniques("opened") /\ report'.clicks = Uniques("clicked")
    BY <2>1, <2>2, <1>0 DEF Report
  <2>4. ReadIsSo'
    BY <2>1, <2>3, <1>0 DEF ReadIsSo, With, Uniques
  <2> QED BY <2>1, <2>3, <2>4, <1>0, <1>7
<1>11. ASSUME ReadClickable PROVE TrackingInv'
  <2>1. /\ report.at = "events"
        /\ report' = [report EXCEPT !.at = "done", !.clickable = Cardinality(With("delivered") \cap Linked)]
        /\ UNCHANGED <<date, outcome, store, post, behind>>
    BY <1>11 DEF ReadClickable
  <2>3. /\ report' \in Report /\ report'.at = "done" /\ report'.sent = report.sent
        /\ report'.delivered = report.delivered /\ report'.bounced = report.bounced
        /\ report'.complained = report.complained /\ report'.opens = report.opens /\ report'.clicks = report.clicks
        /\ report'.clickable = Cardinality(With("delivered") \cap Linked)
    BY <2>1, <1>8, <1>0 DEF Report
  <2>4. ReadIsSo'
    BY <2>1, <2>3, <1>0 DEF ReadIsSo, With, Uniques
  <2> QED BY <2>1, <2>3, <2>4, <1>0, <1>7
<1>12. ASSUME ReadAgain PROVE TrackingInv'
  <2>1. report' = Unread /\ behind' = FALSE /\ UNCHANGED <<date, outcome, store, post>>
    BY <1>12 DEF ReadAgain
  <2>2. report' \in Report /\ report'.at = "idle"
    BY <2>1, <1>8 DEF Unread, Report
  <2> QED BY <2>1, <2>2, <1>7 DEF ReadIsSo
<1>13. ASSUME DatePasses PROVE TrackingInv'
  <2>1. date' \in 0 .. LastDate /\ UNCHANGED <<outcome, store, post, report, behind>>
    BY <1>13, <1>0 DEF DatePasses
  <2> QED BY <2>1, <1>0 DEF TrackingInv, RowsAreWritten, KeyedOnce, PastIsStored, IsStored, ReadIsSo, With, Uniques
<1>14. ASSUME UNCHANGED trackingVars PROVE TrackingInv'
  BY <1>14, <1>0 DEF trackingVars, TrackingInv, RowsAreWritten, KeyedOnce, PastIsStored, IsStored, ReadIsSo, With, Uniques
<1> QED
  <2>1. ASSUME NEW l \in Mail, NEW agent \in Agent, OpenPixel(l, agent) \/ Redirect(l, agent) PROVE TrackingInv'
    BY <2>1, <1>3 DEF OpenPixel, Redirect
  <2> QED BY <1>2, <2>1, <1>4, <1>5, <1>6, <1>9, <1>10, <1>11, <1>12, <1>13, <1>14 DEF TrackingNext

\* Outcomes exclude one another.
LEMMA OutcomesExclude ==
    ASSUME outcome \in [Mail -> {"sent"} \cup Verdict]
    PROVE  Cardinality(With("delivered")) + Cardinality(With("bounced")) + Cardinality(With("complained")) <= Cardinality(Mail)
<1>1. /\ With("delivered") \in SUBSET Mail /\ With("bounced") \in SUBSET Mail /\ With("complained") \in SUBSET Mail
      /\ With("delivered") \cap With("bounced") = {}
      /\ (With("delivered") \cup With("bounced")) \cap With("complained") = {}
      /\ (With("delivered") \cup With("bounced")) \cup With("complained") \in SUBSET Mail
      /\ With("delivered") \cup With("bounced") \in SUBSET Mail
  BY DEF With
<1>2. PICK D, B, C : D = With("delivered") /\ B = With("bounced") /\ C = With("complained")
  OBVIOUS
<1>3. IsFiniteSet(D) /\ IsFiniteSet(B) /\ IsFiniteSet(C) /\ IsFiniteSet(D \cup B)
  BY <1>1, <1>2, MailIsCounted
<1>4. /\ Cardinality(D \cup B) = Cardinality(D) + Cardinality(B) - Cardinality(D \cap B)
      /\ Cardinality((D \cup B) \cup C) = Cardinality(D \cup B) + Cardinality(C) - Cardinality((D \cup B) \cap C)
  BY <1>3, FS_Union
<1>5. D \cap B = {} /\ (D \cup B) \cap C = {} /\ Cardinality({}) = 0
  BY <1>1, <1>2, FS_EmptySet
<1>6. Cardinality((D \cup B) \cup C) \in Figure
  BY <1>1, <1>2, MailIsCounted
<1>7. Cardinality(D) \in Nat /\ Cardinality(B) \in Nat /\ Cardinality(C) \in Nat /\ Cardinality(D \cup B) \in Nat
  BY <1>3, FS_CardinalityType
<1>8. Cardinality(D) + Cardinality(B) + Cardinality(C) = Cardinality((D \cup B) \cup C)
  <2>1. Cardinality(D \cap B) = 0 /\ Cardinality((D \cup B) \cap C) = 0
    BY <1>5
  <2> QED BY <1>4, <1>7, <2>1
<1> QED BY <1>2, <1>6, <1>8, MailIsCounted DEF Figure

LEMMA TrackingPromise == TrackingInv => TrackingTypeOK /\ KeyedOnce /\ AnsweredIsStored /\ RatesAreShares
<1> SUFFICES ASSUME TrackingInv PROVE TrackingTypeOK /\ KeyedOnce /\ AnsweredIsStored /\ RatesAreShares
  OBVIOUS
<1>1. TrackingTypeOK
  <2>1. \A count \in DOMAIN report \ {"at"} : report[count] \in 0 .. Cardinality(Mail)
    BY DEF TrackingInv, Report, Figure
  <2>2. /\ post.at \in {"idle", "serving", "answered"} /\ post.next \in 1 .. Len(Batch) + 1
        /\ report.at \in {"idle", "queue", "events", "done"}
    BY DEF TrackingInv, Post, Report
  <2> QED BY <2>1, <2>2 DEF TrackingInv, RowsAreWritten, TrackingTypeOK
<1>2. AnsweredIsStored
  <2>1. post.at = "answered" => \A i \in DOMAIN Batch : IsStored(i)
    BY TrackingConstants DEF TrackingInv, PastIsStored
  <2> QED BY <2>1 DEF AnsweredIsStored, IsStored
<1>3. RatesAreShares
  <2> SUFFICES ASSUME report.at = "done", ~behind
               PROVE  /\ report.delivered + report.bounced + report.complained <= report.sent
                      /\ Receipted("opened") => report.opens <= report.delivered
                      /\ Receipted("clicked") => report.clicks <= report.clickable
                      /\ report.clickable <= Cardinality(Linked)
    BY DEF RatesAreShares
  <2>1. /\ report.sent = Cardinality(Mail) /\ report.delivered = Cardinality(With("delivered"))
        /\ report.bounced = Cardinality(With("bounced")) /\ report.complained = Cardinality(With("complained"))
        /\ report.opens = Uniques("opened") /\ report.clicks = Uniques("clicked")
        /\ report.clickable = Cardinality(With("delivered") \cap Linked)
    BY DEF TrackingInv, ReadIsSo
  <2>2. report.delivered + report.bounced + report.complained <= report.sent
    BY <2>1, OutcomesExclude DEF TrackingInv
  <2>3. ASSUME Receipted("opened") PROVE report.opens <= report.delivered
    <3> DEFINE T == {ReaderOf[e.mail] : e \in {f \in store : f.type = "opened"}}
    <3>1. \A r \in T : \E l \in With("delivered") : r = ReaderOf[l]
      BY <2>3 DEF Receipted, With, TrackingInv, RowsAreWritten
    <3>2. Cardinality(T) <= Cardinality(With("delivered"))
      BY <3>1, ReadersAreFewer DEF With
    <3> QED BY <2>1, <3>2 DEF Uniques
  <2>4. ASSUME Receipted("clicked") PROVE report.clicks <= report.clickable
    <3> DEFINE T == {ReaderOf[e.mail] : e \in {f \in store : f.type = "clicked"}}
    <3>1. \A r \in T : \E l \in With("delivered") \cap Linked : r = ReaderOf[l]
      BY <2>4 DEF Receipted, With, TrackingInv, RowsAreWritten
    <3>2. With("delivered") \cap Linked \in SUBSET Mail
      BY DEF With
    <3>3. Cardinality(T) <= Cardinality(With("delivered") \cap Linked)
      BY <3>1, <3>2, ReadersAreFewer
    <3> QED BY <2>1, <3>3 DEF Uniques
  <2>5. report.clickable <= Cardinality(Linked)
    <3>1. IsFiniteSet(Linked) /\ With("delivered") \cap Linked \in SUBSET Linked
      BY MailIsCounted, TrackingConstants
    <3>2. Cardinality(With("delivered") \cap Linked) <= Cardinality(Linked)
      BY <3>1, FS_Subset
    <3> QED BY <2>1, <3>2
  <2> QED BY <2>2, <2>3, <2>4, <2>5
<1> QED BY <1>1, <1>2, <1>3 DEF TrackingInv

(***************************************************************************)
(* For any mail, readers, agents, client batch and retries: an event with  *)
(* a key is stored once, every event whose request was answered is stored, *)
(* and a report that nothing disturbed divides parts by their wholes once  *)
(* the receipts of what was opened or clicked are in (events.ts,           *)
(* public.ts, analytics.ts).                                               *)
(***************************************************************************)
THEOREM TrackingKeepsItsPromise == ServicesSpec => []TrackingHolds
<1>1. ServicesInit => TrackingInv
  BY TrackingStart DEF ServicesInit
<1>2. TrackingInv /\ [ServicesNext]_servicesVars => TrackingInv'
  <2>1. [ServicesNext]_servicesVars => [TrackingNext]_trackingVars
    BY DEF ServicesNext, servicesVars
  <2> QED BY <2>1, TrackingStep
<1>3. TrackingInv => TrackingHolds
  BY TrackingPromise DEF TrackingHolds
<1> QED BY <1>1, <1>2, <1>3, PTL DEF ServicesSpec

-----------------------------------------------------------------------------
(* Campaigns                                                               *)

Shot == [category : CampaignCategory, texts : SUBSET Text]
DeskOp == {"none", "archive", "pause", "patch", "activate", "test", "duplicate", "post", "edit", "delete", "flow"}
DeskStage == {"off", "write", "check", "validate", "snapshot", "commit", "queue", "campaign", "messages",
              "insert", "read", "count", "disable", "erase", "plan", "park", "wait"}
DeskRequest ==
    [op : DeskOp, at : DeskStage, on : CampaignMessage \cup {NoMessage}, wants : CampaignCategory,
     change : Change \cup {NoChange}, flow : Flows \cup {<<>>}, optOut : BOOLEAN,
     category : CampaignCategory, texts : SUBSET Text, optOutSeen : BOOLEAN, shot : Shot,
     number : Nat, plan : SUBSET CampaignMessage, visible : SUBSET CampaignMessage]

\* What a request was let past, in the category that it loaded.
Fits(d) ==
    /\ d.at = "snapshot" => d.op \in {"activate", "test"}
    /\ d.op = "patch" /\ d.at = "write" => d.wants = d.category \/ AllValid(d.texts, d.wants)
    /\ d.op = "activate" /\ d.at \in {"snapshot", "commit"} =>
          Sendable([category |-> d.category, texts |-> d.texts])
    /\ d.op = "test" /\ d.at = "queue" => d.number \in 1 .. Len(versions)
    /\ d.op \in {"post", "edit", "delete", "test"} => d.on \in CampaignMessage
    /\ d.op \in {"post", "flow"} => Valid(d.optOut, d.category)
    /\ d.op = "edit" => d.change \in Change
    /\ d.op = "edit" /\ d.at = "write" =>
          Valid(IF d.change.of = "optOut" THEN d.change.to ELSE d.optOutSeen, d.category)

DesksFit == desk \in [Operator -> DeskRequest] /\ \A o \in Operator : Fits(desk[o])

RowsFit ==
    /\ queued \subseteq [message : CampaignMessage, version : Nat, optOut : BOOLEAN]
    /\ \A rec \in queued : rec.message \in Present /\ rec.version \in 1 .. Len(versions)

CampaignInv ==
    /\ DesksFit
    /\ RowsFit
    /\ message \in [CampaignMessage -> MessageRow \cup {NoMessage}]
    /\ versions \in Seq(Shot) /\ active \in 0 .. Len(versions) /\ (status = "active" => active # 0)
    /\ status \in {"draft", "active", "paused", "archived"} /\ category \in CampaignCategory
    /\ flow \in Flows \cup {<<>>} /\ copies \subseteq Shot
    /\ requests \in 0 .. MaxRequests /\ raced \in BOOLEAN
    /\ MarketingOptOut /\ ActiveVersionSendable /\ NumbersDistinct

LEMMA TextsAreTexts ==
    ASSUME message \in [CampaignMessage -> MessageRow \cup {NoMessage}] PROVE Texts \in SUBSET Text
<1>1. \A m \in Enabled : m \in CampaignMessage /\ message[m] \in MessageRow
  BY DEF Enabled, Present
<1>2. \A m \in Enabled : message[m].optOut \in BOOLEAN
  BY <1>1 DEF MessageRow
<1> QED BY <1>1, <1>2 DEF Texts, Text

LEMMA OpsAndStages ==
    /\ "none" \in DeskOp /\ "archive" \in DeskOp /\ "pause" \in DeskOp /\ "patch" \in DeskOp /\ "activate" \in DeskOp /\ "test" \in DeskOp /\ "duplicate" \in DeskOp /\ "post" \in DeskOp /\ "edit" \in DeskOp /\ "delete" \in DeskOp /\ "flow" \in DeskOp
    /\ "off" \in DeskStage /\ "write" \in DeskStage /\ "check" \in DeskStage /\ "validate" \in DeskStage /\ "snapshot" \in DeskStage /\ "commit" \in DeskStage /\ "queue" \in DeskStage /\ "campaign" \in DeskStage /\ "messages" \in DeskStage /\ "insert" \in DeskStage /\ "read" \in DeskStage /\ "count" \in DeskStage /\ "disable" \in DeskStage /\ "erase" \in DeskStage /\ "plan" \in DeskStage /\ "park" \in DeskStage /\ "wait" \in DeskStage
BY DEF DeskOp, DeskStage

LEMMA OffFits == Off \in DeskRequest /\ Fits(Off) /\ Off.op = "none" /\ Off.at = "off"
<1>1. Blank \in Shot
  BY DEF Blank, Shot, CampaignCategory
<1>2. Off \in DeskRequest
  <2>1. <<>> \in Flows \cup {<<>>} /\ "transactional" \in CampaignCategory /\ NoChange \in Change \cup {NoChange}
    BY DEF CampaignCategory
  <2>2. "none" \in DeskOp /\ "off" \in DeskStage
    BY OpsAndStages
  <2>3. FALSE \in BOOLEAN
    OBVIOUS
  <2> QED BY <1>1, <2>1, <2>2, <2>3, Zenon DEF Off, DeskRequest
<1> QED BY <1>2 DEF Off, Fits

LEMMA CampaignStart == CampaignInit => CampaignInv
<1> SUFFICES ASSUME CampaignInit PROVE CampaignInv
  OBVIOUS
<1>1. PICK optOut \in BOOLEAN, h \in Hand :
          /\ Valid(optOut, category)
          /\ message = [m \in CampaignMessage |->
                IF m = h THEN [seq |-> 1, optOut |-> optOut, enabled |-> TRUE] ELSE NoMessage]
  BY DEF CampaignInit
<1>2. PICK rec : rec = [seq |-> 1, optOut |-> optOut, enabled |-> TRUE]
  OBVIOUS
<1>3. rec \in MessageRow /\ rec.optOut = optOut
  BY <1>2 DEF MessageRow
<1>4. /\ message \in [CampaignMessage -> MessageRow \cup {NoMessage}]
      /\ \A m \in CampaignMessage : message[m] = IF m = h THEN rec ELSE NoMessage
  BY <1>1, <1>2, <1>3
<1>5. Present \subseteq {h} /\ Texts \subseteq {<<h, optOut>>}
  BY <1>3, <1>4 DEF Present, Enabled, Texts
<1>6. MarketingOptOut /\ NumbersDistinct /\ ActiveVersionSendable
  BY <1>1, <1>5 DEF CampaignInit, MarketingOptOut, AllValid, NumbersDistinct, ActiveVersionSendable
<1>7. DesksFit
  BY OffFits DEF CampaignInit, DesksFit
<1>8. versions \in Seq(Shot) /\ Len(versions) = 0
  BY DEF CampaignInit
<1>9. RowsFit
  BY DEF CampaignInit, RowsFit
<1>10. active \in 0 .. Len(versions) /\ requests \in 0 .. MaxRequests
  BY <1>8, CampaignConstants DEF CampaignInit
<1> QED BY <1>4, <1>6, <1>7, <1>8, <1>9, <1>10 DEF CampaignInit, CampaignInv

\* A request goes on to `next`.
LEMMA DesksMove ==
    ASSUME DesksFit, NEW o \in Operator, NEW next \in DeskRequest, Fits(next)',
           desk' = [desk EXCEPT ![o] = next], versions \in Seq(Shot), versions' \in Seq(Shot),
           Len(versions) <= Len(versions')
    PROVE  DesksFit'
<1>1. desk' \in [Operator -> DeskRequest]
  BY DEF DesksFit
<1>2. ASSUME NEW p \in Operator PROVE Fits(desk[p])'
  <2>1. CASE p = o
    BY <2>1 DEF DesksFit
  <2>2. CASE p # o
    <3>1. desk'[p] = desk[p] /\ Fits(desk[p])
      BY <2>2 DEF DesksFit
    <3>2. \A n \in 1 .. Len(versions) : n \in 1 .. Len(versions')
      OBVIOUS
    <3> QED BY <3>1, <3>2 DEF Fits
  <2> QED BY <2>1, <2>2
<1> QED BY <1>1, <1>2 DEF DesksFit

\* A step that writes nothing.
LEMMA QuietStep ==
    ASSUME CampaignInv, NEW o \in Operator, NEW next \in DeskRequest, Fits(next),
           desk' = [desk EXCEPT ![o] = next], UNCHANGED <<table, raced>>, requests' \in 0 .. MaxRequests
    PROVE  CampaignInv'
<1>1. versions' = versions /\ versions \in Seq(Shot) /\ DesksFit
  BY DEF table, CampaignInv
<1>2. Len(versions) <= Len(versions)
  BY <1>1
<1>3. Fits(next)'
  BY <1>1 DEF Fits
<1>4. DesksFit'
  BY <1>1, <1>2, <1>3, DesksMove
<1> QED BY <1>4 DEF CampaignInv, table, RowsFit, Present, MarketingOptOut, AllValid, Texts, Enabled,
                    ActiveVersionSendable, NumbersDistinct

LEMMA LoadStep ==
    ASSUME CampaignInv, NEW o \in Operator, NEW request \in DeskRequest, Load(o, request),
           Fits([request EXCEPT !.category = category])
    PROVE  CampaignInv'
<1>1. [request EXCEPT !.category = category] \in DeskRequest
  BY DEF DeskRequest, CampaignInv
<1>2. requests \in 0 .. MaxRequests /\ requests < MaxRequests /\ requests' = requests + 1
  BY DEF Load, CampaignInv
<1>3. requests' \in 0 .. MaxRequests
  BY <1>2, CampaignConstants
<1> QED BY <1>1, <1>3, QuietStep DEF Load

LEMMA ProceedStep ==
    ASSUME CampaignInv, NEW o \in Operator, NEW next \in DeskRequest, Fits(next),
           Proceeds(o, next), UNCHANGED <<table, requests, raced>>
    PROVE  CampaignInv'
BY QuietStep DEF Proceeds, CampaignInv

LEMMA RefusedStep ==
    ASSUME CampaignInv, NEW o \in Operator, Refused(o) PROVE CampaignInv'
BY QuietStep, OffFits DEF Refused, Done, CampaignInv

\* A request that is done, of which a version may remain.
LEMMA DoneStep ==
    ASSUME CampaignInv, NEW o \in Operator, Done(o), versions' \in Seq(Shot), Len(versions) <= Len(versions')
    PROVE  DesksFit'
<1>1. Fits(Off)'
  BY DEF Off, Fits
<1> QED BY <1>1, OffFits, DesksMove DEF Done, CampaignInv

\* One row of the messages changes: what it says is valid unless somebody has
\* interfered, and its number is nobody else's.
LEMMA RowChanges ==
    ASSUME CampaignInv, NEW m \in CampaignMessage, NEW rec \in MessageRow \cup {NoMessage},
           message' = [message EXCEPT ![m] = rec], UNCHANGED <<category, copies>>,
           raced' \in BOOLEAN, raced => raced',
           rec # NoMessage => \A k \in Present \ {m} : message[k].seq # rec.seq,
           rec # NoMessage => raced' \/ ~rec.enabled \/ Valid(rec.optOut, category)
    PROVE  /\ message' \in [CampaignMessage -> MessageRow \cup {NoMessage}]
           /\ Present' = IF rec = NoMessage THEN Present \ {m} ELSE Present \cup {m}
           /\ MarketingOptOut' /\ NumbersDistinct'
<1>1. message \in [CampaignMessage -> MessageRow \cup {NoMessage}]
  BY DEF CampaignInv
<1>2. /\ message' \in [CampaignMessage -> MessageRow \cup {NoMessage}]
      /\ message'[m] = rec /\ \A k \in CampaignMessage \ {m} : message'[k] = message[k]
  BY <1>1
<1>3. Present' = IF rec = NoMessage THEN Present \ {m} ELSE Present \cup {m}
  BY <1>2 DEF Present
<1>4. NumbersDistinct'
  <2> SUFFICES ASSUME NEW j \in Present', NEW k \in Present', j # k PROVE message'[j].seq # message'[k].seq
    BY DEF NumbersDistinct
  <2>1. j \in CampaignMessage /\ k \in CampaignMessage
    BY DEF Present
  <2>2. CASE j = m
    BY <2>1, <2>2, <1>2, <1>3 DEF Present
  <2>3. CASE k = m
    BY <2>1, <2>3, <1>2, <1>3 DEF Present
  <2>4. CASE j # m /\ k # m
    <3>1. j \in Present /\ k \in Present /\ message'[j] = message[j] /\ message'[k] = message[k]
      BY <2>1, <2>4, <1>2, <1>3
    <3> QED BY <3>1 DEF CampaignInv, NumbersDistinct
  <2> QED BY <2>2, <2>3, <2>4
<1>5. MarketingOptOut'
  <2> SUFFICES ASSUME ~raced' PROVE /\ AllValid(Texts', category')
                                   /\ \A copy \in copies' : AllValid(copy.texts, copy.category)
    BY DEF MarketingOptOut, AllValid
  <2>1. AllValid(Texts, category) /\ \A copy \in copies : AllValid(copy.texts, copy.category)
    BY DEF CampaignInv, MarketingOptOut
  <2>2. ASSUME NEW text \in Texts' PROVE Valid(text[2], category)
    <3>1. PICK k \in Enabled' : text = <<k, message'[k].optOut>>
      BY DEF Texts
    <3>2. k \in CampaignMessage /\ k \in Present' /\ message'[k].enabled
      BY DEF Enabled, Present
    <3>3. CASE k = m
      <4>1. rec # NoMessage /\ rec.enabled
        BY <3>2, <3>3, <1>2 DEF Present
      <4> QED BY <4>1, <3>1, <3>3, <1>2
    <3>4. CASE k # m
      <4>1. message'[k] = message[k] /\ k \in Enabled
        BY <3>2, <3>4, <1>2, <1>3 DEF Enabled
      <4>2. <<k, message[k].optOut>> \in Texts
        BY <4>1 DEF Texts
      <4> QED BY <4>1, <4>2, <3>1, <2>1 DEF AllValid
    <3> QED BY <3>3, <3>4
  <2> QED BY <2>1, <2>2 DEF AllValid
<1> QED BY <1>2, <1>3, <1>4, <1>5

-----------------------------------------------------------------------------
(* The greatest number of a finite set                                     *)

LEMMA LeastNatural ==
    ASSUME NEW S \in SUBSET Nat, S # {}
    PROVE  \E n \in S : \A m \in S : n <= m
<1>1. PICK n \in S : \A m \in S : ~(<<m, n>> \in OpToRel(<, Nat))
  BY NatLessThanWellFounded, WFMin
<1>2. \A m \in S : <<m, n>> \in OpToRel(<, Nat) <=> m < n
  BY DEF OpToRel
<1>3. \A m \in S : ~(m < n)
  BY <1>1, <1>2, Zenon
<1> QED BY <1>3

LEMMA FiniteIsBounded ==
    ASSUME NEW S \in SUBSET Nat, IsFiniteSet(S)
    PROVE  \E b \in Nat : \A s \in S : s <= b
<1>1. PICK n \in Nat : ExistsBijection(1 .. n, S)
  BY FS_NatBijection
<1>2. PICK f \in [1 .. n -> S] : \A s \in S : \E i \in 1 .. n : f[i] = s
  BY <1>1 DEF ExistsBijection, Bijection, Injection, Surjection
<1> DEFINE Unbounded == {k \in 0 .. n : \A b \in Nat : \E i \in 1 .. k : ~(f[i] <= b)}
<1>3. ASSUME Unbounded # {} PROVE FALSE
  <2>1. PICK k \in Unbounded : \A m \in Unbounded : k <= m
    BY <1>3, LeastNatural, Unbounded \in SUBSET Nat
  <2>2. k # 0
    <3>1. 0 \in Nat /\ 1 .. 0 = {}
      OBVIOUS
    <3> QED BY <3>1, <2>1
  <2>0. k \in 1 .. n
    BY <2>1, <2>2
  <2>3. k - 1 \in 0 .. n /\ ~(k <= k - 1)
    BY <2>0
  <2>4. PICK b \in Nat : \A i \in 1 .. k - 1 : f[i] <= b
    BY <2>1, <2>3
  <2>5. f[k] \in Nat
    BY <2>0
  <2>6. \E c \in Nat : b <= c /\ f[k] <= c
    BY <2>5
  <2>7. PICK c \in Nat : b <= c /\ f[k] <= c
    BY <2>6
  <2>8. \A i \in 1 .. k : f[i] <= c
    <3> SUFFICES ASSUME NEW i \in 1 .. k PROVE f[i] <= c
      OBVIOUS
    <3>1. CASE i = k
      BY <3>1, <2>7
    <3>2. CASE i # k
      <4>1. i \in 1 .. k - 1 /\ i \in 1 .. n
        BY <3>2, <2>0
      <4>2. f[i] \in Nat
        BY <4>1
      <4>3. f[i] <= b
        BY <4>1, <2>4
      <4> QED BY <4>2, <4>3, <2>7
    <3> QED BY <3>1, <3>2
  <2> QED BY <2>1, <2>8
<1>4. PICK b \in Nat : \A i \in 1 .. n : f[i] <= b
  <2>0. Unbounded = {}
    BY <1>3
  <2>1. n \notin Unbounded
    <3> HIDE DEF Unbounded
    <3> QED BY <2>0
  <2>2. n \in 0 .. n
    OBVIOUS
  <2> QED BY <2>1, <2>2
<1> QED BY <1>2, <1>4

LEMMA MaxOfFinite ==
    ASSUME NEW S \in SUBSET Nat, S # {}, IsFiniteSet(S)
    PROVE  Max(S) \in S /\ \A s \in S : s <= Max(S)
<1> DEFINE Bounds == {b \in Nat : \A s \in S : s <= b}
<1>1. PICK b \in Bounds : \A c \in Bounds : b <= c
  BY FiniteIsBounded, LeastNatural, Bounds \in SUBSET Nat
<1>2. b \in S
  <2> SUFFICES ASSUME b \notin S PROVE FALSE
    OBVIOUS
  <2>1. \A s \in S : s <= b - 1 /\ s \in Nat
    <3> SUFFICES ASSUME NEW s \in S PROVE s <= b - 1 /\ s \in Nat
      OBVIOUS
    <3>1. s <= b /\ s # b /\ b \in Nat /\ s \in Nat
      BY <1>1
    <3> QED BY <3>1
  <2>2. b - 1 \in Nat
    <3>1. PICK s \in S : s <= b - 1 /\ s \in Nat
      BY <2>1
    <3>2. b \in Nat
      BY <1>1
    <3> QED BY <3>1, <3>2
  <2>3. b - 1 \in Bounds
    BY <2>1, <2>2
  <2> QED BY <2>2, <2>3, <1>1
<1>3. \E x \in S : \A y \in S : x >= y
  BY <1>1, <1>2
<1>4. Max(S) \in S /\ \A y \in S : Max(S) >= y
  BY <1>3, Zenon DEF Max
<1> QED BY <1>4

-----------------------------------------------------------------------------
(* A save of the canvas                                                    *)

Claimed(o) == {m \in Nodes(o) : m \in Present \/ m \notin desk[o].plan}
Rest(o) == Present \ (desk[o].visible \cup Nodes(o))

LEMMA NodesArePlaced ==
    ASSUME CampaignInv, NEW o \in Operator
    PROVE  /\ Nodes(o) \in SUBSET CampaignMessage
           /\ desk[o].flow \in Flows \cup {<<>>}
           /\ desk[o].flow \in Seq(Node)
           /\ \A n \in Nodes(o) : Place(o, n) \in 1 .. Len(desk[o].flow) /\ desk[o].flow[Place(o, n)] = n
<1>1. desk[o].flow \in Flows \cup {<<>>}
  BY DEF CampaignInv, DesksFit, DeskRequest
<1>2. <<>> \in Seq(Node)
  OBVIOUS
<1>3. desk[o].flow \in Seq(Node)
  BY <1>1, <1>2, CampaignConstants
<1>4. PICK f \in Seq(Node) : f = desk[o].flow
  BY <1>3
<1>5. Nodes(o) \in SUBSET CampaignMessage
  BY <1>4 DEF Nodes, CampaignMessage
<1>6. ASSUME NEW n \in Nodes(o) PROVE Place(o, n) \in 1 .. Len(f) /\ f[Place(o, n)] = n
  <2>1. \E i \in DOMAIN f : f[i] = n
    BY <1>4 DEF Nodes
  <2>2. Place(o, n) \in DOMAIN f /\ f[Place(o, n)] = n
    BY <2>1, <1>4, Zenon DEF Place
  <2> QED BY <2>2
<1> QED BY <1>1, <1>3, <1>4, <1>5, <1>6

\* The numbers that the parked rows are given back lie above every other, in
\* the order they had.
LEMMA OrphansGoAbove ==
    ASSUME CampaignInv, NEW o \in Operator
    PROVE  /\ \A m \in Orphans(o) :
                 /\ Above(o, m) \in Nat \ {0}
                 /\ \A i \in DOMAIN desk[o].flow : i < Above(o, m)
                 /\ \A s \in Rest(o) : message[s].seq < Above(o, m)
           /\ \A m, k \in Orphans(o) : m # k => Above(o, m) # Above(o, k)
<1> DEFINE Live == DOMAIN desk[o].flow \cup {message[s].seq : s \in Rest(o)}
           Lower(m) == {k \in Orphans(o) : message[k].seq <= message[m].seq}
<1>1. /\ message \in [CampaignMessage -> MessageRow \cup {NoMessage}]
      /\ NumbersDistinct /\ IsFiniteSet(CampaignMessage)
  BY CampaignConstants DEF CampaignInv
<1>2. \A m \in Present : m \in CampaignMessage /\ message[m].seq \in Nat \ {0}
  BY <1>1 DEF Present, MessageRow
<1>3. IsFiniteSet(Rest(o)) /\ IsFiniteSet(Orphans(o))
  <2>1. Rest(o) \in SUBSET CampaignMessage /\ Orphans(o) \in SUBSET CampaignMessage
    BY DEF Rest, Orphans, Present
  <2> QED BY <2>1, <1>1, FS_Subset
<1>4. IsFiniteSet({message[s].seq : s \in Rest(o)})
  <2>1. PICK f : f = [s \in Rest(o) |-> message[s].seq]
    OBVIOUS
  <2>2. f \in Surjection(Rest(o), {message[s].seq : s \in Rest(o)})
    BY <2>1 DEF Surjection
  <2> QED BY <2>2, <1>3, FS_Surjection
<1>5. DOMAIN desk[o].flow \in SUBSET Nat /\ IsFiniteSet(DOMAIN desk[o].flow)
  <2>1. desk[o].flow \in Seq(Node)
    BY NodesArePlaced
  <2>2. Len(desk[o].flow) \in Nat /\ DOMAIN desk[o].flow = 1 .. Len(desk[o].flow)
    BY <2>1
  <2> QED BY <2>2, FS_Interval
<1>6. Live \cup {0} \in SUBSET Nat /\ Live \cup {0} # {} /\ IsFiniteSet(Live \cup {0})
  <2>1. IsFiniteSet(Live)
    BY <1>4, <1>5, FS_Union
  <2>2. IsFiniteSet(Live \cup {0})
    BY <2>1, FS_AddElement
  <2>3. \A s \in Rest(o) : message[s].seq \in Nat
    BY <1>2 DEF Rest
  <2> QED BY <2>2, <2>3, <1>5
<1>7. PICK top \in Nat : top = Max(Live \cup {0}) /\ \A n \in Live : n <= top
  <2> HIDE DEF Live
  <2> QED BY <1>6, MaxOfFinite
<1>8. \A m \in Orphans(o) : Above(o, m) = top + Cardinality(Lower(m))
  BY <1>7 DEF Above, Rest
<1>9. \A m \in Orphans(o) : IsFiniteSet(Lower(m)) /\ Cardinality(Lower(m)) \in Nat
  <2> SUFFICES ASSUME NEW m \in Orphans(o) PROVE IsFiniteSet(Lower(m)) /\ Cardinality(Lower(m)) \in Nat
    OBVIOUS
  <2>1. Lower(m) \in SUBSET Orphans(o)
    OBVIOUS
  <2> HIDE DEF Lower
  <2> QED BY <2>1, <1>3, FS_Subset, FS_CardinalityType
<1>10. \A m \in Orphans(o) : m \in Lower(m) /\ message[m].seq \in Nat
  BY <1>2 DEF Orphans
<1>11. \A m \in Orphans(o) : Cardinality(Lower(m)) > 0
  <2> SUFFICES ASSUME NEW m \in Orphans(o) PROVE Cardinality(Lower(m)) > 0
    OBVIOUS
  <2>1. Lower(m) # {}
    BY <1>10
  <2> HIDE DEF Lower
  <2> QED BY <2>1, <1>9, FS_EmptySet
<1>12. \A m, k \in Orphans(o) : message[m].seq < message[k].seq => Cardinality(Lower(m)) < Cardinality(Lower(k))
  <2> SUFFICES ASSUME NEW m \in Orphans(o), NEW k \in Orphans(o), message[m].seq < message[k].seq
               PROVE  Cardinality(Lower(m)) < Cardinality(Lower(k))
    OBVIOUS
  <2>1. Lower(m) \in SUBSET Lower(k)
    <3> SUFFICES ASSUME NEW j \in Lower(m) PROVE j \in Lower(k)
      OBVIOUS
    <3>1. j \in Orphans(o) /\ message[j].seq <= message[m].seq
      OBVIOUS
    <3>2. message[j].seq \in Nat /\ message[m].seq \in Nat /\ message[k].seq \in Nat
      BY <3>1, <1>10
    <3> QED BY <3>1, <3>2
  <2>2. k \in Lower(k) /\ k \notin Lower(m)
    BY <1>10
  <2> HIDE DEF Lower
  <2> QED BY <2>1, <2>2, <1>9, FS_Subset
<1>13. \A m, k \in Orphans(o) : m # k => message[m].seq # message[k].seq
  BY <1>1 DEF Orphans, NumbersDistinct
<1> HIDE DEF Lower
<1>14. ASSUME NEW m \in Orphans(o)
       PROVE  /\ Above(o, m) \in Nat \ {0}
              /\ \A i \in DOMAIN desk[o].flow : i < Above(o, m)
              /\ \A s \in Rest(o) : message[s].seq < Above(o, m)
  <2>1. Above(o, m) = top + Cardinality(Lower(m)) /\ Cardinality(Lower(m)) \in Nat /\ Cardinality(Lower(m)) > 0
    BY <1>8, <1>9, <1>11
  <2>2. \A n \in Live : n <= top /\ n \in Nat
    BY <1>6, <1>7
  <2>3. \A n \in Live : n < Above(o, m)
    <3> HIDE DEF Live
    <3> QED BY <2>1, <2>2
  <2>4. Above(o, m) \in Nat \ {0}
    BY <2>1
  <2> QED BY <2>3, <2>4
<1>15. ASSUME NEW m \in Orphans(o), NEW k \in Orphans(o), m # k PROVE Above(o, m) # Above(o, k)
  <2>1. message[m].seq \in Nat /\ message[k].seq \in Nat /\ message[m].seq # message[k].seq
    BY <1>10, <1>13, <1>15
  <2>2. Cardinality(Lower(m)) # Cardinality(Lower(k)) /\ Cardinality(Lower(m)) \in Nat /\ Cardinality(Lower(k)) \in Nat
    <3>1. CASE message[m].seq < message[k].seq
      BY <3>1, <1>12, <1>9
    <3>2. CASE message[k].seq < message[m].seq
      BY <3>2, <1>12, <1>9
    <3> QED BY <3>1, <3>2, <2>1
  <2> QED BY <2>2, <1>8
<1> QED BY <1>14, <1>15

\* What a save of the canvas does to every message.
LEMMA SaveRows ==
    ASSUME CampaignInv, NEW o \in Operator, ~Collides(o),
           message' = [m \in CampaignMessage |-> SyncedRow(o, m)]
    PROVE  /\ message' \in [CampaignMessage -> MessageRow \cup {NoMessage}]
           /\ Present \subseteq Present'
           /\ NumbersDistinct'
           /\ \A m \in Claimed(o) : /\ message'[m].seq = Place(o, m) /\ message'[m].optOut = desk[o].optOut
                                    /\ message'[m].enabled
           /\ Enabled' \subseteq Claimed(o) \cup (Enabled \ Orphans(o))
           /\ \A m \in CampaignMessage \ (Claimed(o) \cup Orphans(o)) : message'[m] = message[m]
           /\ Claimed(o) \subseteq Enabled'
<1>1. /\ message \in [CampaignMessage -> MessageRow \cup {NoMessage}]
      /\ desk[o].optOut \in BOOLEAN /\ NumbersDistinct /\ NoMessage \notin MessageRow
  BY CampaignConstants DEF CampaignInv, DesksFit, DeskRequest
<1>2. /\ Claimed(o) \subseteq CampaignMessage /\ Orphans(o) \subseteq CampaignMessage
      /\ Claimed(o) \cap Orphans(o) = {} /\ Orphans(o) \subseteq Present /\ Claimed(o) \subseteq Nodes(o)
  BY NodesArePlaced DEF Claimed, Orphans, Present
<1>3. ASSUME NEW m \in Claimed(o)
      PROVE  /\ message'[m] \in MessageRow /\ message'[m].seq = Place(o, m)
             /\ message'[m].optOut = desk[o].optOut /\ message'[m].enabled
  <2>1. m \in CampaignMessage /\ m \in Nodes(o) /\ (m \in Present \/ m \notin desk[o].plan)
    BY <1>2 DEF Claimed
  <2>2. message'[m] = SyncedRow(o, m)
    BY <2>1
  <2>3. PICK r : r = [seq |-> Place(o, m), optOut |-> desk[o].optOut, enabled |-> TRUE]
    OBVIOUS
  <2>4. message'[m] = r
    <3>1. m \notin Orphans(o)
      BY <1>2
    <3> QED BY <2>1, <2>2, <2>3, <3>1 DEF SyncedRow
  <2>5. Place(o, m) \in Nat \ {0}
    BY <2>1, NodesArePlaced
  <2>6. r \in MessageRow /\ r.seq = Place(o, m) /\ r.optOut = desk[o].optOut /\ r.enabled
    BY <2>3, <2>5, <1>1 DEF MessageRow
  <2> QED BY <2>4, <2>6
<1>4. ASSUME NEW m \in Orphans(o)
      PROVE  message'[m] \in MessageRow /\ message'[m].seq = Above(o, m) /\ ~message'[m].enabled
  <2>1. m \in CampaignMessage /\ ~(m \in Nodes(o) /\ (m \in Present \/ m \notin desk[o].plan)) /\ m \in Present
    BY <1>2 DEF Claimed
  <2>2. message'[m] = [message[m] EXCEPT !.seq = Above(o, m), !.enabled = FALSE]
    BY <2>1 DEF SyncedRow
  <2>3. message[m] \in MessageRow
    BY <2>1, <1>1 DEF Present
  <2>4. Above(o, m) \in Nat \ {0}
    BY OrphansGoAbove
  <2> QED BY ZenonT(40), <2>2, <2>3, <2>4 DEF MessageRow
<1>5. ASSUME NEW m \in CampaignMessage \ (Claimed(o) \cup Orphans(o)) PROVE message'[m] = message[m]
  BY DEF SyncedRow, Claimed
<1>6. message' \in [CampaignMessage -> MessageRow \cup {NoMessage}]
  <2>1. \A m \in CampaignMessage : message'[m] \in MessageRow \cup {NoMessage}
    BY <1>1, <1>3, <1>4, <1>5
  <2> QED BY <2>1
<1>7. Present \subseteq Present' /\ Claimed(o) \subseteq Enabled'
  BY <1>1, <1>2, <1>3, <1>4, <1>5 DEF Present, Enabled
<1>8. Enabled' \subseteq Claimed(o) \cup (Enabled \ Orphans(o))
  <2> SUFFICES ASSUME NEW m \in Enabled', m \notin Claimed(o) PROVE m \in Enabled \ Orphans(o)
    OBVIOUS
  <2>1. m \in CampaignMessage /\ message'[m] # NoMessage /\ message'[m].enabled
    BY DEF Enabled, Present
  <2>2. m \notin Orphans(o)
    BY <2>1, <1>4
  <2>3. message'[m] = message[m]
    BY <2>1, <2>2, <1>5
  <2> QED BY <2>1, <2>2, <2>3 DEF Enabled, Present
<1>9. ASSUME NEW m \in Present' \ (Claimed(o) \cup Orphans(o))
      PROVE  /\ m \in Rest(o) /\ message'[m].seq = message[m].seq /\ message[m].seq \notin DOMAIN desk[o].flow
  <2>1. m \in CampaignMessage /\ message'[m] = message[m] /\ m \in Present
    BY <1>5 DEF Present
  <2>2. m \notin Nodes(o) /\ m \notin desk[o].visible
    BY <2>1 DEF Claimed, Orphans
  <2> QED BY <2>1, <2>2 DEF Rest, Collides
<1>10. NumbersDistinct'
  <2> SUFFICES ASSUME NEW m \in Present', NEW k \in Present', m # k, message'[m].seq = message'[k].seq PROVE FALSE
    BY DEF NumbersDistinct
  <2>1. \A n \in Claimed(o) : Place(o, n) \in DOMAIN desk[o].flow /\ desk[o].flow[Place(o, n)] = n
    <3>1. DOMAIN desk[o].flow = 1 .. Len(desk[o].flow)
      BY NodesArePlaced
    <3> QED BY <3>1, <1>2, NodesArePlaced
  <2>2. \A a \in Claimed(o), b \in Present' : a # b => message'[a].seq # message'[b].seq
    <3> SUFFICES ASSUME NEW a \in Claimed(o), NEW b \in Present', a # b, message'[a].seq = message'[b].seq PROVE FALSE
      OBVIOUS
    <3>1. CASE b \in Claimed(o)
      BY <3>1, <2>1, <1>3
    <3>2. CASE b \in Orphans(o)
      <4>1. Place(o, a) \in DOMAIN desk[o].flow /\ Place(o, a) = Above(o, b)
        BY <3>2, <2>1, <1>3, <1>4
      <4>2. Place(o, a) < Above(o, b) /\ Above(o, b) \in Nat
        BY <4>1, <3>2, OrphansGoAbove
      <4> QED BY <4>1, <4>2
    <3>3. CASE b \notin Claimed(o) \cup Orphans(o)
      BY <3>3, <2>1, <1>3, <1>9
    <3> QED BY <3>1, <3>2, <3>3
  <2>3. \A a \in Orphans(o), b \in Present' \ Claimed(o) : a # b => message'[a].seq # message'[b].seq
    <3> SUFFICES ASSUME NEW a \in Orphans(o), NEW b \in Present' \ Claimed(o), a # b, message'[a].seq = message'[b].seq
                 PROVE  FALSE
      OBVIOUS
    <3>1. CASE b \in Orphans(o)
      BY <3>1, <1>4, OrphansGoAbove
    <3>2. CASE b \notin Orphans(o)
      <4>1. b \in Rest(o) /\ message[b].seq = Above(o, a)
        BY <3>2, <1>4, <1>9
      <4>2. message[b].seq < Above(o, a) /\ Above(o, a) \in Nat
        BY <4>1, OrphansGoAbove
      <4> QED BY <4>1, <4>2
    <3> QED BY <3>1, <3>2
  <2>4. CASE m \in Claimed(o) \/ k \in Claimed(o)
    BY <2>2, <2>4
  <2>5. CASE m \notin Claimed(o) /\ k \notin Claimed(o) /\ (m \in Orphans(o) \/ k \in Orphans(o))
    BY <2>3, <2>5
  <2>6. CASE m \notin Claimed(o) \cup Orphans(o) /\ k \notin Claimed(o) \cup Orphans(o)
    <3>1. m \in Present /\ k \in Present /\ message[m].seq = message[k].seq
      BY <2>6, <1>9 DEF Rest
    <3> QED BY <3>1, <1>1 DEF NumbersDistinct
  <2> QED BY <2>4, <2>5, <2>6
<1> QED BY <1>3, <1>5, <1>6, <1>7, <1>8, <1>10

-----------------------------------------------------------------------------
(* The requests, one by one                                                *)

LEMMA DeskIsRequest ==
    ASSUME CampaignInv, NEW o \in Operator
    PROVE  desk[o] \in DeskRequest /\ Fits(desk[o])
BY DEF CampaignInv, DesksFit

\* What a step leaves alone stays as it was.
LEMMA SameMessages ==
    ASSUME CampaignInv, UNCHANGED <<message, category, copies>>, raced' \in BOOLEAN, raced => raced'
    PROVE  Present' = Present /\ MarketingOptOut' /\ NumbersDistinct'
BY DEF CampaignInv, Present, MarketingOptOut, AllValid, Texts, Enabled, NumbersDistinct

LEMMA SameVersions ==
    ASSUME CampaignInv, UNCHANGED <<versions, active>>, raced' \in BOOLEAN, raced => raced'
    PROVE  ActiveVersionSendable' /\ versions' \in Seq(Shot) /\ Len(versions) <= Len(versions')
BY DEF CampaignInv, ActiveVersionSendable

LEMMA SameRows ==
    ASSUME CampaignInv, UNCHANGED <<queued, versions>>, Present \subseteq Present'
    PROVE  RowsFit'
BY DEF CampaignInv, RowsFit

LEMMA ArchiveStep ==
    ASSUME CampaignInv, NEW o \in Operator, Archive(o) PROVE CampaignInv'
<1>1. CASE Load(o, [Off EXCEPT !.op = "archive", !.at = "write"])
  <2>1. PICK r : r = [Off EXCEPT !.op = "archive", !.at = "write"]
    OBVIOUS
  <2>2. r \in DeskRequest /\ r.op = "archive" /\ r.at = "write"
    BY <2>1, OffFits, OpsAndStages DEF DeskRequest
  <2>3. Fits([r EXCEPT !.category = category])
    BY <2>2 DEF Fits, DeskRequest
  <2> QED BY <1>1, <2>1, <2>2, <2>3, LoadStep
<1>2. CASE /\ Does(o, "archive", "write") /\ Done(o)
           /\ status' = "archived"
           /\ UNCHANGED <<category, message, flow, versions, active, queued, copies, requests, raced>>
  <2>1. DesksFit' /\ Present' = Present /\ MarketingOptOut' /\ NumbersDistinct' /\ ActiveVersionSendable'
    BY <1>2, SameMessages, SameVersions, DoneStep DEF CampaignInv
  <2>2. RowsFit'
    BY <1>2, <2>1, SameRows
  <2> QED BY <1>2, <2>1, <2>2 DEF CampaignInv
<1> QED BY <1>1, <1>2 DEF Archive

LEMMA PauseStep ==
    ASSUME CampaignInv, NEW o \in Operator, PauseCampaign(o) PROVE CampaignInv'
<1>1. CASE Load(o, [Off EXCEPT !.op = "pause", !.at = "write"])
  <2>1. PICK r : r = [Off EXCEPT !.op = "pause", !.at = "write"]
    OBVIOUS
  <2>2. r \in DeskRequest /\ r.op = "pause" /\ r.at = "write"
    BY <2>1, OffFits, OpsAndStages DEF DeskRequest
  <2>3. Fits([r EXCEPT !.category = category])
    BY <2>2 DEF Fits, DeskRequest
  <2> QED BY <1>1, <2>1, <2>2, <2>3, LoadStep
<1>2. CASE /\ Does(o, "pause", "write") /\ Done(o)
           /\ status' = "paused"
           /\ UNCHANGED <<category, message, flow, versions, active, queued, copies, requests, raced>>
  <2>1. DesksFit' /\ Present' = Present /\ MarketingOptOut' /\ NumbersDistinct' /\ ActiveVersionSendable'
    BY <1>2, SameMessages, SameVersions, DoneStep DEF CampaignInv
  <2>2. RowsFit'
    BY <1>2, <2>1, SameRows
  <2> QED BY <1>2, <2>1, <2>2 DEF CampaignInv
<1> QED BY <1>1, <1>2 DEF PauseCampaign

\* The category that a request was validated for is the one it writes, unless
\* somebody else has written since.
LEMMA PatchCampaignStep ==
    ASSUME CampaignInv, NEW o \in Operator, PatchCampaign(o) PROVE CampaignInv'
<1>1. CASE \E cat \in CampaignCategory :
             Load(o, [Off EXCEPT !.op = "patch", !.wants = cat, !.at = IF cat = category THEN "write" ELSE "check"])
  <2>1. PICK cat \in CampaignCategory :
             Load(o, [Off EXCEPT !.op = "patch", !.wants = cat, !.at = IF cat = category THEN "write" ELSE "check"])
    BY <1>1
  <2>2. PICK r : r = [Off EXCEPT !.op = "patch", !.wants = cat, !.at = IF cat = category THEN "write" ELSE "check"]
    OBVIOUS
  <2>3. /\ r \in DeskRequest /\ r.op = "patch" /\ r.wants = cat /\ r.at \in {"write", "check"}
        /\ (r.at = "write" => cat = category)
    BY <2>2, OffFits, OpsAndStages DEF DeskRequest
  <2>4. Fits([r EXCEPT !.category = category])
    BY <2>3 DEF Fits, DeskRequest
  <2> QED BY <2>1, <2>2, <2>3, <2>4, LoadStep
<1>2. CASE CheckMessages(o)
  <2>1. CASE AllValid(Texts, desk[o].wants)
    <3>1. PICK d : d = desk[o]
      OBVIOUS
    <3>2. PICK news : news = [d EXCEPT !.at = "write", !.texts = Texts]
      OBVIOUS
    <3>3. d \in DeskRequest /\ d.op = "patch" /\ Texts \in SUBSET Text
      BY <1>2, <3>1, DeskIsRequest, TextsAreTexts DEF CheckMessages, Does, CampaignInv
    <3>4. /\ news \in DeskRequest /\ news.op = "patch" /\ news.at = "write" /\ news.wants = d.wants
          /\ news.texts = Texts
      BY <3>2, <3>3, OpsAndStages DEF DeskRequest
    <3>5. Fits(news)
      BY <3>1, <3>4, <2>1 DEF Fits
    <3> QED BY <1>2, <2>1, <3>1, <3>2, <3>4, <3>5, ProceedStep DEF CheckMessages
  <2>2. CASE ~AllValid(Texts, desk[o].wants)
    BY <1>2, <2>2, RefusedStep DEF CheckMessages
  <2> QED BY <2>1, <2>2
<1>3. CASE /\ Does(o, "patch", "write") /\ Done(o)
           /\ category' = desk[o].wants
           /\ raced' = \/ raced \/ desk[o].category # category
                       \/ (desk[o].wants # desk[o].category /\ desk[o].texts # Texts)
           /\ UNCHANGED <<status, message, flow, versions, active, queued, copies, requests>>
  <2>1. /\ desk[o].wants \in CampaignCategory
        /\ desk[o].wants = desk[o].category \/ AllValid(desk[o].texts, desk[o].wants)
    BY <1>3, DeskIsRequest DEF Fits, DeskRequest, Does
  <2>2. raced \in BOOLEAN
    BY DEF CampaignInv
  <2>3. raced' \in BOOLEAN /\ (raced => raced')
    BY <1>3, <2>2
  <2>4. Present' = Present /\ Texts' = Texts /\ NumbersDistinct'
    BY <1>3 DEF Present, Texts, Enabled, NumbersDistinct, CampaignInv
  <2>5. MarketingOptOut'
    <3> SUFFICES ASSUME ~raced' PROVE AllValid(Texts, category') /\ \A copy \in copies : AllValid(copy.texts, copy.category)
      BY <1>3, <2>4 DEF MarketingOptOut, AllValid
    <3>1. ~raced /\ desk[o].category = category /\ (desk[o].wants = desk[o].category \/ desk[o].texts = Texts)
      BY <1>3
    <3>2. AllValid(Texts, category) /\ \A copy \in copies : AllValid(copy.texts, copy.category)
      BY <3>1 DEF CampaignInv, MarketingOptOut
    <3>3. CASE desk[o].wants = desk[o].category
      BY <3>1, <3>2, <3>3, <1>3
    <3>4. CASE desk[o].wants # desk[o].category
      <4>1. AllValid(Texts, desk[o].wants)
        BY <3>1, <3>4, <2>1
      <4> QED BY <4>1, <3>2, <1>3
    <3> QED BY <3>3, <3>4
  <2>6. DesksFit' /\ ActiveVersionSendable' /\ RowsFit'
    BY <1>3, <2>3, <2>4, SameVersions, SameRows, DoneStep
  <2> QED BY <1>3, <2>1, <2>3, <2>4, <2>5, <2>6 DEF CampaignInv
<1> QED BY <1>1, <1>2, <1>3 DEF PatchCampaign

LEMMA ShotIsShot ==
    ASSUME CampaignInv PROVE [category |-> category, texts |-> Texts] \in Shot
BY TextsAreTexts DEF CampaignInv, Shot

LEMMA ValidateStep ==
    ASSUME CampaignInv, NEW o \in Operator, Validate(o) PROVE CampaignInv'
<1>1. CASE Sendable([category |-> desk[o].category, texts |-> Texts])
  <2>1. PICK d : d = desk[o]
    OBVIOUS
  <2>2. PICK news : news = [d EXCEPT !.at = "snapshot", !.texts = Texts]
    OBVIOUS
  <2>3. d \in DeskRequest /\ d.op = "activate" /\ Texts \in SUBSET Text
    BY <2>1, DeskIsRequest, TextsAreTexts DEF Validate, Does, CampaignInv
  <2>4. /\ news \in DeskRequest /\ news.op = "activate" /\ news.at = "snapshot"
        /\ news.category = d.category /\ news.texts = Texts
    BY <2>2, <2>3, OpsAndStages DEF DeskRequest
  <2>5. Fits(news)
    BY <2>1, <2>4, <1>1 DEF Fits
  <2> QED BY <1>1, <2>1, <2>2, <2>4, <2>5, ProceedStep DEF Validate
<1>2. CASE ~Sendable([category |-> desk[o].category, texts |-> Texts])
  BY <1>2, RefusedStep DEF Validate
<1> QED BY <1>1, <1>2

LEMMA SnapshotStep ==
    ASSUME CampaignInv, NEW o \in Operator, Snapshot(o) PROVE CampaignInv'
<1>1. PICK d : d = desk[o]
  OBVIOUS
<1>2. PICK shot \in Shot : shot = [category |-> category, texts |-> Texts]
  BY ShotIsShot
<1>3. PICK news : news = [d EXCEPT !.at = "commit", !.number = Len(versions) + 1, !.shot = shot]
  OBVIOUS
<1>4. d \in DeskRequest /\ d.at = "snapshot" /\ d.op \in {"activate", "test"} /\ Fits(d)
  BY <1>1, DeskIsRequest DEF Snapshot, Fits
<1>5. Len(versions) + 1 \in Nat
  BY DEF CampaignInv
<1>6. /\ news \in DeskRequest /\ news.op = d.op /\ news.at = "commit"
      /\ news.category = d.category /\ news.texts = d.texts /\ news.on = d.on
  BY <1>3, <1>4, <1>5, OpsAndStages DEF DeskRequest
<1>7. Fits(news)
  BY <1>4, <1>6 DEF Fits
<1>8. Proceeds(o, news) /\ UNCHANGED <<table, requests, raced>>
  BY <1>1, <1>2, <1>3 DEF Snapshot
<1> QED BY <1>6, <1>7, <1>8, ProceedStep

\* The versions with one more.
LEMMA OneMore ==
    ASSUME CampaignInv, NEW shot \in Shot, versions' = Append(versions, shot)
    PROVE  /\ versions' \in Seq(Shot) /\ Len(versions') = Len(versions) + 1 /\ Len(versions) \in Nat
           /\ versions'[Len(versions) + 1] = shot
           /\ \A n \in 1 .. Len(versions) : versions'[n] = versions[n]
<1>1. PICK vs \in Seq(Shot) : vs = versions
  BY DEF CampaignInv
<1> QED BY <1>1

\* What becomes active is what was validated, unless somebody has interfered.
LEMMA ActivateStep ==
    ASSUME CampaignInv, NEW o \in Operator, Activate(o) PROVE CampaignInv'
<1>1. CASE Load(o, [Off EXCEPT !.op = "activate", !.at = "validate"])
  <2>1. PICK r : r = [Off EXCEPT !.op = "activate", !.at = "validate"]
    OBVIOUS
  <2>2. r \in DeskRequest /\ r.op = "activate" /\ r.at = "validate"
    BY <2>1, OffFits, OpsAndStages DEF DeskRequest
  <2>3. Fits([r EXCEPT !.category = category])
    BY <2>2 DEF Fits, DeskRequest
  <2> QED BY <1>1, <2>1, <2>2, <2>3, LoadStep
<1>2. CASE Validate(o)
  BY <1>2, ValidateStep
<1>3. CASE /\ Does(o, "activate", "commit") /\ NumberFree(o) /\ Done(o)
           /\ status' = "active"
           /\ versions' = Append(versions, desk[o].shot) /\ active' = desk[o].number
           /\ raced' = (raced \/ desk[o].shot # [category |-> desk[o].category, texts |-> desk[o].texts])
           /\ UNCHANGED <<category, message, flow, queued, copies, requests>>
  <2>1. PICK d : d = desk[o]
    OBVIOUS
  <2>2. d \in DeskRequest /\ d.shot \in Shot /\ Sendable([category |-> d.category, texts |-> d.texts])
    BY <1>3, <2>1, DeskIsRequest DEF Fits, DeskRequest, Does
  <2>3. /\ versions' \in Seq(Shot) /\ Len(versions') = Len(versions) + 1 /\ Len(versions) \in Nat
        /\ versions'[Len(versions) + 1] = d.shot
        /\ \A n \in 1 .. Len(versions) : versions'[n] = versions[n]
    BY <1>3, <2>1, <2>2, OneMore
  <2>4. active' = Len(versions) + 1
    BY <1>3 DEF NumberFree
  <2>5. raced \in BOOLEAN
    BY DEF CampaignInv
  <2>6. raced' \in BOOLEAN /\ (raced => raced')
    BY <1>3, <2>5
  <2>7. ActiveVersionSendable'
    <3>1. raced' \/ d.shot = [category |-> d.category, texts |-> d.texts]
      BY <1>3, <2>1
    <3>2. raced' \/ Sendable(versions'[active'])
      BY <3>1, <2>2, <2>3, <2>4
    <3> QED BY <3>2 DEF ActiveVersionSendable, Sendable, AllValid, Valid
  <2>8. Present' = Present /\ MarketingOptOut' /\ NumbersDistinct'
    BY <1>3, <2>6, SameMessages
  <2>9. DesksFit'
    BY <1>3, <2>3, DoneStep
  <2>10. RowsFit'
    <3>1. \A n \in 1 .. Len(versions) : n \in 1 .. Len(versions')
      BY <2>3
    <3> QED BY <1>3, <2>8, <3>1 DEF CampaignInv, RowsFit
  <2>11. active' \in 0 .. Len(versions') /\ active' # 0
    BY <2>3, <2>4
  <2> QED BY <1>3, <2>3, <2>6, <2>7, <2>8, <2>9, <2>10, <2>11 DEF CampaignInv
<1>4. CASE Does(o, "activate", "commit") /\ ~NumberFree(o) /\ Refused(o)
  BY <1>4, RefusedStep
<1> QED BY <1>1, <1>2, <1>3, <1>4 DEF Activate

LEMMA EntryFits ==
    ASSUME CampaignInv, NEW m \in CampaignMessage, m \in Present', NEW version \in Nat, NEW optOut \in BOOLEAN,
           versions' \in Seq(Shot), Len(versions) <= Len(versions'), version \in 1 .. Len(versions'),
           Present' = Present, queued' = queued \cup {QueueEntry(m, version, optOut)}
    PROVE  RowsFit'
<1>1. Len(versions) \in Nat /\ Len(versions') \in Nat
  BY DEF CampaignInv
<1>2. \A n \in 1 .. Len(versions) : n \in 1 .. Len(versions')
  BY <1>1
<1>3. PICK entry : entry = QueueEntry(m, version, optOut)
  OBVIOUS
<1>4. /\ entry \in [message : CampaignMessage, version : Nat, optOut : BOOLEAN]
      /\ entry.message = m /\ entry.version = version
  BY <1>3 DEF QueueEntry
<1>5. queued' \subseteq [message : CampaignMessage, version : Nat, optOut : BOOLEAN]
  BY <1>3, <1>4 DEF CampaignInv, RowsFit
<1>6. ASSUME NEW r \in queued' PROVE r.message \in Present' /\ r.version \in 1 .. Len(versions')
  <2>1. CASE r \in queued
    BY <2>1, <1>2 DEF CampaignInv, RowsFit
  <2>2. CASE r = entry
    BY <2>2, <1>4
  <2> QED BY <2>1, <2>2, <1>3
<1> QED BY <1>5, <1>6 DEF RowsFit

LEMMA TestStep ==
    ASSUME CampaignInv, NEW o \in Operator, TestSend(o) PROVE CampaignInv'
<1>0. Len(versions) \in Nat /\ active \in 0 .. Len(versions) /\ versions \in Seq(Shot)
  BY DEF CampaignInv
<1>1. CASE \E m \in Enabled :
             Load(o, [Off EXCEPT !.op = "test", !.on = m, !.optOut = message[m].optOut, !.number = active,
                      !.at = IF active = 0 THEN "snapshot" ELSE "queue"])
  <2>1. PICK m \in Enabled :
             Load(o, [Off EXCEPT !.op = "test", !.on = m, !.optOut = message[m].optOut, !.number = active,
                      !.at = IF active = 0 THEN "snapshot" ELSE "queue"])
    BY <1>1
  <2>2. PICK r : r = [Off EXCEPT !.op = "test", !.on = m, !.optOut = message[m].optOut, !.number = active,
                                 !.at = IF active = 0 THEN "snapshot" ELSE "queue"]
    OBVIOUS
  <2>3. m \in CampaignMessage /\ message[m].optOut \in BOOLEAN
    BY DEF Enabled, Present, CampaignInv, MessageRow
  <2>4. /\ r \in DeskRequest /\ r.op = "test" /\ r.on = m /\ r.at \in {"snapshot", "queue"} /\ r.number = active
        /\ (r.at = "queue" => active # 0)
    <3>1. active \in Nat
      BY <1>0
    <3>2. CASE active = 0
      <4>1. r = [Off EXCEPT !.op = "test", !.on = m, !.optOut = message[m].optOut, !.number = active, !.at = "snapshot"]
        BY <2>2, <3>2
      <4> QED BY <4>1, <2>3, <3>1, OffFits, OpsAndStages DEF DeskRequest
    <3>3. CASE active # 0
      <4>1. r = [Off EXCEPT !.op = "test", !.on = m, !.optOut = message[m].optOut, !.number = active, !.at = "queue"]
        BY <2>2, <3>3
      <4> QED BY <4>1, <3>3, <2>3, <3>1, OffFits, OpsAndStages DEF DeskRequest
    <3> QED BY <3>2, <3>3
  <2>5. r.at = "queue" => r.number \in 1 .. Len(versions)
    BY <2>4, <1>0
  <2>6. Fits([r EXCEPT !.category = category])
    BY <2>3, <2>4, <2>5 DEF Fits, DeskRequest
  <2> QED BY <2>1, <2>2, <2>4, <2>6, LoadStep
<1>2. ASSUME NEW own \in BOOLEAN, own = (desk[o].at = "commit"), Does(o, "test", "commit") \/ Does(o, "test", "queue"),
             desk[o].on \in Present /\ (own => NumberFree(o)),
             versions' = IF own THEN Append(versions, desk[o].shot) ELSE versions,
             queued' = queued \cup {QueueEntry(desk[o].on, desk[o].number, desk[o].optOut)}, Done(o),
             UNCHANGED <<status, category, message, flow, active, copies, requests, raced>>
      PROVE  CampaignInv'
  <2>1. PICK d : d = desk[o]
    OBVIOUS
  <2>2. d \in DeskRequest /\ Fits(d) /\ d.shot \in Shot /\ d.on \in CampaignMessage /\ d.optOut \in BOOLEAN /\ d.number \in Nat
    BY <2>1, <1>2, DeskIsRequest DEF Fits, DeskRequest, Does
  <2>3. /\ versions' \in Seq(Shot) /\ Len(versions) <= Len(versions')
        /\ \A n \in 1 .. Len(versions) : versions'[n] = versions[n]
        /\ d.number \in 1 .. Len(versions')
    <3>1. CASE own
      <4>1. versions' = Append(versions, d.shot) /\ d.number = Len(versions) + 1
        BY <1>2, <3>1, <2>1 DEF NumberFree
      <4>2. /\ versions' \in Seq(Shot) /\ Len(versions') = Len(versions) + 1
            /\ \A n \in 1 .. Len(versions) : versions'[n] = versions[n]
        BY <4>1, <2>2, OneMore
      <4> QED BY <4>1, <4>2, <1>0
    <3>2. CASE ~own
      <4>1. versions' = versions /\ d.op = "test" /\ d.at = "queue"
        BY <1>2, <3>2, <2>1 DEF Does
      <4>2. d.number \in 1 .. Len(versions)
        BY <4>1, <2>2 DEF Fits
      <4> QED BY <4>1, <4>2, <1>0
    <3> QED BY <3>1, <3>2
  <2>4. raced' \in BOOLEAN /\ (raced => raced')
    BY <1>2 DEF CampaignInv
  <2>5. Present' = Present /\ MarketingOptOut' /\ NumbersDistinct'
    BY <1>2, <2>4, SameMessages
  <2>6. ActiveVersionSendable'
    <3>1. active = 0 \/ versions'[active] = versions[active]
      BY <2>3, <1>0
    <3> QED BY <3>1, <1>2 DEF CampaignInv, ActiveVersionSendable, Sendable
  <2>7. RowsFit'
    BY <1>2, <2>1, <2>2, <2>3, <2>5, EntryFits
  <2>8. DesksFit'
    BY <1>2, <2>3, DoneStep
  <2>9. active' \in 0 .. Len(versions')
    BY <1>0, <1>2, <2>3
  <2> QED BY <1>2, <2>3, <2>4, <2>5, <2>6, <2>7, <2>8, <2>9 DEF CampaignInv
<1>3. PICK own \in BOOLEAN : own = (desk[o].at = "commit")
  <2>1. CASE desk[o].at = "commit"
    BY <2>1
  <2>2. CASE ~(desk[o].at = "commit")
    BY <2>2
  <2> QED BY <2>1, <2>2
<1> QED BY <1>1, <1>2, <1>3, RefusedStep DEF TestSend

LEMMA DuplicateStep ==
    ASSUME CampaignInv, NEW o \in Operator, Duplicate(o) PROVE CampaignInv'
<1>1. CASE Load(o, [Off EXCEPT !.op = "duplicate", !.at = "campaign"])
  <2>1. PICK r : r = [Off EXCEPT !.op = "duplicate", !.at = "campaign"]
    OBVIOUS
  <2>2. r \in DeskRequest /\ r.op = "duplicate" /\ r.at = "campaign"
    BY <2>1, OffFits, OpsAndStages DEF DeskRequest
  <2>3. Fits([r EXCEPT !.category = category])
    BY <2>2 DEF Fits, DeskRequest
  <2> QED BY <1>1, <2>1, <2>2, <2>3, LoadStep
<1>2. CASE /\ Does(o, "duplicate", "campaign")
           /\ Proceeds(o, [desk[o] EXCEPT !.at = "messages", !.wants = category])
           /\ UNCHANGED <<table, requests, raced>>
  <2>1. PICK d : d = desk[o]
    OBVIOUS
  <2>2. PICK news : news = [d EXCEPT !.at = "messages", !.wants = category]
    OBVIOUS
  <2>3. d \in DeskRequest /\ d.op = "duplicate" /\ category \in CampaignCategory
    BY <1>2, <2>1, DeskIsRequest DEF Does, CampaignInv
  <2>4. news \in DeskRequest /\ news.op = "duplicate" /\ news.at = "messages"
    BY <2>2, <2>3, OpsAndStages DEF DeskRequest
  <2>5. Fits(news)
    BY <2>4 DEF Fits
  <2> QED BY <1>2, <2>1, <2>2, <2>4, <2>5, ProceedStep
<1>3. CASE /\ Does(o, "duplicate", "messages") /\ Done(o)
           /\ copies' = copies \cup {[category |-> desk[o].wants, texts |-> Texts]}
           /\ raced' = (raced \/ desk[o].wants # category)
           /\ UNCHANGED <<status, category, message, flow, versions, active, queued, requests>>
  <2>1. PICK copy : copy = [category |-> desk[o].wants, texts |-> Texts]
    OBVIOUS
  <2>2. desk[o].wants \in CampaignCategory /\ Texts \in SUBSET Text
    BY DeskIsRequest, TextsAreTexts DEF DeskRequest, CampaignInv
  <2>3. copy \in Shot /\ copy.category = desk[o].wants /\ copy.texts = Texts
    BY <2>1, <2>2 DEF Shot
  <2>4. copies' \subseteq Shot
    BY <1>3, <2>1, <2>3 DEF CampaignInv
  <2>5. raced \in BOOLEAN
    BY DEF CampaignInv
  <2>6. raced' \in BOOLEAN /\ (raced => raced')
    BY <1>3, <2>5
  <2>7. Present' = Present /\ Texts' = Texts /\ NumbersDistinct'
    BY <1>3 DEF Present, Texts, Enabled, NumbersDistinct, CampaignInv
  <2>8. MarketingOptOut'
    <3> SUFFICES ASSUME ~raced' PROVE AllValid(Texts, category) /\ \A k \in copies' : AllValid(k.texts, k.category)
      BY <1>3, <2>7 DEF MarketingOptOut, AllValid
    <3>1. ~raced /\ desk[o].wants = category
      BY <1>3
    <3>2. AllValid(Texts, category) /\ \A k \in copies : AllValid(k.texts, k.category)
      BY <3>1 DEF CampaignInv, MarketingOptOut
    <3>3. AllValid(copy.texts, copy.category)
      BY <3>1, <3>2, <2>3
    <3> QED BY <3>2, <3>3, <1>3, <2>1
  <2>9. DesksFit' /\ ActiveVersionSendable' /\ RowsFit'
    BY <1>3, <2>6, <2>7, SameVersions, SameRows, DoneStep
  <2> QED BY <1>3, <2>4, <2>6, <2>7, <2>8, <2>9 DEF CampaignInv
<1> QED BY <1>1, <1>2, <1>3 DEF Duplicate

-----------------------------------------------------------------------------
(* The requests that write messages                                        *)

\* A request that changes one message, and is done.
LEMMA MessageStep ==
    ASSUME CampaignInv, NEW o \in Operator, Done(o),
           NEW m \in CampaignMessage, NEW r \in MessageRow, message' = [message EXCEPT ![m] = r],
           UNCHANGED <<status, category, flow, versions, active, queued, copies, requests>>,
           raced' \in BOOLEAN, raced => raced',
           \A k \in Present \ {m} : message[k].seq # r.seq,
           raced' \/ ~r.enabled \/ Valid(r.optOut, category)
    PROVE  CampaignInv'
<1>1. r # NoMessage /\ r \in MessageRow \cup {NoMessage}
  BY CampaignConstants
<1>2. /\ message' \in [CampaignMessage -> MessageRow \cup {NoMessage}]
      /\ Present' = Present \cup {m} /\ MarketingOptOut' /\ NumbersDistinct'
  BY <1>1, RowChanges
<1>3. DesksFit' /\ ActiveVersionSendable' /\ RowsFit'
  BY <1>2, SameVersions, SameRows, DoneStep
<1> QED BY <1>2, <1>3 DEF CampaignInv

LEMMA PostStep ==
    ASSUME CampaignInv, NEW o \in Operator, PostMessage(o) PROVE CampaignInv'
<1>1. CASE \E m \in Hand \ Present, optOut \in BOOLEAN :
             /\ Valid(optOut, category)
             /\ Load(o, [Off EXCEPT !.op = "post", !.at = "insert", !.on = m, !.optOut = optOut])
  <2>1. PICK m \in Hand \ Present, optOut \in BOOLEAN :
             /\ Valid(optOut, category)
             /\ Load(o, [Off EXCEPT !.op = "post", !.at = "insert", !.on = m, !.optOut = optOut])
    BY <1>1
  <2>2. PICK r : r = [Off EXCEPT !.op = "post", !.at = "insert", !.on = m, !.optOut = optOut]
    OBVIOUS
  <2>3. m \in CampaignMessage
    BY DEF CampaignMessage
  <2>4. r \in DeskRequest /\ r.op = "post" /\ r.at = "insert" /\ r.on = m /\ r.optOut = optOut
    BY <2>2, <2>3, OffFits, OpsAndStages DEF DeskRequest
  <2>5. Fits([r EXCEPT !.category = category])
    BY <2>1, <2>3, <2>4 DEF Fits, DeskRequest
  <2> QED BY <2>1, <2>2, <2>4, <2>5, LoadStep
<1>2. ASSUME NEW seq \in 1 .. Cardinality(CampaignMessage), NEW enabled \in BOOLEAN,
             Does(o, "post", "insert"), ~(seq \in Taken \/ desk[o].on \in Present), Done(o),
             message' = [message EXCEPT ![desk[o].on] = [seq |-> seq, optOut |-> desk[o].optOut, enabled |-> enabled]],
             raced' = (raced \/ desk[o].category # category),
             UNCHANGED <<status, category, flow, versions, active, queued, copies, requests>>
      PROVE  CampaignInv'
  <2>1. /\ desk[o].on \in CampaignMessage /\ desk[o].optOut \in BOOLEAN
        /\ Valid(desk[o].optOut, desk[o].category)
    BY <1>2, DeskIsRequest DEF Fits, DeskRequest, Does
  <2>2. PICK r : r = [seq |-> seq, optOut |-> desk[o].optOut, enabled |-> enabled]
    OBVIOUS
  <2>3. seq \in Nat \ {0}
    <3>1. Cardinality(CampaignMessage) \in Nat
      BY CampaignConstants, FS_CardinalityType
    <3> QED BY <3>1
  <2>4. r \in MessageRow /\ r.seq = seq /\ r.optOut = desk[o].optOut
    BY <2>1, <2>2, <2>3 DEF MessageRow
  <2>5. \A k \in Present \ {desk[o].on} : message[k].seq # r.seq
    BY <1>2, <2>4 DEF Taken
  <2>6. raced \in BOOLEAN
    BY DEF CampaignInv
  <2>7. raced' \in BOOLEAN /\ (raced => raced')
    BY <1>2, <2>6
  <2>8. raced' \/ Valid(r.optOut, category)
    BY <1>2, <2>1, <2>4
  <2> QED BY <1>2, <2>1, <2>2, <2>4, <2>5, <2>7, <2>8, MessageStep
<1> QED BY <1>1, <1>2, RefusedStep DEF PostMessage

LEMMA ChangedRow ==
    ASSUME CampaignInv, NEW r \in MessageRow, NEW edited \in Change
    PROVE  /\ Changed(r, edited) \in MessageRow
           /\ Changed(r, edited).optOut = (IF edited.of = "optOut" THEN edited.to ELSE r.optOut)
           /\ Changed(r, edited).seq = (IF edited.of = "seq" THEN edited.to ELSE r.seq)
<1>1. Cardinality(CampaignMessage) \in Nat
  BY CampaignConstants, FS_CardinalityType
<1>2. CASE edited.of = "optOut" /\ edited.to \in BOOLEAN
  BY <1>2 DEF Changed, MessageRow
<1>3. CASE edited.of = "enabled" /\ edited.to \in BOOLEAN
  BY <1>3 DEF Changed, MessageRow
<1>4. CASE edited.of = "seq" /\ edited.to \in 1 .. Cardinality(CampaignMessage)
  <2>1. edited.to \in Nat \ {0}
    BY <1>1, <1>4
  <2> QED BY <1>4, <2>1 DEF Changed, MessageRow
<1>5. \/ edited.of \in {"optOut", "enabled"} /\ edited.to \in BOOLEAN
      \/ edited.of = "seq" /\ edited.to \in 1 .. Cardinality(CampaignMessage)
  BY DEF Change
<1> QED BY <1>2, <1>3, <1>4, <1>5

LEMMA EditStep ==
    ASSUME CampaignInv, NEW o \in Operator, PatchMessage(o) PROVE CampaignInv'
<1>0. \A m \in Present : m \in CampaignMessage /\ message[m] \in MessageRow
  BY DEF Present, CampaignInv
<1>1. CASE \E m \in Present, edited \in Change :
             Load(o, [Off EXCEPT !.op = "edit", !.at = "read", !.on = m, !.change = edited])
  <2>1. PICK m \in Present, edited \in Change :
             Load(o, [Off EXCEPT !.op = "edit", !.at = "read", !.on = m, !.change = edited])
    BY <1>1
  <2>2. PICK r : r = [Off EXCEPT !.op = "edit", !.at = "read", !.on = m, !.change = edited]
    OBVIOUS
  <2>3. m \in CampaignMessage
    BY <1>0
  <2>4. r \in DeskRequest /\ r.op = "edit" /\ r.at = "read" /\ r.on = m /\ r.change = edited
    BY <2>2, <2>3, OffFits, OpsAndStages DEF DeskRequest
  <2>5. Fits([r EXCEPT !.category = category])
    BY <2>3, <2>4 DEF Fits, DeskRequest
  <2> QED BY <2>1, <2>2, <2>4, <2>5, LoadStep
<1>2. PICK r : r = message[desk[o].on]
  OBVIOUS
<1>3. ASSUME Does(o, "edit", "read"), desk[o].on \in Present,
             Valid(Changed(r, desk[o].change).optOut, desk[o].category),
             Proceeds(o, [desk[o] EXCEPT !.at = "write", !.optOutSeen = r.optOut]),
             UNCHANGED <<table, requests, raced>>
      PROVE  CampaignInv'
  <2>1. PICK d : d = desk[o]
    OBVIOUS
  <2>2. PICK news : news = [d EXCEPT !.at = "write", !.optOutSeen = r.optOut]
    OBVIOUS
  <2>3. d \in DeskRequest /\ d.op = "edit" /\ d.change \in Change /\ d.on \in CampaignMessage
    BY <1>3, <2>1, DeskIsRequest DEF Does, Fits
  <2>4. r \in MessageRow /\ r.optOut \in BOOLEAN
    BY <1>0, <1>2, <1>3 DEF MessageRow
  <2>5. Valid(IF d.change.of = "optOut" THEN d.change.to ELSE r.optOut, d.category)
    BY <1>3, <2>1, <2>3, <2>4, ChangedRow
  <2>6. /\ news \in DeskRequest /\ news.op = "edit" /\ news.at = "write" /\ news.change = d.change
        /\ news.on = d.on /\ news.category = d.category /\ news.optOutSeen = r.optOut
    BY <2>2, <2>3, <2>4, OpsAndStages DEF DeskRequest
  <2>7. Fits(news)
    BY <2>3, <2>5, <2>6 DEF Fits
  <2> QED BY <1>3, <2>1, <2>2, <2>6, <2>7, ProceedStep
<1>4. ASSUME Does(o, "edit", "write"), desk[o].on \in Present, ~NumberTaken(r, desk[o].change),
             message' = [message EXCEPT ![desk[o].on] = Changed(r, desk[o].change)],
             raced' = (raced \/ desk[o].category # category \/ desk[o].optOutSeen # r.optOut), Done(o),
             UNCHANGED <<status, category, flow, versions, active, queued, copies, requests>>
      PROVE  CampaignInv'
  <2>1. PICK d : d = desk[o]
    OBVIOUS
  <2>2. /\ d.change \in Change /\ d.on \in CampaignMessage
        /\ Valid(IF d.change.of = "optOut" THEN d.change.to ELSE d.optOutSeen, d.category)
    BY <1>4, <2>1, DeskIsRequest DEF Does, Fits
  <2>3. r \in MessageRow
    BY <1>0, <1>2, <1>4
  <2>4. PICK next : next = Changed(r, d.change)
    OBVIOUS
  <2>5. /\ next \in MessageRow /\ next.optOut = (IF d.change.of = "optOut" THEN d.change.to ELSE r.optOut)
        /\ next.seq = (IF d.change.of = "seq" THEN d.change.to ELSE r.seq)
    BY <2>2, <2>3, <2>4, ChangedRow
  <2>6. ASSUME NEW k \in Present \ {d.on} PROVE message[k].seq # next.seq
    <3>1. message[k].seq # r.seq /\ message[k].seq \in Taken
      BY <1>2, <1>4, <2>1 DEF CampaignInv, NumbersDistinct, Taken
    <3>2. CASE d.change.of = "seq"
      <4>1. d.change.to \notin Taken \ {r.seq}
        BY <1>4, <2>1, <3>2 DEF NumberTaken
      <4> QED BY <4>1, <3>1, <3>2, <2>5
    <3>3. CASE d.change.of # "seq"
      BY <3>1, <3>3, <2>5
    <3> QED BY <3>2, <3>3
  <2>7. raced \in BOOLEAN
    BY DEF CampaignInv
  <2>8. raced' \in BOOLEAN /\ (raced => raced')
    BY <1>4, <2>7
  <2>9. raced' \/ Valid(next.optOut, category)
    BY <1>4, <2>1, <2>2, <2>5
  <2> QED BY <1>4, <2>1, <2>2, <2>4, <2>5, <2>6, <2>8, <2>9, MessageStep
<1> QED BY <1>1, <1>2, <1>3, <1>4, RefusedStep DEF PatchMessage

\* Rows of a message go with it.
LEMMA EraseStep ==
    ASSUME CampaignInv, NEW o \in Operator, Erase(o) PROVE CampaignInv'
<1>1. /\ Does(o, "delete", "erase") /\ Done(o) /\ message' = [message EXCEPT ![desk[o].on] = NoMessage]
      /\ queued' = {k \in queued : k.message # desk[o].on}
      /\ UNCHANGED <<status, category, flow, versions, active, copies, requests, raced>>
  BY DEF Erase
<1>2. PICK m : m = desk[o].on
  OBVIOUS
<1>3. m \in CampaignMessage
  BY <1>1, <1>2, DeskIsRequest DEF Does, Fits
<1>4. raced' \in BOOLEAN /\ (raced => raced')
  BY <1>1 DEF CampaignInv
<1>5. /\ message' \in [CampaignMessage -> MessageRow \cup {NoMessage}]
      /\ Present' = Present \ {m} /\ MarketingOptOut' /\ NumbersDistinct'
  <2>1. PICK none : none = NoMessage
    OBVIOUS
  <2>2. none \in MessageRow \cup {NoMessage} /\ message' = [message EXCEPT ![m] = none]
    BY <1>1, <1>2, <2>1
  <2> QED BY <1>1, <1>3, <1>4, <2>1, <2>2, RowChanges
<1>6. RowsFit'
  <2>1. versions' = versions /\ queued' = {k \in queued : k.message # m}
    BY <1>1, <1>2
  <2> QED BY <2>1, <1>5 DEF CampaignInv, RowsFit
<1>7. DesksFit' /\ ActiveVersionSendable'
  BY <1>1, <1>4, SameVersions, DoneStep
<1> QED BY <1>1, <1>4, <1>5, <1>6, <1>7 DEF CampaignInv

LEMMA DeleteStep ==
    ASSUME CampaignInv, NEW o \in Operator, DeleteMessage(o) PROVE CampaignInv'
<1>0. \A m \in Present : m \in CampaignMessage /\ message[m] \in MessageRow
  BY DEF Present, CampaignInv
<1>1. CASE \E m \in Present : Load(o, [Off EXCEPT !.op = "delete", !.at = "count", !.on = m])
  <2>1. PICK m \in Present : Load(o, [Off EXCEPT !.op = "delete", !.at = "count", !.on = m])
    BY <1>1
  <2>2. PICK r : r = [Off EXCEPT !.op = "delete", !.at = "count", !.on = m]
    OBVIOUS
  <2>3. m \in CampaignMessage
    BY <1>0
  <2>4. r \in DeskRequest /\ r.op = "delete" /\ r.at = "count" /\ r.on = m
    BY <2>2, <2>3, OffFits, OpsAndStages DEF DeskRequest
  <2>5. Fits([r EXCEPT !.category = category])
    BY <2>3, <2>4 DEF Fits, DeskRequest
  <2> QED BY <2>1, <2>2, <2>4, <2>5, LoadStep
<1>2. ASSUME NEW stage \in {"disable", "erase"}, Does(o, "delete", "count"),
             Proceeds(o, [desk[o] EXCEPT !.at = stage]), UNCHANGED <<table, requests, raced>>
      PROVE  CampaignInv'
  <2>1. PICK d : d = desk[o]
    OBVIOUS
  <2>2. PICK news : news = [d EXCEPT !.at = stage]
    OBVIOUS
  <2>3. d \in DeskRequest /\ d.op = "delete" /\ d.on \in CampaignMessage
    BY <1>2, <2>1, DeskIsRequest DEF Does, Fits
  <2>4. news \in DeskRequest /\ news.op = "delete" /\ news.at \in {"disable", "erase"} /\ news.on = d.on
    BY <2>2, <2>3, OpsAndStages DEF DeskRequest
  <2>5. Fits(news)
    BY <2>3, <2>4 DEF Fits
  <2> QED BY <1>2, <2>1, <2>2, <2>4, <2>5, ProceedStep
<1>3. ASSUME Does(o, "delete", "disable"), desk[o].on \in Present,
             message' = [message EXCEPT ![desk[o].on].enabled = FALSE], Done(o),
             UNCHANGED <<status, category, flow, versions, active, queued, copies, requests, raced>>
      PROVE  CampaignInv'
  <2>1. PICK m \in CampaignMessage : m = desk[o].on
    BY <1>0, <1>3
  <2>2. PICK r : r = [message[m] EXCEPT !.enabled = FALSE]
    OBVIOUS
  <2>3. r \in MessageRow /\ r.seq = message[m].seq /\ ~r.enabled
    BY <1>0, <1>3, <2>1, <2>2 DEF MessageRow
  <2>4. message' = [message EXCEPT ![m] = r]
    BY <1>3, <2>1, <2>2
  <2>5. \A k \in Present \ {m} : message[k].seq # r.seq
    BY <1>3, <2>1, <2>3 DEF CampaignInv, NumbersDistinct
  <2>6. raced' \in BOOLEAN /\ (raced => raced')
    BY <1>3 DEF CampaignInv
  <2> QED BY <1>3, <2>3, <2>4, <2>5, <2>6, MessageStep
<1>4. CASE Erase(o)
  BY <1>4, EraseStep
<1>5. ASSUME Does(o, "delete", "count"),
             Proceeds(o, [desk[o] EXCEPT !.at = IF \E k \in queued : k.message = desk[o].on
                                              THEN "disable" ELSE "erase"]),
             UNCHANGED <<table, requests, raced>>
      PROVE  CampaignInv'
  <2>1. CASE \E k \in queued : k.message = desk[o].on
    <3>1. "disable" \in {"disable", "erase"} /\ Proceeds(o, [desk[o] EXCEPT !.at = "disable"])
      BY <1>5, <2>1
    <3> QED BY <3>1, <1>2, <1>5
  <2>2. CASE ~\E k \in queued : k.message = desk[o].on
    <3>1. "erase" \in {"disable", "erase"} /\ Proceeds(o, [desk[o] EXCEPT !.at = "erase"])
      BY <1>5, <2>2
    <3> QED BY <3>1, <1>2, <1>5
  <2> QED BY <2>1, <2>2
<1> QED BY <1>1, <1>3, <1>4, <1>5, RefusedStep DEF DeleteMessage

\* A save of the canvas.
LEMMA SaveStep ==
    ASSUME CampaignInv, NEW o \in Operator, SaveFlow(o) PROVE CampaignInv'
<1>0. Present \in SUBSET CampaignMessage
  BY DEF Present
<1>1. CASE \E f \in Flows, optOut \in BOOLEAN :
             /\ Valid(optOut, category)
             /\ Load(o, [Off EXCEPT !.op = "flow", !.at = "plan", !.flow = f, !.optOut = optOut])
  <2>1. PICK f \in Flows, optOut \in BOOLEAN :
             /\ Valid(optOut, category)
             /\ Load(o, [Off EXCEPT !.op = "flow", !.at = "plan", !.flow = f, !.optOut = optOut])
    BY <1>1
  <2>2. PICK r : r = [Off EXCEPT !.op = "flow", !.at = "plan", !.flow = f, !.optOut = optOut]
    OBVIOUS
  <2>3. r \in DeskRequest /\ r.op = "flow" /\ r.at = "plan" /\ r.optOut = optOut
    BY <2>2, OffFits, OpsAndStages DEF DeskRequest
  <2>4. Fits([r EXCEPT !.category = category])
    BY <2>1, <2>3 DEF Fits, DeskRequest
  <2> QED BY <2>1, <2>2, <2>3, <2>4, LoadStep
<1>2. ASSUME NEW stage \in {"park", "wait", "commit"}, NEW plan \in SUBSET CampaignMessage,
             NEW visible \in SUBSET CampaignMessage, desk[o].op = "flow",
             Proceeds(o, [desk[o] EXCEPT !.at = stage, !.plan = plan, !.visible = visible]),
             UNCHANGED <<table, requests, raced>>
      PROVE  CampaignInv'
  <2>1. PICK d : d = desk[o]
    OBVIOUS
  <2>2. PICK news : news = [d EXCEPT !.at = stage, !.plan = plan, !.visible = visible]
    OBVIOUS
  <2>3. d \in DeskRequest /\ d.op = "flow" /\ Valid(d.optOut, d.category)
    BY <1>2, <2>1, DeskIsRequest DEF Fits
  <2>4. stage \in DeskStage /\ stage # "snapshot"
    BY OpsAndStages
  <2>5. /\ news \in DeskRequest /\ news.op = "flow" /\ news.at # "snapshot"
        /\ news.optOut = d.optOut /\ news.category = d.category
    BY <2>2, <2>3, <2>4 DEF DeskRequest
  <2>6. Fits(news)
    BY <2>3, <2>5 DEF Fits
  <2> QED BY <1>2, <2>1, <2>2, <2>5, <2>6, ProceedStep
<1>3. desk[o] \in DeskRequest /\ desk[o].plan \in SUBSET CampaignMessage /\ desk[o].visible \in SUBSET CampaignMessage
  BY DeskIsRequest DEF DeskRequest
<1>4. CASE ReadPlan(o)
  <2>1. [desk[o] EXCEPT !.at = "park", !.plan = Present]
          = [desk[o] EXCEPT !.at = "park", !.plan = Present, !.visible = desk[o].visible]
    BY <1>3 DEF DeskRequest
  <2>2. "park" \in {"park", "wait", "commit"} /\ desk[o].op = "flow"
        /\ Proceeds(o, [desk[o] EXCEPT !.at = "park", !.plan = Present, !.visible = desk[o].visible])
        /\ UNCHANGED <<table, requests, raced>>
    BY <1>4, <2>1 DEF ReadPlan, Does
  <2> QED BY <2>2, <1>0, <1>2, <1>3
<1>5. CASE Park(o)
  <2>1. ASSUME NEW stage \in {"park", "wait", "commit"}, desk[o].op = "flow",
               Proceeds(o, [desk[o] EXCEPT !.visible = Present, !.at = stage]), UNCHANGED <<table, requests, raced>>
        PROVE  CampaignInv'
    <3>1. [desk[o] EXCEPT !.visible = Present, !.at = stage]
            = [desk[o] EXCEPT !.at = stage, !.plan = desk[o].plan, !.visible = Present]
      BY <1>3 DEF DeskRequest
    <3>2. Proceeds(o, [desk[o] EXCEPT !.at = stage, !.plan = desk[o].plan, !.visible = Present])
      BY <2>1, <3>1
    <3> QED BY <3>2, <2>1, <1>0, <1>2, <1>3
  <2>2. CASE /\ Does(o, "flow", "park")
             /\ Proceeds(o, [desk[o] EXCEPT !.visible = Present,
                                            !.at = IF Saving = {} \/ Present = {} THEN "commit" ELSE "wait"])
             /\ UNCHANGED <<table, requests, raced>>
    <3>1. PICK stage \in {"park", "wait", "commit"} : stage = IF Saving = {} \/ Present = {} THEN "commit" ELSE "wait"
      OBVIOUS
    <3>2. desk[o].op = "flow" /\ Proceeds(o, [desk[o] EXCEPT !.visible = Present, !.at = stage])
      BY <2>2, <3>1 DEF Does
    <3> QED BY <3>2, <2>1, <2>2
  <2>3. CASE /\ Does(o, "flow", "wait") /\ Saving = {}
             /\ Proceeds(o, [desk[o] EXCEPT !.at = "commit"])
             /\ UNCHANGED <<table, requests, raced>>
    <3>1. [desk[o] EXCEPT !.at = "commit"]
            = [desk[o] EXCEPT !.at = "commit", !.plan = desk[o].plan, !.visible = desk[o].visible]
      BY <1>3 DEF DeskRequest
    <3>2. "commit" \in {"park", "wait", "commit"} /\ desk[o].op = "flow"
          /\ Proceeds(o, [desk[o] EXCEPT !.at = "commit", !.plan = desk[o].plan, !.visible = desk[o].visible])
          /\ UNCHANGED <<table, requests, raced>>
      BY <2>3, <3>1 DEF Does
    <3> QED BY <3>2, <1>2, <1>3
  <2> QED BY <1>5, <2>2, <2>3 DEF Park
<1>6. CASE Does(o, "flow", "commit") /\ Collides(o) /\ Refused(o)
  BY <1>6, RefusedStep
<1>7. CASE /\ Does(o, "flow", "commit") /\ ~Collides(o) /\ Done(o)
           /\ message' = [m \in CampaignMessage |-> SyncedRow(o, m)]
           /\ flow' = desk[o].flow
           /\ raced' = (raced \/ desk[o].category # category)
           /\ UNCHANGED <<status, category, versions, active, queued, copies, requests>>
  <2>1. /\ message' \in [CampaignMessage -> MessageRow \cup {NoMessage}]
        /\ Present \subseteq Present' /\ NumbersDistinct'
        /\ \A m \in Claimed(o) : message'[m].optOut = desk[o].optOut
        /\ Enabled' \subseteq Claimed(o) \cup (Enabled \ Orphans(o))
        /\ \A m \in CampaignMessage \ (Claimed(o) \cup Orphans(o)) : message'[m] = message[m]
    BY <1>7, SaveRows
  <2>2. Valid(desk[o].optOut, desk[o].category)
    BY <1>7, DeskIsRequest DEF Fits, Does
  <2>3. raced \in BOOLEAN
    BY DEF CampaignInv
  <2>4. raced' \in BOOLEAN /\ (raced => raced')
    BY <1>7, <2>3
  <2>5. MarketingOptOut'
    <3> SUFFICES ASSUME ~raced' PROVE AllValid(Texts', category) /\ \A copy \in copies : AllValid(copy.texts, copy.category)
      BY <1>7 DEF MarketingOptOut, AllValid
    <3>1. ~raced /\ desk[o].category = category
      BY <1>7
    <3>2. AllValid(Texts, category) /\ \A copy \in copies : AllValid(copy.texts, copy.category)
      BY <3>1 DEF CampaignInv, MarketingOptOut
    <3>3. ASSUME NEW text \in Texts' PROVE Valid(text[2], category)
      <4>1. PICK m \in Enabled' : text = <<m, message'[m].optOut>>
        BY DEF Texts
      <4>2. CASE m \in Claimed(o)
        BY <4>1, <4>2, <2>1, <2>2, <3>1
      <4>3. CASE m \notin Claimed(o)
        <5>1. m \in Enabled /\ m \notin Orphans(o) /\ m \in CampaignMessage
          BY <4>3, <2>1 DEF Enabled, Present
        <5>2. message'[m] = message[m]
          BY <4>3, <5>1, <2>1
        <5>3. <<m, message[m].optOut>> \in Texts
          BY <5>1 DEF Texts
        <5> QED BY <4>1, <5>2, <5>3, <3>2 DEF AllValid
      <4> QED BY <4>2, <4>3
    <3> QED BY <3>2, <3>3 DEF AllValid
  <2>6. DesksFit' /\ ActiveVersionSendable' /\ RowsFit'
    BY <1>7, <2>1, <2>4, SameVersions, SameRows, DoneStep
  <2>7. flow' \in Flows \cup {<<>>}
    BY <1>7, NodesArePlaced
  <2> QED BY <1>7, <2>1, <2>4, <2>5, <2>6, <2>7 DEF CampaignInv
<1> QED BY <1>1, <1>4, <1>5, <1>6, <1>7 DEF SaveFlow

LEMMA JourneyStep ==
    ASSUME CampaignInv, NEW m \in CampaignMessage, Journey(m) PROVE CampaignInv'
<1>1. /\ status = "active" /\ m \in Present
      /\ queued' = queued \cup {QueueEntry(m, active, message[m].optOut)}
      /\ UNCHANGED <<status, category, message, flow, versions, active, copies, desk, requests, raced>>
  BY DEF Journey, Enabled
<1>2. message[m].optOut \in BOOLEAN
  BY <1>1 DEF Present, CampaignInv, MessageRow
<1>3. active \in 1 .. Len(versions) /\ active \in Nat /\ Len(versions) \in Nat /\ versions \in Seq(Shot)
  BY <1>1 DEF CampaignInv
<1>4. raced' \in BOOLEAN /\ (raced => raced')
  BY <1>1 DEF CampaignInv
<1>5. Present' = Present /\ MarketingOptOut' /\ NumbersDistinct' /\ ActiveVersionSendable'
  BY <1>1, <1>4, SameMessages, SameVersions
<1>6. RowsFit'
  <2>1. versions' \in Seq(Shot) /\ Len(versions) <= Len(versions') /\ active \in 1 .. Len(versions')
    BY <1>1, <1>3
  <2> QED BY <1>1, <1>2, <1>3, <1>5, <2>1, EntryFits
<1>7. DesksFit'
  BY <1>1 DEF CampaignInv, DesksFit, Fits
<1> QED BY <1>1, <1>4, <1>5, <1>6, <1>7 DEF CampaignInv

LEMMA CampaignStep == CampaignInv /\ [CampaignNext]_campaignVars => CampaignInv'
<1> SUFFICES ASSUME CampaignInv, [CampaignNext]_campaignVars PROVE CampaignInv'
  OBVIOUS
<1>1. CASE CampaignNext
  BY <1>1, ArchiveStep, PauseStep, PatchCampaignStep, ActivateStep, SnapshotStep, TestStep, DuplicateStep, PostStep, EditStep,
     DeleteStep, SaveStep, JourneyStep DEF CampaignNext
<1>2. CASE UNCHANGED campaignVars
  BY <1>2 DEF campaignVars, table, CampaignInv, DesksFit, Fits, RowsFit, Present, MarketingOptOut, AllValid, Texts,
              Enabled, ActiveVersionSendable, NumbersDistinct
<1> QED BY <1>1, <1>2

LEMMA CampaignPromise ==
    CampaignInv => CampaignTypeOK /\ MarketingOptOut /\ ActiveVersionSendable /\ NumbersDistinct
<1> SUFFICES ASSUME CampaignInv PROVE CampaignTypeOK
  BY DEF CampaignInv
<1>1. DOMAIN versions = 1 .. Len(versions) /\ \A n \in DOMAIN versions : versions[n] \in Shot
  BY DEF CampaignInv
<1> QED BY <1>1 DEF CampaignInv, RowsFit, Shot, CampaignTypeOK

\* The step of a save that nothing came between.
LEMMA SavedFlowStep ==
    ASSUME CampaignInv, [CampaignNext]_campaignVars, NEW o \in Operator,
           Does(o, "flow", "commit"), desk'[o] = Off, ~Collides(o), desk[o].plan = Present, desk[o].visible = Present
    PROVE  Enabled' = Nodes(o) /\ \A n \in Nodes(o) : message'[n].seq = Place(o, n)
<1>1. desk[o].op = "flow" /\ desk[o].at = "commit" /\ desk[o] # Off /\ desk' # desk
  BY DEF Does, Off
<1>2. message' = [m \in CampaignMessage |-> SyncedRow(o, m)]
  <2>1. CampaignNext /\ \A m \in CampaignMessage : ~Journey(m)
    BY <1>1 DEF campaignVars, Journey
  <2>2. PICK p \in Operator :
          \/ Archive(p) \/ PauseCampaign(p) \/ PatchCampaign(p)
          \/ Activate(p) \/ Snapshot(p) \/ TestSend(p) \/ Duplicate(p)
          \/ PostMessage(p) \/ PatchMessage(p) \/ DeleteMessage(p) \/ SaveFlow(p)
    BY <2>1 DEF CampaignNext
  <2>3. p = o
    <3>1. \E r : desk' = [desk EXCEPT ![p] = r]
      BY <2>2 DEF Archive, PauseCampaign, PatchCampaign, CheckMessages, Activate, Validate, Snapshot, TestSend, Duplicate,
                  PostMessage, PatchMessage, DeleteMessage, Erase, SaveFlow, ReadPlan, Park, Load, Done, Proceeds, Refused
    <3> QED BY <3>1, <1>1
  <2>4. ~Archive(o) /\ ~PauseCampaign(o) /\ ~PatchCampaign(o) /\ ~Activate(o)
    BY <1>1 DEF Archive, PauseCampaign, PatchCampaign, CheckMessages, Activate, Validate, Load, Does
  <2>5. ~Snapshot(o) /\ ~TestSend(o) /\ ~Duplicate(o) /\ ~PostMessage(o)
    BY <1>1 DEF Snapshot, TestSend, Duplicate, PostMessage, Load, Does
  <2>6. ~PatchMessage(o) /\ ~DeleteMessage(o)
    BY <1>1 DEF PatchMessage, DeleteMessage, Erase, Load, Does
  <2>7. SaveFlow(o)
    BY <2>2, <2>3, <2>4, <2>5, <2>6
  <2> QED BY <2>7, <1>1 DEF SaveFlow, ReadPlan, Park, Load, Does
<1>3. /\ \A m \in Claimed(o) : message'[m].seq = Place(o, m)
      /\ Enabled' \subseteq Claimed(o) \cup (Enabled \ Orphans(o)) /\ Claimed(o) \subseteq Enabled'
  BY <1>2, SaveRows
<1>4. Claimed(o) = Nodes(o)
  BY DEF Claimed
<1>5. Enabled \ Orphans(o) \subseteq Nodes(o)
  BY DEF Orphans, Enabled
<1> QED BY <1>3, <1>4, <1>5

(***************************************************************************)
(* For any operators, messages, canvases and requests, in any order: a     *)
(* message of a marketing campaign, and of a copy of it, has its opt-out   *)
(* unless a write was decided on what had changed since; the active        *)
(* version can be sent; no two messages share a number; and every queued   *)
(* row has its message and its version (campaigns.ts, flow.ts).            *)
(***************************************************************************)
THEOREM CampaignsKeepTheirPromise == ServicesSpec => []CampaignHolds
<1>1. ServicesInit => CampaignInv
  BY CampaignStart DEF ServicesInit
<1>2. CampaignInv /\ [ServicesNext]_servicesVars => CampaignInv'
  <2>1. [ServicesNext]_servicesVars => [CampaignNext]_campaignVars
    BY DEF ServicesNext, servicesVars
  <2> QED BY <2>1, CampaignStep
<1>3. CampaignInv => CampaignHolds
  BY CampaignPromise DEF CampaignHolds
<1> QED BY <1>1, <1>2, <1>3, PTL DEF ServicesSpec

(***************************************************************************)
(* A save of the canvas that no message came into or went from runs as it  *)
(* was drawn: its nodes and nothing else enabled, in its order (flow.ts).  *)
(***************************************************************************)
THEOREM SavedFlowsRun == ServicesSpec => SavedFlowRuns
<1>1. ServicesInit => CampaignInv
  BY CampaignStart DEF ServicesInit
<1>2. [ServicesNext]_servicesVars => [CampaignNext]_campaignVars
  BY DEF ServicesNext, servicesVars
<1>3. CampaignInv /\ [ServicesNext]_servicesVars => CampaignInv'
  BY <1>2, CampaignStep
<1>4. CampaignInv /\ [ServicesNext]_servicesVars =>
        [\A o \in Operator :
          /\ Does(o, "flow", "commit") /\ desk'[o] = Off /\ ~Collides(o)
          /\ desk[o].plan = Present /\ desk[o].visible = Present
          => /\ Enabled' = Nodes(o)
             /\ \A n \in Nodes(o) : message'[n].seq = Place(o, n)]_campaignVars
  BY <1>2, SavedFlowStep
<1> QED BY <1>1, <1>3, <1>4, PTL DEF ServicesSpec, SavedFlowRuns

-----------------------------------------------------------------------------
(* Segments                                                                *)

Three == {"true", "false", "null"}
CompiledLeaf(leaf) == IsLeaf(leaf) /\ ~Uncompilable(leaf)
CompiledRule(rule) ==
    CompiledLeaf(rule) \/ (rule.op \in Groups /\ \A leaf \in rule.rules : CompiledLeaf(leaf))

\* What each operator compiles to: of an array, in a comparison, of a column.
LEMMA TagsValues ==
    ASSUME NEW v, NEW x
    PROVE  /\ OfTags("is_set", v, x) = (IF v = {} THEN "false" ELSE "true")
           /\ OfTags("is_not_set", v, x) = (IF v = {} THEN "true" ELSE "false")
           /\ OfTags("contains", v, x) = (IF x \in v THEN "true" ELSE "false")
           /\ OfTags("not_contains", v, x) = (IF x \in v THEN "false" ELSE "true")
           /\ OfTags("in", v, x) = (IF x \cap v = {} THEN "false" ELSE "true")
           /\ OfTags("not_in", v, x) = (IF x \cap v = {} THEN "true" ELSE "false")
BY DEF OfTags, ToSql

LEMMA ComparisonValues ==
    ASSUME NEW v, NEW x
    PROVE  /\ Comparison("eq", v, x) = (IF v = Unset THEN "null" ELSE IF v = x THEN "true" ELSE "false")
           /\ Comparison("neq", v, x) = (IF v = x THEN "false" ELSE "true")
           /\ \A op \in {"gt", "gte", "lt", "lte"} : Comparison(op, v, x) \in Three
<1>1. Comparison("eq", v, x) = Strict(v, v = x)
  BY DEF Comparison
<1>2. Comparison("neq", v, x) = ToSql(v # x)
  BY DEF Comparison
<1>3. \A b : ToSql(b) \in Three
  BY DEF ToSql, Three
<1>4. ASSUME NEW op \in {"gt", "gte", "lt", "lte"} PROVE Comparison(op, v, x) \in Three
  <2>1. Comparison(op, v, x) =
            IF v = Unset THEN "null" ELSE IF v = Words THEN "false"
            ELSE ToSql(CASE op = "gt" -> v > x [] op = "gte" -> v >= x
                         [] op = "lt" -> v < x [] op = "lte" -> v <= x)
    BY DEF Comparison
  <2> QED BY <2>1, <1>3 DEF Three
<1> QED BY <1>1, <1>2, <1>4 DEF Strict, ToSql

LEMMA SetColumns ==
    ASSUME NEW v, NEW x
    PROVE  /\ OfColumn("is_set", v, x) = (IF v = Unset THEN "false" ELSE "true")
           /\ OfColumn("is_not_set", v, x) = (IF v = Unset THEN "true" ELSE "false")
BY DEF OfColumn, ToSql

LEMMA DayColumns ==
    ASSUME NEW v, NEW x
    PROVE  /\ OfColumn("within_days", v, x) =
                 (IF v = Unset THEN "null" ELSE IF v >= dayNow - x THEN "true" ELSE "false")
           /\ OfColumn("not_within_days", v, x) = (IF v = Unset \/ v < dayNow - x THEN "true" ELSE "false")
BY DEF OfColumn, ToSql

LEMMA TextColumns ==
    ASSUME NEW v, NEW x
    PROVE  /\ OfColumn("contains", v, x) =
                 (IF v = Unset THEN "null" ELSE IF <<x, v>> \in Substring THEN "true" ELSE "false")
           /\ OfColumn("not_contains", v, x) =
                 (IF v = Unset \/ <<x, v>> \notin Substring THEN "true" ELSE "false")
BY DEF OfColumn, Strict, Lenient, ToSql

LEMMA ListColumns ==
    ASSUME NEW v, NEW x
    PROVE  /\ OfColumn("in", v, x) = (IF v = Unset THEN "null" ELSE IF v \in x THEN "true" ELSE "false")
           /\ OfColumn("not_in", v, x) = (IF v = Unset \/ v \notin x THEN "true" ELSE "false")
BY DEF OfColumn, Strict, Lenient, ToSql

LEMMA ComparedColumns ==
    ASSUME NEW v, NEW x, NEW op \in {"eq", "neq", "gt", "gte", "lt", "lte"}
    PROVE  OfColumn(op, v, x) = Comparison(op, v, x)
BY DEF OfColumn

\* What a compiled rule is, in values that are known of the row.
LEMMA LeafMeaning ==
    ASSUME NEW leaf, CompiledLeaf(leaf), person \in Person, dayNow \in Int
    PROVE  LeafSql(leaf) \in Three /\ LeafHolds(leaf) = (LeafSql(leaf) = "true")
<1> DEFINE x == leaf.value
<1>1. leaf.op \in Operators /\ leaf.field \in {"score", "visit", "tags"} /\ x # Unset
      /\ DOMAIN leaf = {"op", "field", "value"}
      /\ (leaf.op \in {"within_days", "not_within_days"} => x \in Int)
  BY DEF CompiledLeaf, IsLeaf
<1>4. ASSUME NEW other, other = [leaf EXCEPT !.op = Opposite(@)]
      PROVE  other.op = Opposite(leaf.op) /\ other.field = leaf.field /\ other.value = x
  BY <1>1, <1>4
<1>5. CASE leaf.field = "tags"
  <2> DEFINE v == person.tags
  <2>1. leaf.op \in {"is_set", "is_not_set", "contains", "not_contains", "in", "not_in"}
    BY <1>1, <1>5 DEF CompiledLeaf, Uncompilable, Operators
  <2>2. LeafSql(leaf) = OfTags(leaf.op, v, x)
    BY <1>5 DEF LeafSql
  <2>3. LeafSql(leaf) \in Three
    BY <2>1, <2>2, TagsValues DEF Three
  <2>4. CASE leaf.op \notin Negative
    BY <2>3, <2>4 DEF LeafHolds
  <2>5. CASE leaf.op \in Negative
    <3>1. PICK other : other = [leaf EXCEPT !.op = Opposite(@)]
      OBVIOUS
    <3>2. other.op = Opposite(leaf.op) /\ other.field = "tags" /\ other.value = x
      BY <1>4, <1>5, <3>1
    <3>3. LeafHolds(leaf) = (OfTags(Opposite(leaf.op), v, x) # "true")
      BY <2>5, <3>1, <3>2 DEF LeafHolds, LeafSql
    <3>4. CASE leaf.op = "is_not_set"
      <4>1. Opposite(leaf.op) = "is_set"
        BY <3>4 DEF Opposite
      <4> QED BY <2>2, <2>3, <3>3, <3>4, <4>1, TagsValues
    <3>5. CASE leaf.op = "not_contains"
      <4>1. Opposite(leaf.op) = "contains"
        BY <3>5 DEF Opposite
      <4> QED BY <2>2, <2>3, <3>3, <3>5, <4>1, TagsValues
    <3>6. CASE leaf.op = "not_in"
      <4>1. Opposite(leaf.op) = "in"
        BY <3>6 DEF Opposite
      <4> QED BY <2>2, <2>3, <3>3, <3>6, <4>1, TagsValues
    <3> QED BY <2>1, <2>5, <3>4, <3>5, <3>6 DEF Negative
  <2> QED BY <2>4, <2>5
<1>6. CASE leaf.field \in {"score", "visit"}
  <2> DEFINE v == person[leaf.field]
  <2>1. v = Unset \/ v \in Int \/ leaf.field = "score"
    BY <1>6, AudienceConstants DEF AudienceConstants, Person
  <2>2. LeafSql(leaf) = OfColumn(leaf.op, v, x)
    BY <1>6 DEF LeafSql
  <2> HIDE DEF v, x
  <2>3. LeafSql(leaf) \in Three
    <3>1. CASE leaf.op \in {"eq", "neq", "gt", "gte", "lt", "lte"}
      BY <2>2, <3>1, ComparedColumns, ComparisonValues DEF Three
    <3>2. CASE leaf.op \in {"in", "not_in"}
      BY <2>2, <3>2, ListColumns DEF Three
    <3>5. CASE leaf.op \in {"contains", "not_contains"}
      BY <2>2, <3>5, TextColumns DEF Three
    <3>3. CASE leaf.op \in {"is_set", "is_not_set", "not_within_days"}
      BY <2>2, <3>3, SetColumns, DayColumns DEF Three
    <3>4. CASE leaf.op = "within_days"
      BY <2>2, <3>4, DayColumns DEF Three
    <3> QED BY <1>1, <3>1, <3>2, <3>3, <3>4, <3>5 DEF Operators
  <2>4. CASE leaf.op \notin Negative
    BY <2>3, <2>4 DEF LeafHolds
  <2>5. CASE leaf.op \in Negative
    <3>1. PICK other : other = [leaf EXCEPT !.op = Opposite(@)]
      OBVIOUS
    <3>2. other.op = Opposite(leaf.op) /\ other.field = leaf.field /\ other.value = x
      BY <1>4, <3>1
    <3>3. LeafHolds(leaf) = (OfColumn(Opposite(leaf.op), v, x) # "true")
      BY <1>6, <2>5, <3>1, <3>2 DEF LeafHolds, LeafSql, v
    <3>4. CASE leaf.op = "is_not_set"
      <4>1. Opposite(leaf.op) = "is_set"
        BY <3>4 DEF Opposite
      <4> QED BY <2>2, <2>3, <3>3, <3>4, <4>1, SetColumns
    <3>5. CASE leaf.op = "not_contains"
      <4>1. Opposite(leaf.op) = "contains"
        BY <3>5 DEF Opposite
      <4> QED BY ZenonT(40), <2>2, <2>3, <3>3, <3>5, <4>1, TextColumns
    <3>6. CASE leaf.op = "not_in"
      <4>1. Opposite(leaf.op) = "in"
        BY <3>6 DEF Opposite
      <4> QED BY <2>2, <2>3, <3>3, <3>6, <4>1, ListColumns
    <3>7. CASE leaf.op = "neq"
      <4>1. Opposite(leaf.op) = "eq"
        BY <3>7 DEF Opposite
      <4>2. /\ OfColumn(leaf.op, v, x) = (IF v = x THEN "false" ELSE "true")
            /\ OfColumn("eq", v, x) = (IF v = Unset THEN "null" ELSE IF v = x THEN "true" ELSE "false")
        BY <3>7, ComparedColumns, ComparisonValues
      <4> QED BY <1>1, <2>2, <2>3, <3>3, <4>1, <4>2
    <3>8. CASE leaf.op = "not_within_days"
      <4>1. Opposite(leaf.op) = "within_days"
        BY <3>8 DEF Opposite
      <4>2. leaf.field = "visit" /\ x \in Int
        BY <1>1, <3>8 DEF CompiledLeaf, Uncompilable
      <4>3. v = Unset \/ v \in Int
        BY <2>1, <4>2
      <4>4. /\ OfColumn(leaf.op, v, x) = (IF v = Unset \/ v < dayNow - x THEN "true" ELSE "false")
            /\ OfColumn("within_days", v, x) =
                  (IF v = Unset THEN "null" ELSE IF v >= dayNow - x THEN "true" ELSE "false")
        BY <3>8, DayColumns
      <4>5. CASE v = Unset
        BY <2>2, <2>3, <3>3, <4>1, <4>4, <4>5
      <4>6. CASE v # Unset
        <5>1. v \in Int /\ dayNow - x \in Int
          BY <4>2, <4>3, <4>6
        <5>2. (v < dayNow - x) <=> ~(v >= dayNow - x)
          BY <5>1
        <5> QED BY <2>2, <2>3, <3>3, <4>1, <4>4, <4>6, <5>2
      <4> QED BY <4>5, <4>6
    <3> QED BY <2>5, <3>4, <3>5, <3>6, <3>7, <3>8 DEF Negative
  <2> QED BY <2>3, <2>4, <2>5
<1> QED BY <1>1, <1>5, <1>6

-----------------------------------------------------------------------------
\* Combining values: what each group makes of them.
LEMMA CombinedValues ==
    ASSUME NEW values \in SUBSET Three
    PROVE  /\ \A group \in Groups : Combined(group, values) \in Three
           /\ Combined("all", values) = "true" <=> values \subseteq {"true"}
           /\ Combined("all", values) = "false" <=> "false" \in values
           /\ Combined("any", values) = "true" <=> "true" \in values
           /\ Combined("any", values) = "false" <=> values \subseteq {"false"}
           /\ Combined("none", values) = "true" <=> values \subseteq {"false"}
           /\ Combined("none", values) = "false" <=> "true" \in values
<1>1. Combined("all", values) = And3(values)
  BY DEF Combined
<1>2. Combined("any", values) = Or3(values)
  BY DEF Combined
<1>3. Combined("none", values) = Not3(Or3(values))
  BY DEF Combined
<1>4. And3(values) \in Three /\ Or3(values) \in Three
  BY DEF And3, Or3, Three
<1>5. Not3("true") = "false" /\ Not3("false") = "true" /\ Not3("null") = "null"
  BY DEF Not3
<1>6. (And3(values) = "true" <=> values \subseteq {"true"}) /\ (And3(values) = "false" <=> "false" \in values)
  BY DEF And3, Three
<1>7. (Or3(values) = "true" <=> "true" \in values) /\ (Or3(values) = "false" <=> values \subseteq {"false"})
  BY DEF Or3, Three
<1>8. Not3(Or3(values)) \in Three /\ (Not3(Or3(values)) = "true" <=> Or3(values) = "false")
      /\ (Not3(Or3(values)) = "false" <=> Or3(values) = "true")
  BY <1>4, <1>5 DEF Three
<1>9. \A group \in Groups : Combined(group, values) \in Three
  BY <1>1, <1>2, <1>3, <1>4, <1>8 DEF Groups
<1> QED BY <1>1, <1>2, <1>3, <1>6, <1>7, <1>8, <1>9

LEMMA GroupsMean ==
    ASSUME NEW holds
    PROVE  /\ GroupHolds("all", holds) = (holds \subseteq {TRUE})
           /\ GroupHolds("any", holds) = (TRUE \in holds)
           /\ GroupHolds("none", holds) = (TRUE \notin holds)
BY DEF GroupHolds

-----------------------------------------------------------------------------
(* A rule, a segment, an explanation *)

\* A leaf of this group reads a field that is not set.
UnknownWithin(rule) == IsGroup(rule) /\ \E leaf \in rule.rules : LeafSql(leaf) = "null"

\* A rule that is true holds, one that is false does not, and one that holds is
\* true unless it is a `none` that cannot tell.
LEMMA RuleMeaning ==
    ASSUME NEW rule, CompiledRule(rule), person \in Person, dayNow \in Int
    PROVE  /\ RuleSql(rule) \in Three /\ RuleHolds(rule) \in BOOLEAN
           /\ RuleSql(rule) = "true" => RuleHolds(rule)
           /\ RuleSql(rule) = "false" => ~RuleHolds(rule)
           /\ RuleHolds(rule) => RuleSql(rule) = "true" \/ (rule.op = "none" /\ UnknownWithin(rule))
<1>1. CASE ~IsGroup(rule)
  <2>1. CompiledLeaf(rule)
    BY <1>1 DEF CompiledRule, IsGroup
  <2>2. RuleSql(rule) = LeafSql(rule) /\ (RuleHolds(rule) <=> LeafHolds(rule))
    BY <1>1 DEF RuleSql, RuleHolds
  <2>3. RuleHolds(rule) = LeafHolds(rule)
    BY <1>1 DEF RuleHolds
  <2> QED BY <2>1, <2>2, <2>3, LeafMeaning
<1>2. CASE IsGroup(rule)
  <2> DEFINE values == {LeafSql(leaf) : leaf \in rule.rules}
             holds == {LeafHolds(leaf) : leaf \in rule.rules}
  <2>1. rule.op \in Groups /\ \A leaf \in rule.rules : CompiledLeaf(leaf)
    BY <1>2 DEF CompiledRule, IsGroup, CompiledLeaf, IsLeaf, Operators, Groups
  <2>2. RuleSql(rule) = Combined(rule.op, values) /\ RuleHolds(rule) = GroupHolds(rule.op, holds)
    BY <1>2 DEF RuleSql, RuleHolds
  <2>3. \A leaf \in rule.rules : LeafSql(leaf) \in Three /\ LeafHolds(leaf) = (LeafSql(leaf) = "true")
    BY <2>1, LeafMeaning
  <2>4. values \in SUBSET Three
    BY <2>3
  <2>5. "true" \in values <=> TRUE \in holds
    BY <2>3
  <2>6. values \subseteq {"true"} <=> holds \subseteq {TRUE}
    BY <2>3
  <2>7. values \subseteq {"false"} => TRUE \notin holds
    BY <2>5
  <2>8. "false" \in values => ~(holds \subseteq {TRUE})
    BY <2>6
  <2>9. TRUE \notin holds => values \subseteq {"false"} \/ UnknownWithin(rule)
    BY <1>2, <2>3, <2>5 DEF UnknownWithin, Three
  <2> HIDE DEF values, holds
  <2>10. RuleHolds(rule) \in BOOLEAN /\ RuleSql(rule) \in Three
    <3>1. RuleSql(rule) \in Three
      BY <2>1, <2>2, <2>4, CombinedValues
    <3>2. GroupHolds(rule.op, holds) \in BOOLEAN
      <4>1. /\ GroupHolds("all", holds) \in BOOLEAN /\ GroupHolds("any", holds) \in BOOLEAN
            /\ GroupHolds("none", holds) \in BOOLEAN
        BY DEF GroupHolds
      <4> QED BY <2>1, <4>1 DEF Groups
    <3> QED BY <2>2, <3>1, <3>2
  <2>11. CASE rule.op = "all"
    <3>1. RuleSql(rule) = Combined("all", values) /\ (RuleHolds(rule) <=> GroupHolds("all", holds))
      BY <2>2, <2>11
    <3>2. /\ Combined("all", values) = "true" <=> values \subseteq {"true"}
          /\ Combined("all", values) = "false" <=> "false" \in values
      BY <2>4, CombinedValues
    <3>3. GroupHolds("all", holds) <=> holds \subseteq {TRUE}
      BY GroupsMean
    <3> QED BY <3>1, <3>2, <3>3, <2>6, <2>8, <2>10
  <2>12. CASE rule.op = "any"
    <3>1. RuleSql(rule) = Combined("any", values) /\ (RuleHolds(rule) <=> GroupHolds("any", holds))
      BY <2>2, <2>12
    <3>2. /\ Combined("any", values) = "true" <=> "true" \in values
          /\ Combined("any", values) = "false" <=> values \subseteq {"false"}
      BY <2>4, CombinedValues
    <3>3. GroupHolds("any", holds) <=> TRUE \in holds
      BY GroupsMean
    <3> QED BY <3>1, <3>2, <3>3, <2>5, <2>7, <2>10
  <2>13. CASE rule.op = "none"
    <3>1. RuleSql(rule) = Combined("none", values) /\ (RuleHolds(rule) <=> GroupHolds("none", holds))
      BY <2>2, <2>13
    <3>2. /\ Combined("none", values) = "true" <=> values \subseteq {"false"}
          /\ Combined("none", values) = "false" <=> "true" \in values
      BY <2>4, CombinedValues
    <3>3. GroupHolds("none", holds) <=> TRUE \notin holds
      BY GroupsMean
    <3> QED BY <3>1, <3>2, <3>3, <2>5, <2>7, <2>9, <2>10, <2>13
  <2> QED BY <2>1, <2>11, <2>12, <2>13 DEF Groups
<1> QED BY <1>1, <1>2

\* Every rule of an audience that compiles is compiled.
LEMMA RulesCompile ==
    ASSUME segment \in Definition, Compiles, NEW group \in DOMAIN segment, NEW i \in DOMAIN segment[group]
    PROVE  group \in Groups /\ CompiledRule(segment[group][i])
<1> DEFINE rule == segment[group][i]
<1>1. group \in Groups /\ IsRule(rule)
  BY AudienceConstants DEF AudienceConstants
<1>2. rule \in UNION {RulesOf(segment, g) : g \in DOMAIN segment}
  BY DEF RulesOf
<1>3. \A leaf \in (IF IsGroup(rule) THEN rule.rules ELSE {rule}) : leaf \in LeavesOf(segment)
  BY <1>2 DEF LeavesOf
<1> HIDE DEF rule
<1>4. \A leaf \in (IF IsGroup(rule) THEN rule.rules ELSE {rule}) : ~Uncompilable(leaf)
  BY <1>3 DEF Compiles
<1>5. CASE IsGroup(rule)
  <2>1. ~IsLeaf(rule)
    BY <1>5 DEF IsGroup, IsLeaf, Groups, Operators
  <2> QED BY <1>1, <1>4, <1>5, <2>1 DEF IsRule, IsGroup, CompiledRule, CompiledLeaf, rule
<1>6. CASE ~IsGroup(rule)
  BY <1>1, <1>4, <1>6 DEF IsRule, IsGroup, CompiledRule, CompiledLeaf, rule
<1> QED BY <1>5, <1>6

\* What a group of the audience selects.
LEMMA GroupMeaning ==
    ASSUME segment \in Definition, Compiles, NEW group \in DOMAIN segment, person \in Person, dayNow \in Int
    PROVE  LET values == {RuleSql(rule) : rule \in RulesOf(segment, group)}
               holds == {RuleHolds(rule) : rule \in RulesOf(segment, group)}
           IN  /\ Combined(group, values) \in Three
               /\ Combined(group, values) = "true" => GroupHolds(group, holds)
               /\ GroupHolds(group, holds) => Combined(group, values) = "true" \/ UnknownUnderNone(segment)
<1> DEFINE values == {RuleSql(rule) : rule \in RulesOf(segment, group)}
           holds == {RuleHolds(rule) : rule \in RulesOf(segment, group)}
<1>1. group \in Groups
  BY AudienceConstants DEF AudienceConstants
<1>2. ASSUME NEW rule \in RulesOf(segment, group)
      PROVE  /\ RuleSql(rule) \in Three /\ RuleHolds(rule) \in BOOLEAN
             /\ RuleSql(rule) = "true" => RuleHolds(rule)
             /\ RuleSql(rule) = "false" => ~RuleHolds(rule)
             /\ RuleHolds(rule) => RuleSql(rule) = "true" \/ UnknownUnderNone(segment)
             /\ group = "none" /\ RuleSql(rule) = "null" => UnknownUnderNone(segment)
  <2>1. PICK i \in DOMAIN segment[group] : rule = segment[group][i]
    BY DEF RulesOf
  <2>2. CompiledRule(rule)
    BY <2>1, RulesCompile
  <2> QED BY <2>2, RuleMeaning DEF UnknownUnderNone, UnknownWithin
<1>3. values \in SUBSET Three
  BY <1>2
<1>4. "true" \in values => TRUE \in holds
  BY <1>2
<1>5. values \subseteq {"true"} => holds \subseteq {TRUE}
  <2> SUFFICES ASSUME values \subseteq {"true"}, NEW b \in holds PROVE b = TRUE
    OBVIOUS
  <2>1. PICK rule \in RulesOf(segment, group) : b = RuleHolds(rule)
    OBVIOUS
  <2>2. RuleSql(rule) = "true"
    OBVIOUS
  <2>3. RuleHolds(rule)
    BY <1>2, <2>2
  <2> QED BY <2>1, <2>3
<1>6. values \subseteq {"false"} => TRUE \notin holds
  <2> SUFFICES ASSUME values \subseteq {"false"}, TRUE \in holds PROVE FALSE
    OBVIOUS
  <2>1. PICK rule \in RulesOf(segment, group) : RuleHolds(rule) = TRUE
    OBVIOUS
  <2>2. RuleSql(rule) = "false"
    OBVIOUS
  <2> QED BY <1>2, <2>1, <2>2
<1>7. TRUE \in holds => "true" \in values \/ UnknownUnderNone(segment)
  <2> SUFFICES ASSUME TRUE \in holds, ~UnknownUnderNone(segment) PROVE "true" \in values
    OBVIOUS
  <2>1. PICK rule \in RulesOf(segment, group) : RuleHolds(rule) = TRUE
    OBVIOUS
  <2> QED BY <1>2, <2>1
<1>8. holds \subseteq {TRUE} => values \subseteq {"true"} \/ UnknownUnderNone(segment)
  <2> SUFFICES ASSUME holds \subseteq {TRUE}, ~UnknownUnderNone(segment), NEW rule \in RulesOf(segment, group)
               PROVE  RuleSql(rule) = "true"
    OBVIOUS
  <2>1. RuleHolds(rule) = TRUE
    OBVIOUS
  <2> QED BY <1>2, <2>1
<1>9. TRUE \notin holds /\ group = "none" => values \subseteq {"false"} \/ UnknownUnderNone(segment)
  <2> SUFFICES ASSUME TRUE \notin holds, group = "none", ~UnknownUnderNone(segment),
                      NEW rule \in RulesOf(segment, group)
               PROVE  RuleSql(rule) = "false"
    OBVIOUS
  <2>1. RuleHolds(rule) # TRUE
    OBVIOUS
  <2> QED BY <1>2, <2>1 DEF Three
<1> HIDE DEF values, holds
<1>10. Combined(group, values) \in Three
  BY <1>1, <1>3, CombinedValues
<1>11. /\ Combined(group, values) = "true" => GroupHolds(group, holds)
       /\ GroupHolds(group, holds) => Combined(group, values) = "true" \/ UnknownUnderNone(segment)
  <2>1. CASE group = "all"
    <3>1. Combined("all", values) = "true" <=> values \subseteq {"true"}
      BY <1>3, CombinedValues
    <3>2. GroupHolds("all", holds) <=> holds \subseteq {TRUE}
      BY GroupsMean
    <3> QED BY <3>1, <3>2, <2>1, <1>5, <1>8
  <2>2. CASE group = "any"
    <3>1. Combined("any", values) = "true" <=> "true" \in values
      BY <1>3, CombinedValues
    <3>2. GroupHolds("any", holds) <=> TRUE \in holds
      BY GroupsMean
    <3> QED BY <3>1, <3>2, <2>2, <1>4, <1>7
  <2>3. CASE group = "none"
    <3>1. Combined("none", values) = "true" <=> values \subseteq {"false"}
      BY <1>3, CombinedValues
    <3>2. GroupHolds("none", holds) <=> TRUE \notin holds
      BY GroupsMean
    <3> QED BY <3>1, <3>2, <2>3, <1>6, <1>9
  <2> QED BY <1>1, <2>1, <2>2, <2>3 DEF Groups
<1> QED BY <1>10, <1>11 DEF values, holds

LEMMA SegmentsSelect ==
    ASSUME segment \in Definition, Compiles, person \in Person, dayNow \in Int
    PROVE  SegmentSelectsTheMeant
<1> DEFINE sql(group) == Combined(group, {RuleSql(rule) : rule \in RulesOf(segment, group)})
           meant(group) == GroupHolds(group, {RuleHolds(rule) : rule \in RulesOf(segment, group)})
           values == {sql(group) : group \in DOMAIN segment}
<1>1. \A group \in DOMAIN segment :
         /\ sql(group) \in Three /\ (sql(group) = "true" => meant(group))
         /\ meant(group) => sql(group) = "true" \/ UnknownUnderNone(segment)
  BY GroupMeaning
<1>2. Evaluate(segment) <=> And3(values) = "true"
  BY DEF Evaluate, AudienceSql
<1>3. Meant(segment) <=> \A group \in DOMAIN segment : meant(group)
  BY DEF Meant
<1> HIDE DEF sql, meant
<1>4. values \in SUBSET Three
  BY <1>1
<1>5. And3(values) = "true" <=> \A group \in DOMAIN segment : sql(group) = "true"
  BY <1>4 DEF And3, Three
<1> QED BY <1>1, <1>2, <1>3, <1>5 DEF SegmentSelectsTheMeant

\* The statements of the explanation: one rule, and the group of alternatives.
LEMMA AskingOne ==
    ASSUME NEW rule, RuleSql(rule) \in Three
    PROVE  Evaluate([all |-> <<rule>>]) <=> RuleSql(rule) = "true"
<1> DEFINE audience == [all |-> <<rule>>]
<1>1. DOMAIN audience = {"all"} /\ RulesOf(audience, "all") = {rule}
  BY DEF RulesOf
<1> HIDE DEF audience
<1>2. AudienceSql(audience) = And3({Combined("all", {RuleSql(rule)})})
  BY <1>1 DEF AudienceSql
<1>3. Combined("all", {RuleSql(rule)}) = "true" <=> RuleSql(rule) = "true"
  BY CombinedValues
<1>4. Combined("all", {RuleSql(rule)}) \in Three
  BY CombinedValues DEF Groups
<1>5. And3({Combined("all", {RuleSql(rule)})}) = "true" <=> Combined("all", {RuleSql(rule)}) = "true"
  BY <1>4 DEF And3, Three
<1> QED BY <1>2, <1>3, <1>5 DEF Evaluate, audience

LEMMA AskingAny ==
    ASSUME NEW rules, \A i \in DOMAIN rules : RuleSql(rules[i]) \in Three
    PROVE  Evaluate([any |-> rules]) <=> \E i \in DOMAIN rules : RuleSql(rules[i]) = "true"
<1> DEFINE audience == [any |-> rules]
           values == {RuleSql(rule) : rule \in RulesOf(audience, "any")}
<1>1. DOMAIN audience = {"any"} /\ RulesOf(audience, "any") = {rules[i] : i \in DOMAIN rules}
  BY DEF RulesOf
<1>2. values \in SUBSET Three /\ ("true" \in values <=> \E i \in DOMAIN rules : RuleSql(rules[i]) = "true")
  BY <1>1
<1>3. AudienceSql(audience) = And3({Combined("any", values)})
  BY <1>1 DEF AudienceSql
<1> HIDE DEF audience, values
<1>4. (Combined("any", values) = "true" <=> "true" \in values) /\ Combined("any", values) \in Three
  BY <1>2, CombinedValues DEF Groups
<1>5. And3({Combined("any", values)}) = "true" <=> Combined("any", values) = "true"
  BY <1>4 DEF And3, Three
<1> QED BY <1>2, <1>3, <1>4, <1>5 DEF Evaluate, audience

\* What is said of a row that nobody touched stays said.
LEMMA SameRow ==
    ASSUME person' = person, dayNow' = dayNow, segment' = segment
    PROVE  /\ \A rule : RuleSql(rule)' = RuleSql(rule)
           /\ \A rule : RuleHolds(rule)' = RuleHolds(rule)
           /\ UnknownUnderNone(segment)' = UnknownUnderNone(segment)
           /\ Meant(segment)' = Meant(segment) /\ Evaluate(segment)' = Evaluate(segment)
           /\ \A group : Of(group)' = Of(group)
           /\ Compiles' = Compiles
<1>1. \A leaf : LeafSql(leaf)' = LeafSql(leaf)
  BY DEF LeafSql, OfColumn
<1>2. \A rule : RuleSql(rule)' = RuleSql(rule)
  BY <1>1 DEF RuleSql
<1>3. \A leaf : LeafHolds(leaf)' = LeafHolds(leaf)
  BY <1>1 DEF LeafHolds
<1>4. \A rule : RuleHolds(rule)' = RuleHolds(rule)
  BY <1>3 DEF RuleHolds
<1>5. UnknownUnderNone(segment)' = UnknownUnderNone(segment)
  BY <1>1, <1>2 DEF UnknownUnderNone
<1>6. Meant(segment)' = Meant(segment)
  BY <1>4 DEF Meant
<1>7. Evaluate(segment)' = Evaluate(segment)
  <2> DEFINE sql(group) == Combined(group, {RuleSql(rule) : rule \in RulesOf(segment, group)})
  <2>1. \A group : sql(group)' = sql(group)
    BY <1>2 DEF RulesOf
  <2>2. AudienceSql(segment) = And3({sql(group) : group \in DOMAIN segment})
    BY DEF AudienceSql
  <2>3. AudienceSql(segment)' = And3({sql(group)' : group \in DOMAIN segment})
    BY DEF AudienceSql
  <2> HIDE DEF sql
  <2> QED BY <2>1, <2>2, <2>3 DEF Evaluate
<1>8. (\A group : Of(group)' = Of(group)) /\ Compiles' = Compiles
  BY DEF Of, Compiles
<1> QED BY <1>2, <1>4, <1>5, <1>6, <1>7, <1>8

-----------------------------------------------------------------------------
Reasons ==
    {<<"nothing">>, <<"uncompilable">>, <<"matched">>, <<"no_alternative">>, <<"changed">>}
    \cup ({"failed", "excluded"} \X (Nat \ {0}))
Inquiry == [at : {"idle"} \cup Groups, next : Nat \ {0}, answer : Reasons]

(***************************************************************************)
(* What the statements before this one have shown, of a row that nobody    *)
(* touched: that it is not in the segment, that the rules of `all` it went *)
(* through are true, that one of `any` is, and that those of `none` are    *)
(* not.                                                                    *)
(***************************************************************************)
TrueBefore(group, n) == \A i \in DOMAIN Of(group) : i < n => RuleSql(Of(group)[i]) = "true"
AnyTrue == Of("any") = <<>> \/ \E i \in DOMAIN Of("any") : RuleSql(Of("any")[i]) = "true"
UntrueBefore(group, n) == \A i \in DOMAIN Of(group) : i < n => RuleSql(Of(group)[i]) # "true"

Shown(at, n) ==
    /\ ~Evaluate(segment)
    /\ at = "all" => TrueBefore("all", n)
    /\ at \in {"any", "none"} => TrueBefore("all", Len(Of("all")) + 1)
    /\ at = "none" => AnyTrue /\ UntrueBefore("none", n)

AudienceInv ==
    /\ person \in Person /\ dayNow \in 0 .. LastDay /\ moved \in BOOLEAN /\ segment \in Definition
    /\ query \in Inquiry
    /\ query.at # "idle" => Compiles /\ query.next <= Len(Of(query.at)) + 1
    /\ query.at # "idle" /\ ~moved => Shown(query.at, query.next)
    /\ ExplanationHolds

\* The rules of a group of the audience, in their order.
LEMMA RulesInOrder ==
    ASSUME segment \in Definition, NEW group
    PROVE  /\ Len(Of(group)) \in Nat /\ DOMAIN Of(group) = 1 .. Len(Of(group))
           /\ Of(group) # <<>> => group \in DOMAIN segment /\ Of(group) = segment[group]
           /\ Of(group) = <<>> <=> Len(Of(group)) = 0
<1>1. CASE group \in DOMAIN segment
  <2>1. PICK rules : rules = segment[group]
    OBVIOUS
  <2>2. rules \in Seq({rules[i] : i \in DOMAIN rules})
    BY <1>1, <2>1, AudienceConstants DEF AudienceConstants
  <2>3. Len(rules) \in Nat /\ DOMAIN rules = 1 .. Len(rules) /\ (rules = <<>> <=> Len(rules) = 0)
    BY <2>2
  <2> QED BY <1>1, <2>1, <2>3 DEF Of
<1>2. CASE group \notin DOMAIN segment
  BY <1>2 DEF Of
<1> QED BY <1>1, <1>2

LEMMA RulesKnown ==
    ASSUME segment \in Definition, Compiles, person \in Person, dayNow \in Int,
           NEW group, NEW i \in DOMAIN Of(group)
    PROVE  /\ RuleSql(Of(group)[i]) \in Three
           /\ RuleSql(Of(group)[i]) = "true" => RuleHolds(Of(group)[i])
           /\ RuleHolds(Of(group)[i]) => RuleSql(Of(group)[i]) = "true" \/ UnknownUnderNone(segment)
           /\ group = "none" /\ RuleSql(Of(group)[i]) = "null" => UnknownUnderNone(segment)
<1>1. group \in DOMAIN segment /\ Of(group) = segment[group]
  BY RulesInOrder
<1>2. CompiledRule(segment[group][i])
  BY <1>1, RulesCompile
<1>3. segment[group][i] \in RulesOf(segment, group)
  BY <1>1 DEF RulesOf
<1> QED BY <1>1, <1>2, <1>3, RuleMeaning DEF UnknownUnderNone, UnknownWithin

\* Without an unset field under a `none`, or a group without rules, one of the
\* statements fails when the whole predicate does.
LEMMA NothingLeftUnsaid ==
    ASSUME segment \in Definition, Compiles, person \in Person, dayNow \in Int,
           Shown("none", Len(Of("none")) + 1)
    PROVE  UnknownUnderNone(segment) \/ \E group \in DOMAIN segment : segment[group] = <<>>
<1> SUFFICES ASSUME ~UnknownUnderNone(segment), \A group \in DOMAIN segment : segment[group] # <<>>
             PROVE  Evaluate(segment)
  BY DEF Shown
<1> DEFINE sql(group) == {RuleSql(rule) : rule \in RulesOf(segment, group)}
<1>1. \A group \in DOMAIN segment : group \in Groups /\ Of(group) = segment[group]
  BY AudienceConstants DEF AudienceConstants, Of
<1>2. \A group : Len(Of(group)) \in Nat /\ DOMAIN Of(group) = 1 .. Len(Of(group))
  BY RulesInOrder
<1>3. ASSUME NEW group \in DOMAIN segment PROVE sql(group) \in SUBSET Three
  <2> SUFFICES ASSUME NEW rule \in RulesOf(segment, group) PROVE RuleSql(rule) \in Three
    OBVIOUS
  <2>1. PICK i \in DOMAIN Of(group) : rule = Of(group)[i]
    BY <1>1 DEF RulesOf
  <2> QED BY <2>1, RulesKnown
<1>4. ASSUME NEW group \in DOMAIN segment PROVE Combined(group, sql(group)) = "true"
  <2>1. CASE group = "all"
    <3>1. sql(group) \subseteq {"true"}
      <4> SUFFICES ASSUME NEW rule \in RulesOf(segment, group) PROVE RuleSql(rule) = "true"
        OBVIOUS
      <4>1. PICK i \in DOMAIN Of(group) : rule = Of(group)[i]
        BY <1>1 DEF RulesOf
      <4>2. i < Len(Of("all")) + 1
        BY <1>2, <2>1, <4>1
      <4> QED BY <2>1, <4>1, <4>2 DEF Shown, TrueBefore
    <3> HIDE DEF sql
    <3>2. Combined("all", sql(group)) = "true" <=> sql(group) \subseteq {"true"}
      BY <1>3, CombinedValues
    <3> QED BY <2>1, <3>1, <3>2
  <2>2. CASE group = "any"
    <3>1. "true" \in sql(group)
      <4>1. PICK i \in DOMAIN Of("any") : RuleSql(Of("any")[i]) = "true"
        BY <1>1, <2>2 DEF Shown, AnyTrue
      <4>2. Of("any")[i] \in RulesOf(segment, group)
        BY <1>1, <2>2, <4>1 DEF RulesOf
      <4> QED BY <4>1, <4>2
    <3> HIDE DEF sql
    <3>2. Combined("any", sql(group)) = "true" <=> "true" \in sql(group)
      BY <1>3, CombinedValues
    <3> QED BY <2>2, <3>1, <3>2
  <2>3. CASE group = "none"
    <3>1. sql(group) \subseteq {"false"}
      <4> SUFFICES ASSUME NEW rule \in RulesOf(segment, group) PROVE RuleSql(rule) = "false"
        OBVIOUS
      <4>1. PICK i \in DOMAIN Of(group) : rule = Of(group)[i]
        BY <1>1 DEF RulesOf
      <4>2. i < Len(Of("none")) + 1
        BY <1>2, <2>3, <4>1
      <4>3. RuleSql(rule) # "true"
        BY <2>3, <4>1, <4>2 DEF Shown, UntrueBefore
      <4>4. RuleSql(rule) \in Three /\ RuleSql(rule) # "null"
        BY <2>3, <4>1, RulesKnown
      <4> QED BY <4>3, <4>4 DEF Three
    <3> HIDE DEF sql
    <3>2. Combined("none", sql(group)) = "true" <=> sql(group) \subseteq {"false"}
      BY <1>3, CombinedValues
    <3> QED BY <2>3, <3>1, <3>2
  <2> QED BY <1>1, <2>1, <2>2, <2>3 DEF Groups
<1>5. AudienceSql(segment) = And3({Combined(group, sql(group)) : group \in DOMAIN segment})
  BY DEF AudienceSql
<1> HIDE DEF sql
<1>6. {Combined(group, sql(group)) : group \in DOMAIN segment} \subseteq {"true"}
  BY <1>4
<1>7. And3({Combined(group, sql(group)) : group \in DOMAIN segment}) = "true"
  BY <1>6 DEF And3
<1> QED BY <1>5, <1>7 DEF Evaluate

LEMMA AudienceStart == AudienceInit => AudienceInv
<1> SUFFICES ASSUME AudienceInit PROVE AudienceInv
  OBVIOUS
<1>1. LastDay \in Nat
  BY AudienceConstants DEF AudienceConstants
<1>2. query.at = "idle" /\ query.answer = <<"nothing">> /\ query \in Inquiry
  BY DEF AudienceInit, Inquiry, Reasons
<1>3. query.answer[1] = "nothing"
  BY <1>2
<1>4. ExplanationHolds
  BY <1>3 DEF ExplanationHolds
<1>5. person \in Person /\ dayNow \in 0 .. LastDay /\ moved \in BOOLEAN /\ segment \in Definition
  <2>1. dayNow = 0 /\ 0 \in 0 .. LastDay
    BY <1>1 DEF AudienceInit
  <2>2. person \in Person /\ segment \in Definition
    BY DEF AudienceInit
  <2>3. moved \in BOOLEAN
    BY DEF AudienceInit
  <2> QED BY <2>1, <2>2, <2>3
<1> QED BY <1>2, <1>4, <1>5 DEF AudienceInv

\* A statement that goes on, about the row that was asked about.
LEMMA AsksOn ==
    ASSUME AudienceInv, NEW at \in Groups, NEW n \in Nat \ {0}, AskNext(at, n), Compiles,
           UNCHANGED <<person, dayNow, segment>>, moved' \in BOOLEAN,
           n <= Len(Of(at)) + 1, ~moved' => Shown(at, n)
    PROVE  AudienceInv'
<1>1. query' = [query EXCEPT !.at = at, !.next = n] /\ query \in Inquiry
  BY DEF AskNext, AudienceInv
<1>2. query' \in Inquiry /\ query'.at = at /\ query'.next = n /\ at # "idle"
  BY <1>1 DEF Inquiry, Groups
<1>3. Compiles' /\ query'.next <= Len(Of(at)') + 1
  BY <1>2, SameRow
<1>4. ~moved' => Shown(at, n)'
  BY SameRow DEF Shown, TrueBefore, AnyTrue, UntrueBefore
<1>5. ExplanationHolds'
  BY <1>2 DEF ExplanationHolds
<1>6. (person \in Person /\ dayNow \in 0 .. LastDay /\ segment \in Definition)'
  BY DEF AudienceInv, Person
<1> QED BY <1>2, <1>3, <1>4, <1>5, <1>6 DEF AudienceInv

\* An answer, about the row that was asked about.
LEMMA AnswersWell ==
    ASSUME AudienceInv, NEW what \in Reasons, Answers(what),
           UNCHANGED <<person, dayNow, segment>>, moved' \in BOOLEAN,
           ~moved' =>
              CASE what[1] = "matched" -> Meant(segment)
                [] what[1] = "failed" -> ~RuleHolds(Of("all")[what[2]]) \/ UnknownUnderNone(segment)
                [] what[1] = "no_alternative" ->
                      (\A rule \in RulesOf(segment, "any") : ~RuleHolds(rule)) \/ UnknownUnderNone(segment)
                [] what[1] = "excluded" -> RuleHolds(Of("none")[what[2]])
                [] what[1] = "changed" ->
                      UnknownUnderNone(segment) \/ \E group \in DOMAIN segment : segment[group] = <<>>
                [] OTHER -> TRUE
    PROVE  AudienceInv'
<1>1. query' = [query EXCEPT !.at = "idle", !.answer = what] /\ query \in Inquiry
  BY DEF Answers, AudienceInv
<1>2. query' \in Inquiry /\ query'.at = "idle" /\ query'.answer = what
  BY <1>1 DEF Inquiry
<1>3. RulesOf(segment, "any")' = RulesOf(segment, "any")
  BY DEF RulesOf
<1>4. ExplanationHolds'
  BY <1>2, <1>3, SameRow DEF ExplanationHolds
<1>5. (person \in Person /\ dayNow \in 0 .. LastDay /\ segment \in Definition)'
  BY DEF AudienceInv, Person
<1> QED BY <1>2, <1>4, <1>5 DEF AudienceInv

LEMMA AudienceStep == AudienceInv /\ [AudienceNext]_audienceVars => AudienceInv'
<1> SUFFICES ASSUME AudienceInv, [AudienceNext]_audienceVars PROVE AudienceInv'
  OBVIOUS
<1>0. /\ person \in Person /\ dayNow \in Int /\ segment \in Definition /\ moved \in BOOLEAN
      /\ query.at \in {"idle"} \cup Groups /\ query.next \in Nat \ {0}
  BY AudienceConstants DEF AudienceInv, AudienceConstants, Inquiry
<1>a. \A group : Len(Of(group)) \in Nat /\ DOMAIN Of(group) = 1 .. Len(Of(group))
  BY <1>0, RulesInOrder
<1>b. "all" \in Groups /\ "any" \in Groups /\ "none" \in Groups
  BY DEF Groups
<1>1. CASE Matches
  <2>1. moved' = FALSE /\ UNCHANGED <<person, dayNow, segment>>
    BY <1>1 DEF Matches
  <2>2. CASE ~Compiles
    <3>1. Answers(<<"uncompilable">>)
      BY <1>1, <2>2 DEF Matches
    <3>2. PICK what : what = <<"uncompilable">>
      OBVIOUS
    <3>3. what \in Reasons /\ what[1] = "uncompilable"
      BY <3>2 DEF Reasons
    <3> QED BY <2>1, <3>1, <3>2, <3>3, AnswersWell
  <2>3. CASE Compiles /\ Evaluate(segment)
    <3>1. Answers(<<"matched">>)
      BY <1>1, <2>3 DEF Matches
    <3>2. PICK what : what = <<"matched">>
      OBVIOUS
    <3>3. what \in Reasons /\ what[1] = "matched"
      BY <3>2 DEF Reasons
    <3>4. Meant(segment)
      BY <1>0, <2>3, SegmentsSelect DEF SegmentSelectsTheMeant
    <3> QED BY <2>1, <3>1, <3>2, <3>3, <3>4, AnswersWell
  <2>4. CASE Compiles /\ ~Evaluate(segment)
    <3>1. AskNext("all", 1)
      BY <1>1, <2>4 DEF Matches
    <3>2. \A i \in DOMAIN Of("all") : ~(i < 1)
      BY <1>a
    <3>3. Shown("all", 1)
      BY <2>4, <3>2 DEF Shown, TrueBefore
    <3>4. 1 <= Len(Of("all")) + 1
      BY <1>a
    <3>5. moved' \in BOOLEAN
      BY <2>1
    <3> QED BY <1>b, <2>1, <2>4, <3>1, <3>3, <3>4, <3>5, AsksOn
  <2> QED BY <2>2, <2>3, <2>4
<1>2. CASE ExplainAll
  <2>1. UNCHANGED <<person, dayNow, segment, moved>> /\ query.at = "all"
    BY <1>2 DEF ExplainAll, Asked
  <2>2. Compiles /\ query.next <= Len(Of("all")) + 1 /\ (~moved => Shown("all", query.next))
    BY <2>1 DEF AudienceInv
  <2>3. CASE query.next > Len(Of("all"))
    <3>1. AskNext("any", 1)
      BY <1>2, <2>3 DEF ExplainAll
    <3>2. query.next = Len(Of("all")) + 1
      BY <1>0, <1>a, <2>2, <2>3
    <3>3. ~moved => Shown("any", 1)
      BY <2>2, <3>2 DEF Shown
    <3>4. 1 <= Len(Of("any")) + 1
      BY <1>a
    <3> QED BY <1>0, <1>b, <2>1, <2>2, <3>1, <3>3, <3>4, AsksOn
  <2>4. CASE ~(query.next > Len(Of("all")))
    <3>1. query.next \in DOMAIN Of("all")
      BY <1>0, <1>a, <2>4
    <3>2. PICK rule : rule = Of("all")[query.next]
      OBVIOUS
    <3>3. /\ RuleSql(rule) \in Three
          /\ RuleHolds(rule) => RuleSql(rule) = "true" \/ UnknownUnderNone(segment)
      BY <1>0, <2>2, <3>1, <3>2, RulesKnown
    <3>4. Evaluate([all |-> <<rule>>]) <=> RuleSql(rule) = "true"
      BY <3>3, AskingOne
    <3>5. CASE RuleSql(rule) # "true"
      <4>1. Answers(<<"failed", query.next>>)
        BY <1>2, <2>4, <3>2, <3>4, <3>5 DEF ExplainAll
      <4>2. PICK what : what = <<"failed", query.next>>
        OBVIOUS
      <4>3. what \in Reasons /\ what[1] = "failed" /\ what[2] = query.next
        BY <1>0, <4>2 DEF Reasons
      <4>4. ~RuleHolds(Of("all")[what[2]]) \/ UnknownUnderNone(segment)
        BY <3>2, <3>3, <3>5, <4>3
      <4> QED BY <1>0, <2>1, <4>1, <4>2, <4>3, <4>4, AnswersWell
    <3>6. CASE RuleSql(rule) = "true"
      <4>1. AskNext("all", query.next + 1)
        BY <1>2, <2>4, <3>2, <3>4, <3>6 DEF ExplainAll
      <4>2. PICK n : n = query.next + 1
        OBVIOUS
      <4>3. n \in Nat \ {0} /\ n <= Len(Of("all")) + 1 /\ \A i \in Nat : i < n => i < query.next \/ i = query.next
        BY <1>0, <1>a, <2>4, <4>2
      <4>4. \A i \in DOMAIN Of("all") : i \in Nat
        BY <1>a
      <4>5. ~moved => Shown("all", n)
        BY <2>2, <3>2, <3>6, <4>3, <4>4 DEF Shown, TrueBefore
      <4> QED BY <1>0, <1>b, <2>1, <2>2, <4>1, <4>2, <4>3, <4>5, AsksOn
    <3> QED BY <3>5, <3>6
  <2> QED BY <2>3, <2>4
<1>3. CASE ExplainAny
  <2>1. UNCHANGED <<person, dayNow, segment, moved>> /\ query.at = "any"
    BY <1>3 DEF ExplainAny, Asked
  <2>2. Compiles /\ (~moved => Shown("any", query.next))
    BY <2>1 DEF AudienceInv
  <2>3. \A i \in DOMAIN Of("any") :
           /\ RuleSql(Of("any")[i]) \in Three
           /\ RuleHolds(Of("any")[i]) => RuleSql(Of("any")[i]) = "true" \/ UnknownUnderNone(segment)
    BY <1>0, <2>2, RulesKnown
  <2>4. PICK rules : rules = Of("any")
    OBVIOUS
  <2>5. Evaluate([any |-> rules]) <=> \E i \in DOMAIN rules : RuleSql(rules[i]) = "true"
    BY <2>3, <2>4, AskingAny
  <2>6. CASE Of("any") # <<>> /\ ~Evaluate([any |-> Of("any")])
    <3>1. Answers(<<"no_alternative">>)
      BY <1>3, <2>6 DEF ExplainAny
    <3>2. PICK what : what = <<"no_alternative">>
      OBVIOUS
    <3>3. what \in Reasons /\ what[1] = "no_alternative"
      BY <3>2 DEF Reasons
    <3>4. (\A rule \in RulesOf(segment, "any") : ~RuleHolds(rule)) \/ UnknownUnderNone(segment)
      <4>1. "any" \in DOMAIN segment /\ Of("any") = segment["any"]
        BY <1>0, <2>6, RulesInOrder
      <4>2. \A rule \in RulesOf(segment, "any") : \E i \in DOMAIN Of("any") : rule = Of("any")[i]
        BY <4>1 DEF RulesOf
      <4> QED BY <2>3, <2>4, <2>5, <2>6, <4>2
    <3> QED BY <1>0, <2>1, <3>1, <3>2, <3>3, <3>4, AnswersWell
  <2>7. CASE ~(Of("any") # <<>> /\ ~Evaluate([any |-> Of("any")]))
    <3>1. AskNext("none", 1)
      BY <1>3, <2>7 DEF ExplainAny
    <3>2. \A i \in DOMAIN Of("none") : ~(i < 1)
      BY <1>a
    <3>3. ~moved => Shown("none", 1)
      BY <2>2, <2>4, <2>5, <2>7, <3>2 DEF Shown, AnyTrue, UntrueBefore
    <3>4. 1 <= Len(Of("none")) + 1
      BY <1>a
    <3> QED BY <1>0, <1>b, <2>1, <2>2, <3>1, <3>3, <3>4, AsksOn
  <2> QED BY <2>6, <2>7
<1>4. CASE ExplainNone
  <2>1. UNCHANGED <<person, dayNow, segment, moved>> /\ query.at = "none"
    BY <1>4 DEF ExplainNone, Asked
  <2>2. Compiles /\ query.next <= Len(Of("none")) + 1 /\ (~moved => Shown("none", query.next))
    BY <2>1 DEF AudienceInv
  <2>3. CASE query.next > Len(Of("none"))
    <3>1. Answers(<<"changed">>)
      BY <1>4, <2>3 DEF ExplainNone
    <3>2. PICK what : what = <<"changed">>
      OBVIOUS
    <3>3. what \in Reasons /\ what[1] = "changed"
      BY <3>2 DEF Reasons
    <3>4. query.next = Len(Of("none")) + 1
      BY <1>0, <1>a, <2>2, <2>3
    <3>5. ~moved => UnknownUnderNone(segment) \/ \E group \in DOMAIN segment : segment[group] = <<>>
      BY <1>0, <2>2, <3>4, NothingLeftUnsaid
    <3> QED BY <1>0, <2>1, <3>1, <3>2, <3>3, <3>5, AnswersWell
  <2>4. CASE ~(query.next > Len(Of("none")))
    <3>1. query.next \in DOMAIN Of("none")
      BY <1>0, <1>a, <2>4
    <3>2. PICK rule : rule = Of("none")[query.next]
      OBVIOUS
    <3>3. RuleSql(rule) \in Three /\ (RuleSql(rule) = "true" => RuleHolds(rule))
      BY <1>0, <2>2, <3>1, <3>2, RulesKnown
    <3>4. Evaluate([all |-> <<rule>>]) <=> RuleSql(rule) = "true"
      BY <3>3, AskingOne
    <3>5. CASE RuleSql(rule) = "true"
      <4>1. Answers(<<"excluded", query.next>>)
        BY <1>4, <2>4, <3>2, <3>4, <3>5 DEF ExplainNone
      <4>2. PICK what : what = <<"excluded", query.next>>
        OBVIOUS
      <4>3. what \in Reasons /\ what[1] = "excluded" /\ what[2] = query.next
        BY <1>0, <4>2 DEF Reasons
      <4>4. RuleHolds(Of("none")[what[2]])
        BY <3>2, <3>3, <3>5, <4>3
      <4> QED BY <1>0, <2>1, <4>1, <4>2, <4>3, <4>4, AnswersWell
    <3>6. CASE RuleSql(rule) # "true"
      <4>1. AskNext("none", query.next + 1)
        BY <1>4, <2>4, <3>2, <3>4, <3>6 DEF ExplainNone
      <4>2. PICK n : n = query.next + 1
        OBVIOUS
      <4>3. n \in Nat \ {0} /\ n <= Len(Of("none")) + 1 /\ \A i \in Nat : i < n => i < query.next \/ i = query.next
        BY <1>0, <1>a, <2>4, <4>2
      <4>4. \A i \in DOMAIN Of("none") : i \in Nat
        BY <1>a
      <4>5. ~moved => Shown("none", n)
        BY <2>2, <3>2, <3>6, <4>3, <4>4 DEF Shown, UntrueBefore
      <4> QED BY <1>0, <1>b, <2>1, <2>2, <4>1, <4>2, <4>3, <4>5, AsksOn
    <3> QED BY <3>5, <3>6
  <2> QED BY <2>3, <2>4
<1>5. ASSUME NEW edited \in Person, EditPerson(edited) PROVE AudienceInv'
  <2>1. person' \in Person /\ moved' = TRUE /\ UNCHANGED <<dayNow, segment, query>>
    BY <1>5 DEF EditPerson
  <2>2. Compiles' = Compiles /\ \A group : Of(group)' = Of(group)
    BY <2>1 DEF Compiles, Of
  <2> QED BY <2>1, <2>2 DEF AudienceInv, ExplanationHolds, Person
<1>6. CASE DayPasses
  <2>1. dayNow' \in 0 .. LastDay /\ moved' = TRUE /\ UNCHANGED <<person, segment, query>>
    BY <1>6, AudienceConstants DEF DayPasses, AudienceInv, AudienceConstants
  <2>2. Compiles' = Compiles /\ \A group : Of(group)' = Of(group)
    BY <2>1 DEF Compiles, Of
  <2> QED BY <2>1, <2>2 DEF AudienceInv, ExplanationHolds, Person
<1>7. CASE UNCHANGED audienceVars
  <2>1. UNCHANGED <<person, dayNow, segment, query, moved>>
    BY <1>7 DEF audienceVars
  <2>2. (query.at # "idle" => Compiles /\ query.next <= Len(Of(query.at)) + 1)'
    BY <2>1, SameRow DEF AudienceInv
  <2>3. (query.at # "idle" /\ ~moved => Shown(query.at, query.next))'
    BY <2>1, SameRow DEF AudienceInv, Shown, TrueBefore, AnyTrue, UntrueBefore
  <2>4. RulesOf(segment, "any")' = RulesOf(segment, "any")
    BY <2>1 DEF RulesOf
  <2>5. ExplanationHolds'
    BY <2>1, <2>4, SameRow DEF AudienceInv, ExplanationHolds
  <2> QED BY <2>1, <2>2, <2>3, <2>5 DEF AudienceInv, Person
<1> QED BY <1>1, <1>2, <1>3, <1>4, <1>5, <1>6, <1>7 DEF AudienceNext

LEMMA AudiencePromise == AudienceInv => AudienceTypeOK /\ SegmentSelectsTheMeant /\ ExplanationHolds
<1> SUFFICES ASSUME AudienceInv PROVE AudienceTypeOK /\ SegmentSelectsTheMeant /\ ExplanationHolds
  OBVIOUS
<1>1. person \in Person /\ dayNow \in Int /\ segment \in Definition
  BY AudienceConstants DEF AudienceInv, AudienceConstants
<1>2. SegmentSelectsTheMeant
  <2>1. CASE Compiles
    BY <1>1, <2>1, SegmentsSelect
  <2>2. CASE ~Compiles
    BY <2>2 DEF SegmentSelectsTheMeant
  <2> QED BY <2>1, <2>2
<1>3. Compiles => \A group \in DOMAIN segment : \A rule \in RulesOf(segment, group) :
                      RuleSql(rule) \in {"true", "false", "null"}
  <2> SUFFICES ASSUME Compiles, NEW group \in DOMAIN segment, NEW rule \in RulesOf(segment, group)
               PROVE  RuleSql(rule) \in Three
    BY DEF Three
  <2>1. PICK i \in DOMAIN segment[group] : rule = segment[group][i]
    BY DEF RulesOf
  <2> QED BY <1>1, <2>1, RulesCompile, RuleMeaning
<1>4. query \in Inquiry
  BY DEF AudienceInv
<1>5. query.answer[1] \in {"nothing", "uncompilable", "matched", "failed", "no_alternative", "excluded", "changed"}
  <2>1. query.answer \in Reasons
    BY <1>4 DEF Inquiry
  <2> QED BY <2>1 DEF Reasons
<1>6. query.at \in {"idle"} \cup Groups /\ query.next \in Nat \ {0}
  BY <1>4 DEF Inquiry
<1>7. query.at \in Groups => query.next <= Len(Of(query.at)) + 1
  BY DEF AudienceInv, Groups
<1> QED BY <1>2, <1>3, <1>5, <1>6, <1>7 DEF AudienceInv, AudienceTypeOK

(***************************************************************************)
(* For any audiences, contacts and days: the SQL of a definition selects   *)
(* nobody it does not mean, and everybody it does but for those a `none`   *)
(* cannot tell; and what the explanation says of a contact nobody edited   *)
(* meanwhile is true (compiler.ts, resolver.ts).                           *)
(***************************************************************************)
THEOREM SegmentsKeepTheirPromise == ServicesSpec => []SegmentsHold
<1>1. ServicesInit => AudienceInv
  BY AudienceStart DEF ServicesInit
<1>2. AudienceInv /\ [ServicesNext]_servicesVars => AudienceInv'
  <2>1. [ServicesNext]_servicesVars => [AudienceNext]_audienceVars
    BY DEF ServicesNext, servicesVars
  <2> QED BY <2>1, AudienceStep
<1>3. AudienceInv => SegmentsHold
  BY AudiencePromise DEF SegmentsHold
<1> QED BY <1>1, <1>2, <1>3, PTL DEF ServicesSpec
=============================================================================
