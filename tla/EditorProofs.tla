---------------------------- MODULE EditorProofs ----------------------------
(***************************************************************************)
(* What MCServices checks of the campaign editor (JourneyTab), for any     *)
(* number of screens, saves, drafts and messages, and of the journey       *)
(* canvas (JourneyCanvas), for any boxes, waits, conditions and order of   *)
(* the edges.  The editor's invariant says of each save how far it has     *)
(* come and of each screen what its save has still to bring about; the     *)
(* lemmas say what a list that is filtered, put in order, planned and      *)
(* written holds afterwards.  For the canvas, the lemmas say which         *)
(* messages a walk emits along which ways, and how the list is collapsed.  *)
(***************************************************************************)
EXTENDS MCServices, FiniteSetTheorems, SequenceTheorems, NaturalsInduction, WellFoundedInduction, TLAPS

-----------------------------------------------------------------------------
(* The campaign editor                                                     *)

RowName == {NoName} \cup ({"row"} \X Nat) \cup ({"new"} \X Nat)
Line == [id : Nat, place : Nat, name : RowName, says : Draft, on : BOOLEAN]
Shown == [name : RowName, id : Nat, says : Draft, on : BOOLEAN]
Promised == [says : Draft, on : BOOLEAN]
Ask == [op : {"DELETE", "PATCH", "POST"}, place : Nat, id : Nat, name : RowName, says : Draft, on : BOOLEAN]
View == [tab : {"journey", "messages"}, list : Seq(Line), steps : Seq(Shown), sync : Sync \cup {NoSync},
         fetch : {"none", "asked", "answered"}, answer : Seq(Line),
         mood : {"edited", "saving", "landed", "settled"}]
Save == [by : Screen \cup {NoScreen}, todo : Seq(Ask), goal : Seq(Promised), calm : BOOLEAN]

EditorTypes ==
    /\ lines \subseteq Line /\ IsFiniteSet(lines)
    /\ made \in Nat /\ made <= MaxIds /\ strokes \in Nat /\ strokes <= MaxStrokes
    /\ inQueue \subseteq 1 .. made
    /\ screens \in [Screen -> View] /\ syncs \in [Sync -> Save]

\* The rows of a campaign: no id and no place twice, and a name says whence it is.
RowsFit ==
    /\ \A r \in lines :
          /\ r.id \in 1 .. made /\ r.place > 0
          /\ \/ r.name = NoName \/ r.name = <<"row", r.id>>
             \/ \E k \in 0 .. strokes - 1 : r.name = <<"new", k>>
    /\ \A r, q \in lines : r.id = q.id \/ r.place = q.place => r = q

\* A list of rows as some answer gave it.
Ascending(list) ==
    /\ \A i \in DOMAIN list : list[i].id \in 1 .. made /\ list[i].place > 0
    /\ \A i, j \in DOMAIN list : i < j => list[i].place < list[j].place /\ list[i].id # list[j].id

Has(list, id) == \E i \in DOMAIN list : list[i].id = id

\* The steps of a canvas: what is left of its list in the order of the list, then
\* what was added to it, which no row of the list is.
StepsFit(steps, list) ==
    /\ \A i \in DOMAIN steps :
          IF steps[i].id = NoId THEN \E k \in 0 .. strokes - 1 : steps[i].name = <<"new", k>>
          ELSE steps[i].name = <<"row", steps[i].id>> /\ Has(list, steps[i].id)
    /\ \A i, j \in DOMAIN steps : i < j =>
          /\ steps[i].name # steps[j].name
          /\ steps[j].id # NoId =>
                \E k, l \in DOMAIN list : k < l /\ list[k].id = steps[i].id /\ list[l].id = steps[j].id
    /\ \A i \in DOMAIN steps, r \in lines :
          steps[i].id = NoId /\ r.name = steps[i].name => ~Has(list, r.id)

AsksFit(todo) ==
    \A i \in DOMAIN todo :
        /\ todo[i].place > 0
        /\ todo[i].op = "PATCH" => todo[i].name = <<"row", todo[i].id>>
        /\ todo[i].op = "POST" => todo[i].id = NoId /\ \E k \in 0 .. strokes - 1 : todo[i].name = <<"new", k>>
        /\ todo[i].op # "POST" => todo[i].id # NoId

\* A row a save has yet to delete or to write.
Awaits(todo, id) == \E i \in DOMAIN todo : todo[i].op # "POST" /\ todo[i].id = id
\* A place a save has yet to write.
Fills(todo, place) == \E i \in DOMAIN todo : todo[i].op # "DELETE" /\ todo[i].place = place

(***************************************************************************)
(* What a calm save has left to do: deletions, then updates, then new      *)
(* rows; each place of its goal is either yet to be filled or holds what   *)
(* the goal says; and a row that waits for its update stands no further to *)
(* the front than it will.                                                 *)
(***************************************************************************)
CalmPlan(todo, goal) ==
    /\ \A i, j \in DOMAIN todo : i < j =>
          /\ todo[j].op = "DELETE" => todo[i].op = "DELETE"
          /\ todo[j].op = "PATCH" => todo[i].op # "POST"
          /\ todo[i].op # "DELETE" /\ todo[j].op # "DELETE" => todo[i].place # todo[j].place
          /\ todo[i].op = "PATCH" /\ todo[j].op = "PATCH" => todo[i].place < todo[j].place
          /\ todo[i].op # "POST" /\ todo[j].op # "POST" => todo[i].id # todo[j].id
          /\ todo[i].op = "POST" => todo[i].name # todo[j].name
    /\ \A i \in DOMAIN todo :
          /\ todo[i].op # "DELETE" =>
                /\ todo[i].place \in DOMAIN goal
                /\ goal[todo[i].place] = [says |-> todo[i].says, on |-> todo[i].on]
          /\ todo[i].op # "POST" => \E r \in lines : r.id = todo[i].id
          /\ todo[i].op = "DELETE" => todo[i].id \notin inQueue
          /\ todo[i].op = "PATCH" => \A r \in lines : r.id = todo[i].id => todo[i].place <= r.place
          /\ todo[i].op = "POST" => \A r \in lines : r.name # todo[i].name
    /\ \A r \in lines : ~Awaits(todo, r.id) =>
          /\ r.place \in DOMAIN goal /\ goal[r.place] = [says |-> r.says, on |-> r.on]
          /\ ~Fills(todo, r.place)
    /\ \A place \in DOMAIN goal :
          Fills(todo, place) \/ \E r \in lines : r.place = place /\ ~Awaits(todo, r.id)

(***************************************************************************)
(* What a save that nobody else meets has brought about of the steps that  *)
(* are shown: each is stored or yet to be written, and of what was removed *)
(* only what could not be deleted is left.                                 *)
(***************************************************************************)
UnderWay(steps, list, todo) ==
    /\ \A t \in DOMAIN todo :
          /\ todo[t].op # "POST" => Has(list, todo[t].id)
          /\ todo[t].op = "DELETE" => ~Has(steps, todo[t].id)
          /\ todo[t].op = "PATCH" =>
                \E i \in DOMAIN steps : /\ steps[i].id = todo[t].id
                                        /\ BodyOf[steps[i].says] = todo[t].says /\ steps[i].on = todo[t].on
    /\ \A i \in DOMAIN steps :
          IF steps[i].id = NoId
          THEN (\E t \in DOMAIN todo : todo[t].op = "POST") \/ \E r \in lines : ~Has(list, r.id)
          ELSE (\E t \in DOMAIN todo : todo[t].op = "PATCH" /\ todo[t].id = steps[i].id)
               \/ \E r \in lines : r.id = steps[i].id /\ r.says = BodyOf[steps[i].says] /\ r.on = steps[i].on
    /\ \A k \in DOMAIN list : ~Has(steps, list[k].id) =>
          \/ \E t \in DOMAIN todo : todo[t].op = "DELETE" /\ todo[t].id = list[k].id
          \/ \A r \in lines : r.id = list[k].id => ~r.on /\ r.id \in inQueue

MoodFits(e) ==
    LET view == screens[e] IN
    /\ view.mood = "saving" =>
          /\ view.sync # NoSync
          /\ Dirty(e) => UnderWay(view.steps, view.list, syncs[view.sync].todo)
    /\ view.mood = "landed" =>
          /\ view.sync = NoSync /\ view.fetch # "none"
          /\ view.fetch = "answered" => view.answer = InOrder(lines)
          /\ Dirty(e) => UnderWay(view.steps, view.list, <<>>)
    /\ view.mood = "settled" =>
          /\ view.sync = NoSync /\ view.fetch = "none" /\ view.list = InOrder(lines)
          /\ Dirty(e) => UnderWay(view.steps, view.list, <<>>)

ScreenFits(e) ==
    /\ Ascending(screens[e].list) /\ Ascending(screens[e].answer)
    /\ StepsFit(screens[e].steps, screens[e].list)
    /\ screens[e].sync # NoSync => syncs[screens[e].sync].by = e
    /\ MoodFits(e)

SyncFits(s) ==
    /\ AsksFit(syncs[s].todo)
    /\ syncs[s].by = NoScreen => syncs[s] = Fresh
    /\ syncs[s].calm => CalmPlan(syncs[s].todo, syncs[s].goal)

EditorInv ==
    /\ EditorTypes /\ RowsFit
    /\ \A e \in Screen : ScreenFits(e)
    /\ \A s \in Sync : SyncFits(s)

-----------------------------------------------------------------------------
(* Lists                                                                   *)

\* The least of some numbers.
LEMMA LeastOf ==
    ASSUME NEW S \in SUBSET Nat, S # {}
    PROVE  \E n \in S : \A m \in S : n <= m
<1>1. PICK n \in S : \A m \in S : ~(<<m, n>> \in OpToRel(<, Nat))
  BY NatLessThanWellFounded, WFMin
<1>2. \A m \in S : <<m, n>> \in OpToRel(<, Nat) <=> m < n
  BY DEF OpToRel
<1>3. \A m \in S : ~(m < n)
  BY <1>1, <1>2, Zenon
<1> QED BY <1>3

LEMMA LenIs ==
    ASSUME NEW U, NEW n \in Nat, NEW s \in [1 .. n -> U]
    PROVE  s \in Seq(U) /\ Len(s) = n /\ DOMAIN s = 1 .. n
<1>1. s \in Seq(U)
  BY SeqDef
<1>2. Len(s) \in Nat /\ DOMAIN s = 1 .. Len(s)
  BY <1>1, LenProperties
<1>3. DOMAIN s = 1 .. n
  OBVIOUS
<1> QED BY <1>1, <1>2, <1>3

LEMMA LengthIs ==
    ASSUME NEW U, NEW s \in Seq(U)
    PROVE  /\ Len(s) \in Nat /\ DOMAIN s = 1 .. Len(s) /\ s \in [1 .. Len(s) -> U]
           /\ \A i \in DOMAIN s : s[i] \in U
BY LenProperties

\* An ascending numbering of some of the places of a list.
Ranks(at, n, places) ==
    /\ at \in [1 .. n -> places]
    /\ \A i, j \in 1 .. n : i < j => at[i] < at[j]
    /\ \A p \in places : \E i \in 1 .. n : at[i] = p

\* The lists that Kept builds up exist.
LEMMA KeptExists ==
    ASSUME NEW U, NEW list \in Seq(U), NEW places
    PROVE  \E upTo : upTo = [n \in 0 .. Len(list) |->
                                IF n = 0 THEN <<>> ELSE IF n \in places THEN Append(upTo[n - 1], list[n])
                                ELSE upTo[n - 1]]
<1> DEFINE Next1(n, before) == IF n \in places THEN Append(before, list[n]) ELSE before
<1> DEFINE Built(m) == \E f \in [0 .. m -> Seq(U)] : /\ f[0] = <<>>
                                                      /\ \A n \in 1 .. m : f[n] = Next1(n, f[n - 1])
<1>0. Len(list) \in Nat /\ \A n \in 1 .. Len(list) : list[n] \in U
  BY LengthIs
<1>1. Built(0)
  <2>1. PICK f \in [0 .. 0 -> Seq(U)] : f = [n \in 0 .. 0 |-> <<>>]
    BY EmptySeq
  <2>2. f[0] = <<>> /\ \A n \in 1 .. 0 : FALSE
    BY <2>1
  <2> QED BY <2>2
<1>2. ASSUME NEW m \in Nat, m < Len(list), Built(m) PROVE Built(m + 1)
  <2>1. PICK f \in [0 .. m -> Seq(U)] : /\ f[0] = <<>>
                                        /\ \A n \in 1 .. m : f[n] = Next1(n, f[n - 1])
    BY <1>2
  <2>2. PICK next \in Seq(U) : next = Next1(m + 1, f[m])
    <3>1. m + 1 \in 1 .. Len(list) /\ f[m] \in Seq(U)
      BY <1>0, <1>2, <2>1
    <3>2. list[m + 1] \in U
      BY <3>1, <1>0
    <3> QED BY <3>1, <3>2, AppendProperties
  <2>3. PICK g \in [0 .. m + 1 -> Seq(U)] : g = [n \in 0 .. m + 1 |-> IF n = m + 1 THEN next ELSE f[n]]
    <3>1. \A n \in 0 .. m + 1 : n = m + 1 \/ n \in 0 .. m
      OBVIOUS
    <3> QED BY <2>1, <3>1
  <2>4. g[0] = <<>>
    BY <2>1, <2>3
  <2>5. ASSUME NEW n \in 1 .. m + 1 PROVE g[n] = Next1(n, g[n - 1])
    <3>1. CASE n = m + 1
      <4>1. g[n] = next /\ g[n - 1] = f[m]
        BY <2>3, <3>1
      <4> QED BY <4>1, <2>2, <3>1
    <3>2. CASE n \in 1 .. m
      <4>1. g[n] = f[n] /\ g[n - 1] = f[n - 1]
        BY <2>3, <3>2
      <4> QED BY <4>1, <2>1, <3>2
    <3> QED BY <3>1, <3>2
  <2> QED BY <2>4, <2>5
<1> HIDE DEF Built, Next1
<1>3. \A m \in Nat : m <= Len(list) => Built(m)
  <2> SUFFICES ASSUME \E m \in Nat : m <= Len(list) /\ ~Built(m) PROVE FALSE
    OBVIOUS
  <2>1. PICK m \in Nat : /\ m <= Len(list) /\ ~Built(m)
                         /\ \A k \in Nat : k <= Len(list) /\ ~Built(k) => m <= k
    <3>1. PICK S \in SUBSET Nat : S = {m \in Nat : m <= Len(list) /\ ~Built(m)}
      OBVIOUS
    <3> QED BY <3>1, LeastOf
  <2>2. m # 0 /\ m - 1 \in Nat /\ m - 1 < Len(list)
    BY <1>0, <1>1, <2>1
  <2>3. Built(m - 1)
    BY <1>0, <2>1, <2>2
  <2>4. Built(m - 1 + 1)
    BY <2>2, <2>3, <1>2
  <2> QED BY <2>1, <2>2, <2>4
<1>4. PICK f \in [0 .. Len(list) -> Seq(U)] : /\ f[0] = <<>>
                                               /\ \A n \in 1 .. Len(list) : f[n] = Next1(n, f[n - 1])
  <2>1. Built(Len(list))
    BY <1>0, <1>3
  <2> QED BY <2>1 DEF Built
<1>5. \A n \in 0 .. Len(list) : n # 0 => n \in 1 .. Len(list)
  BY <1>0
<1>6. f = [n \in 0 .. Len(list) |-> IF n = 0 THEN <<>> ELSE Next1(n, f[n - 1])]
  BY <1>4, <1>5
<1> QED BY <1>6 DEF Next1

LEMMA KeptIs ==
    ASSUME NEW U, NEW list \in Seq(U), NEW places \in SUBSET DOMAIN list
    PROVE  /\ Kept(list, places) \in Seq(U)
           /\ \E at : /\ Ranks(at, Len(Kept(list, places)), places)
                      /\ \A i \in 1 .. Len(Kept(list, places)) : Kept(list, places)[i] = list[at[i]]
<1>0. Len(list) \in Nat /\ DOMAIN list = 1 .. Len(list) /\ \A n \in 1 .. Len(list) : list[n] \in U
  BY LengthIs
<1>1. PICK upTo : /\ upTo = [n \in 0 .. Len(list) |->
                                IF n = 0 THEN <<>> ELSE IF n \in places THEN Append(upTo[n - 1], list[n])
                                ELSE upTo[n - 1]]
                  /\ Kept(list, places) = upTo[Len(list)]
  <2>1. PICK f : f = CHOOSE upTo : upTo = [n \in 0 .. Len(list) |->
                                IF n = 0 THEN <<>> ELSE IF n \in places THEN Append(upTo[n - 1], list[n])
                                ELSE upTo[n - 1]]
    OBVIOUS
  <2>2. f = [n \in 0 .. Len(list) |->
                                IF n = 0 THEN <<>> ELSE IF n \in places THEN Append(f[n - 1], list[n])
                                ELSE f[n - 1]]
    BY <2>1, KeptExists, Zenon
  <2>3. Kept(list, places) = f[Len(list)]
    BY <2>1 DEF Kept
  <2> QED BY <2>2, <2>3
<1>2. upTo[0] = <<>>
  BY <1>0, <1>1
<1>3. \A n \in 1 .. Len(list) : upTo[n] = IF n \in places THEN Append(upTo[n - 1], list[n]) ELSE upTo[n - 1]
  <2> SUFFICES ASSUME NEW n \in 1 .. Len(list)
               PROVE  upTo[n] = IF n \in places THEN Append(upTo[n - 1], list[n]) ELSE upTo[n - 1]
    OBVIOUS
  <2>1. n \in 0 .. Len(list) /\ n # 0
    BY <1>0
  <2> QED BY <1>1, <2>1
<1> DEFINE Good(n) == /\ upTo[n] \in Seq(U)
                      /\ \E at : /\ Ranks(at, Len(upTo[n]), places \cap (1 .. n))
                                 /\ \A i \in 1 .. Len(upTo[n]) : upTo[n][i] = list[at[i]]
<1>4. Good(0)
  <2>1. upTo[0] \in Seq(U) /\ Len(upTo[0]) = 0
    BY <1>2, EmptySeq
  <2>2. Ranks(<<>>, 0, places \cap (1 .. 0))
    BY DEF Ranks
  <2> QED BY <2>1, <2>2
<1>5. ASSUME NEW n \in 1 .. Len(list), Good(n - 1) PROVE Good(n)
  <2>a. PICK before \in Seq(U) : before = upTo[n - 1]
    BY <1>5
  <2>b. PICK len \in Nat : len = Len(before)
    BY LengthIs
  <2>c. PICK at : /\ Ranks(at, Len(upTo[n - 1]), places \cap (1 .. n - 1))
                  /\ \A i \in 1 .. Len(upTo[n - 1]) : upTo[n - 1][i] = list[at[i]]
    BY <1>5
  <2>1. /\ before = upTo[n - 1] /\ len = Len(before)
        /\ Ranks(at, len, places \cap (1 .. n - 1))
        /\ \A i \in 1 .. len : before[i] = list[at[i]]
    BY <2>a, <2>b, <2>c
  <2>2. CASE n \notin places
    <3>1. upTo[n] = before
      BY <1>3, <2>1, <2>2
    <3>2. places \cap (1 .. n) = places \cap (1 .. n - 1)
      BY <1>0, <2>2
    <3> QED BY <3>1, <3>2, <2>1
  <2>3. CASE n \in places
    <3>1. upTo[n] = Append(before, list[n]) /\ list[n] \in U
      BY <1>0, <1>3, <2>1, <2>3
    <3>2. /\ upTo[n] \in Seq(U) /\ Len(upTo[n]) = len + 1
          /\ \A i \in 1 .. len : upTo[n][i] = before[i]
          /\ upTo[n][len + 1] = list[n]
      BY <3>1, <2>1, AppendProperties
    <3>3. PICK new : new = [i \in 1 .. len + 1 |-> IF i = len + 1 THEN n ELSE at[i]]
      OBVIOUS
    <3>4. \A i \in 1 .. len + 1 : i = len + 1 \/ i \in 1 .. len
      OBVIOUS
    <3>5. \A i \in 1 .. len : at[i] \in places \cap (1 .. n - 1)
      BY <2>1 DEF Ranks
    <3>6. Ranks(new, len + 1, places \cap (1 .. n))
      <4>1. new \in [1 .. len + 1 -> places \cap (1 .. n)]
        BY <3>3, <3>4, <3>5, <2>3
      <4>2. ASSUME NEW i \in 1 .. len + 1, NEW j \in 1 .. len + 1, i < j PROVE new[i] < new[j]
        <5>1. i \in 1 .. len /\ new[i] = at[i]
          BY <4>2, <3>3
        <5>2. CASE j = len + 1
          BY <5>1, <5>2, <3>3, <3>5
        <5>3. CASE j \in 1 .. len
          BY <5>1, <5>3, <3>3, <4>2, <2>1 DEF Ranks
        <5> QED BY <5>2, <5>3
      <4>3. ASSUME NEW p \in places \cap (1 .. n) PROVE \E i \in 1 .. len + 1 : new[i] = p
        <5>1. CASE p = n
          BY <5>1, <3>3
        <5>2. CASE p # n
          <6>1. p \in places \cap (1 .. n - 1)
            BY <4>3, <5>2
          <6>2. PICK i \in 1 .. len : at[i] = p
            BY <6>1, <2>1 DEF Ranks
          <6> QED BY <6>2, <3>3
        <5> QED BY <5>1, <5>2
      <4> QED BY <4>1, <4>2, <4>3 DEF Ranks
    <3>7. \A i \in 1 .. len + 1 : upTo[n][i] = list[new[i]]
      BY <3>2, <3>3, <3>4, <2>1
    <3> QED BY <3>2, <3>6, <3>7
  <2> QED BY <2>2, <2>3
<1> HIDE DEF Good
<1>6. \A n \in Nat : n <= Len(list) => Good(n)
  <2> SUFFICES ASSUME \E n \in Nat : n <= Len(list) /\ ~Good(n) PROVE FALSE
    OBVIOUS
  <2>1. PICK n \in Nat : /\ n <= Len(list) /\ ~Good(n)
                         /\ \A k \in Nat : k <= Len(list) /\ ~Good(k) => n <= k
    <3>1. PICK S \in SUBSET Nat : S = {n \in Nat : n <= Len(list) /\ ~Good(n)}
      OBVIOUS
    <3> QED BY <3>1, LeastOf
  <2>2. n \in 1 .. Len(list) /\ n - 1 \in Nat
    BY <1>0, <1>4, <2>1
  <2>3. Good(n - 1)
    BY <1>0, <2>1, <2>2
  <2> QED BY <2>1, <2>2, <2>3, <1>5
<1>7. Good(Len(list)) /\ places \cap (1 .. Len(list)) = places
  BY <1>0, <1>6
<1>8. PICK whole : whole = upTo[Len(list)]
  OBVIOUS
<1>9. whole \in Seq(U) /\ \E at : /\ Ranks(at, Len(whole), places)
                                  /\ \A i \in 1 .. Len(whole) : whole[i] = list[at[i]]
  BY <1>7, <1>8 DEF Good
<1>10. Kept(list, places) = whole
  BY <1>1, <1>8
<1> QED BY <1>9, <1>10, Zenon

-----------------------------------------------------------------------------
(* Rows in the order of their numbers                                      *)

Climbs(list, n) == \A i, j \in 1 .. n : i < j => list[i].place < list[j].place

LEMMA OrderExists ==
    ASSUME NEW rows, IsFiniteSet(rows), \A r \in rows : r.place \in Nat,
           \A r, q \in rows : r.place = q.place => r = q
    PROVE  \E list \in [1 .. Cardinality(rows) -> rows] : Climbs(list, Cardinality(rows))
<1> DEFINE Sorts(n) == \A T \in SUBSET rows : Cardinality(T) = n =>
                          \E list \in [1 .. n -> T] : Climbs(list, n)
<1>1. Sorts(0)
  <2> SUFFICES ASSUME NEW T \in SUBSET rows PROVE \E list \in [1 .. 0 -> T] : Climbs(list, 0)
    OBVIOUS
  <2>1. <<>> \in [1 .. 0 -> T] /\ \A i \in 1 .. 0 : FALSE
    OBVIOUS
  <2>2. Climbs(<<>>, 0)
    BY <2>1 DEF Climbs
  <2> QED BY <2>1, <2>2
<1>2. ASSUME NEW n \in Nat, Sorts(n) PROVE Sorts(n + 1)
  <2> SUFFICES ASSUME NEW T \in SUBSET rows, Cardinality(T) = n + 1
               PROVE  \E list \in [1 .. n + 1 -> T] : Climbs(list, n + 1)
    OBVIOUS
  <2>1. IsFiniteSet(T) /\ T # {}
    BY FS_Subset, FS_EmptySet
  <2>2. PICK least \in T : \A r \in T : least.place <= r.place
    <3>1. PICK S \in SUBSET Nat : S = {r.place : r \in T}
      OBVIOUS
    <3>2. PICK k \in S : \A m \in S : k <= m
      <4>1. S # {}
        <5>1. PICK r \in T : r.place \in S
          BY <3>1, <2>1
        <5> QED BY <5>1
      <4> QED BY <4>1, LeastOf
    <3> QED BY <3>1, <3>2
  <2>3. PICK rest \in SUBSET rows : rest = T \ {least}
    OBVIOUS
  <2>4. Cardinality(rest) = n
    <3>1. Cardinality(T \ {least}) = Cardinality(T) - 1
      BY <2>1, FS_RemoveElement
    <3> QED BY <3>1, <2>3
  <2>5. PICK list \in [1 .. n -> rest] : Climbs(list, n)
    BY <2>4, <1>2
  <2>6. PICK new : new = [i \in 1 .. n + 1 |-> IF i = 1 THEN least ELSE list[i - 1]]
    OBVIOUS
  <2>7. \A i \in 1 .. n + 1 : i = 1 \/ (i # 1 /\ i - 1 \in 1 .. n)
    OBVIOUS
  <2>8. new \in [1 .. n + 1 -> T]
    BY <2>3, <2>5, <2>6, <2>7
  <2>9. ASSUME NEW i \in 1 .. n + 1, NEW j \in 1 .. n + 1, i < j PROVE new[i].place < new[j].place
    <3>1. j - 1 \in 1 .. n /\ new[j] = list[j - 1] /\ list[j - 1] \in rest
      BY <2>5, <2>6, <2>7, <2>9
    <3>2. CASE i = 1
      <4>1. new[i] = least
        BY <2>6, <3>2
      <4>2. list[j - 1] \in T /\ list[j - 1] # least /\ least \in rows /\ list[j - 1] \in rows
        BY <3>1, <2>3
      <4>3. least.place <= list[j - 1].place /\ least.place # list[j - 1].place
        BY <4>2, <2>2
      <4>4. least.place \in Nat /\ list[j - 1].place \in Nat
        BY <4>2
      <4> QED BY <3>1, <4>1, <4>3, <4>4
    <3>3. CASE i # 1
      <4>1. i - 1 \in 1 .. n /\ new[i] = list[i - 1] /\ i - 1 < j - 1
        BY <2>6, <2>7, <2>9, <3>3
      <4> QED BY <3>1, <4>1, <2>5 DEF Climbs
    <3> QED BY <3>2, <3>3
  <2> QED BY <2>8, <2>9 DEF Climbs
<1> HIDE DEF Sorts
<1>3. \A n \in Nat : Sorts(n)
  <2> SUFFICES ASSUME \E n \in Nat : ~Sorts(n) PROVE FALSE
    OBVIOUS
  <2>1. PICK n \in Nat : ~Sorts(n) /\ \A m \in Nat : ~Sorts(m) => n <= m
    <3>1. PICK S \in SUBSET Nat : S = {n \in Nat : ~Sorts(n)}
      OBVIOUS
    <3> QED BY <3>1, LeastOf
  <2>2. n # 0 /\ n - 1 \in Nat
    BY <1>1, <2>1
  <2>3. Sorts(n - 1)
    BY <2>1, <2>2
  <2>4. Sorts(n - 1 + 1)
    BY <2>2, <2>3, <1>2
  <2> QED BY <2>1, <2>2, <2>4
<1>4. Sorts(Cardinality(rows))
  BY <1>3, FS_CardinalityType
<1> QED BY <1>4 DEF Sorts

\* ORDER BY sequence_order gives every row its place.
LEMMA RowsInOrder ==
    ASSUME NEW rows, IsFiniteSet(rows), \A r \in rows : r.place \in Nat,
           \A r, q \in rows : r.place = q.place => r = q
    PROVE  /\ InOrder(rows) \in Seq(rows)
           /\ \A i, j \in DOMAIN InOrder(rows) : i < j => InOrder(rows)[i].place < InOrder(rows)[j].place
           /\ \A r \in rows : \E i \in DOMAIN InOrder(rows) : InOrder(rows)[i] = r
<1>1. PICK n \in Nat : n = Cardinality(rows)
  BY FS_CardinalityType
<1>2. PICK list : list = InOrder(rows)
  OBVIOUS
<1>3. list = CHOOSE l \in [1 .. n -> rows] : \A i, j \in DOMAIN l : i < j => l[i].place < l[j].place
  BY <1>1, <1>2 DEF InOrder
<1>4. \E l \in [1 .. n -> rows] : \A i, j \in DOMAIN l : i < j => l[i].place < l[j].place
  <2>1. PICK l \in [1 .. n -> rows] : Climbs(l, n)
    BY <1>1, OrderExists
  <2>2. DOMAIN l = 1 .. n
    OBVIOUS
  <2> QED BY <2>1, <2>2 DEF Climbs
<1>5. list \in [1 .. n -> rows] /\ \A i, j \in DOMAIN list : i < j => list[i].place < list[j].place
  BY <1>3, <1>4, Zenon
<1>6. DOMAIN list = 1 .. n /\ list \in Seq(rows)
  BY <1>5, LenIs
<1>7. \A i \in 1 .. n : list[i] \in rows /\ list[i].place \in Nat
  BY <1>5
<1>8. ASSUME NEW i \in 1 .. n, NEW j \in 1 .. n, i # j PROVE list[i] # list[j]
  <2>1. i < j \/ j < i
    BY <1>8
  <2>2. list[i].place < list[j].place \/ list[j].place < list[i].place
    BY <2>1, <1>5, <1>6
  <2> QED BY <2>2, <1>7
<1>9. list \in Injection(1 .. n, rows)
  BY <1>5, <1>8 DEF Injection, IsInjective
<1>10. list \in Surjection(1 .. n, rows)
  <2>1. Cardinality(1 .. n) = n
    BY FS_Interval
  <2> QED BY <2>1, <1>1, <1>9, FS_Injection
<1>11. \A r \in rows : \E i \in 1 .. n : list[i] = r
  BY <1>10 DEF Surjection
<1> QED BY <1>2, <1>5, <1>6, <1>11

-----------------------------------------------------------------------------
(* What a canvas shows of a list                                           *)

LEMMA RowsListed ==
    ASSUME IsFiniteSet(lines), lines \subseteq Line, RowsFit
    PROVE  /\ InOrder(lines) \in Seq(Line) /\ Ascending(InOrder(lines))
           /\ \A i \in DOMAIN InOrder(lines) : InOrder(lines)[i] \in lines
           /\ \A r \in lines : \E i \in DOMAIN InOrder(lines) : InOrder(lines)[i] = r
<1>1. IsFiniteSet(lines) /\ lines \subseteq Line /\ \A r \in lines : r.place \in Nat
  BY DEF Line
<1>2. \A r, q \in lines : r.place = q.place => r = q
  BY DEF RowsFit
<1>3. PICK list : list = InOrder(lines)
  OBVIOUS
<1>4. /\ list \in Seq(lines)
      /\ \A i, j \in DOMAIN list : i < j => list[i].place < list[j].place
      /\ \A r \in lines : \E i \in DOMAIN list : list[i] = r
  BY <1>1, <1>2, <1>3, RowsInOrder
<1>5. list \in Seq(Line)
  BY <1>1, <1>4, SeqMonotonic
<1>6. \A i \in DOMAIN list : list[i] \in lines
  BY <1>4, LengthIs
<1>7. \A i \in DOMAIN list : list[i].id \in 1 .. made /\ list[i].place > 0 /\ list[i].place \in Nat
  BY <1>1, <1>6 DEF RowsFit
<1>8. ASSUME NEW i \in DOMAIN list, NEW j \in DOMAIN list, i < j PROVE list[i].id # list[j].id
  <2>1. list[i].place < list[j].place /\ list[i].place \in Nat /\ list[j].place \in Nat
    BY <1>4, <1>7, <1>8
  <2> QED BY <2>1, <1>6 DEF RowsFit
<1>9. Ascending(list)
  BY <1>4, <1>7, <1>8 DEF Ascending
<1> QED BY <1>3, <1>4, <1>5, <1>6, <1>9

LEMMA LinesInOrder ==
    ASSUME EditorTypes, RowsFit
    PROVE  /\ InOrder(lines) \in Seq(Line) /\ Ascending(InOrder(lines))
           /\ \A i \in DOMAIN InOrder(lines) : InOrder(lines)[i] \in lines
           /\ \A r \in lines : \E i \in DOMAIN InOrder(lines) : InOrder(lines)[i] = r
BY RowsListed DEF EditorTypes

LEMMA DrawnIs ==
    ASSUME NEW list \in Seq(Line)
    PROVE  /\ Drawn(list) \in Seq(Shown) /\ DOMAIN Drawn(list) = DOMAIN list
           /\ \A i \in DOMAIN list :
                 /\ list[i] \in Line
                 /\ Drawn(list)[i] = [name |-> <<"row", list[i].id>>, id |-> list[i].id,
                                      says |-> list[i].says, on |-> list[i].on]
<1>1. PICK n \in Nat : n = Len(list) /\ DOMAIN list = 1 .. n /\ \A i \in 1 .. n : list[i] \in Line
  BY LengthIs
<1>2. Drawn(list) = [i \in 1 .. n |-> [name |-> <<"row", list[i].id>>, id |-> list[i].id,
                                      says |-> list[i].says, on |-> list[i].on]]
  BY <1>1 DEF Drawn
<1>3. \A i \in 1 .. n : [name |-> <<"row", list[i].id>>, id |-> list[i].id,
                                      says |-> list[i].says, on |-> list[i].on] \in Shown
  <2>1. \A i \in 1 .. n : list[i].id \in Nat /\ list[i].says \in Draft /\ list[i].on \in BOOLEAN
    BY <1>1 DEF Line
  <2>2. \A i \in 1 .. n : <<"row", list[i].id>> \in RowName
    BY <2>1 DEF RowName
  <2> QED BY <2>1, <2>2 DEF Shown
<1>4. Drawn(list) \in [1 .. n -> Shown]
  BY <1>2, <1>3
<1> QED BY <1>1, <1>2, <1>4, LenIs

LEMMA DrawnFits ==
    ASSUME NEW list \in Seq(Line), Ascending(list)
    PROVE  StepsFit(Drawn(list), list)
<1>1. PICK steps : steps = Drawn(list)
  OBVIOUS
<1>2. /\ DOMAIN steps = DOMAIN list
      /\ \A i \in DOMAIN list : steps[i] = [name |-> <<"row", list[i].id>>, id |-> list[i].id,
                                            says |-> list[i].says, on |-> list[i].on]
  BY <1>1, DrawnIs
<1>3. \A i \in DOMAIN steps : /\ steps[i].id = list[i].id /\ steps[i].name = <<"row", list[i].id>>
                              /\ steps[i].id # NoId /\ Has(list, steps[i].id)
  BY <1>2 DEF Ascending, NoId, Has
<1>4. ASSUME NEW i \in DOMAIN steps, NEW j \in DOMAIN steps, i < j
      PROVE  /\ steps[i].name # steps[j].name
             /\ \E k, l \in DOMAIN list : k < l /\ list[k].id = steps[i].id /\ list[l].id = steps[j].id
  <2>1. list[i].id # list[j].id
    BY <1>2, <1>4 DEF Ascending
  <2> QED BY <2>1, <1>2, <1>3, <1>4
<1> QED BY <1>1, <1>3, <1>4 DEF StepsFit

LEMMA SameDrawn ==
    ASSUME NEW a \in Seq(Line), NEW b \in Seq(Line), Drawn(a) = Drawn(b)
    PROVE  DOMAIN a = DOMAIN b /\ \A i \in DOMAIN a : a[i].id = b[i].id /\ a[i].says = b[i].says /\ a[i].on = b[i].on
<1>1. DOMAIN a = DOMAIN b
  BY DrawnIs
<1>2. ASSUME NEW i \in DOMAIN a PROVE a[i].id = b[i].id /\ a[i].says = b[i].says /\ a[i].on = b[i].on
  <2>1. [name |-> <<"row", a[i].id>>, id |-> a[i].id, says |-> a[i].says, on |-> a[i].on]
          = [name |-> <<"row", b[i].id>>, id |-> b[i].id, says |-> b[i].says, on |-> b[i].on]
    BY <1>1, DrawnIs
  <2> QED BY <2>1
<1> QED BY <1>1, <1>2

\* The same answer leaves what is shown as it was.
LEMMA SameListFits ==
    ASSUME NEW a, NEW b, DOMAIN a = DOMAIN b, \A i \in DOMAIN a : a[i].id = b[i].id,
           NEW steps, NEW todo
    PROVE  /\ StepsFit(steps, a) => StepsFit(steps, b)
           /\ UnderWay(steps, a, todo) => UnderWay(steps, b, todo)
<1>1. \A id : Has(a, id) <=> Has(b, id)
  BY DEF Has
<1>2. ASSUME StepsFit(steps, a) PROVE StepsFit(steps, b)
  <2>1. \A i, j \in DOMAIN steps :
          (\E k, l \in DOMAIN a : k < l /\ a[k].id = steps[i].id /\ a[l].id = steps[j].id)
          => \E k, l \in DOMAIN b : k < l /\ b[k].id = steps[i].id /\ b[l].id = steps[j].id
    OBVIOUS
  <2> QED BY <2>1, <1>1, <1>2 DEF StepsFit
<1>3. ASSUME UnderWay(steps, a, todo) PROVE UnderWay(steps, b, todo)
  BY <1>1, <1>3 DEF UnderWay
<1> QED BY <1>2, <1>3

\* What climbs through all of 1 .. m is the identity: the first place that a
\* numbering leaves out cannot be found again.
LEMMA ClimbsOnto ==
    ASSUME NEW n \in Nat, NEW m \in Nat, NEW at, Ranks(at, n, 1 .. m)
    PROVE  n = m /\ \A i \in 1 .. n : at[i] = i
<1>0. /\ at \in [1 .. n -> 1 .. m]
      /\ \A i, j \in 1 .. n : i < j => at[i] < at[j]
      /\ \A k \in 1 .. m : \E i \in 1 .. n : at[i] = k
  BY DEF Ranks
<1>1. \A i \in 1 .. n : at[i] = i
  <2> SUFFICES ASSUME \E i \in 1 .. n : at[i] # i PROVE FALSE
    OBVIOUS
  <2>1. PICK i \in 1 .. n : at[i] # i /\ \A j \in 1 .. n : at[j] # j => i <= j
    <3>0. {i \in 1 .. n : at[i] # i} \subseteq Nat
      OBVIOUS
    <3>1. PICK S \in SUBSET Nat : S = {i \in 1 .. n : at[i] # i}
      BY <3>0
    <3> QED BY <3>1, LeastOf
  <2>2. \A j \in 1 .. n : j < i => at[j] = j
    BY <2>1
  <2>3. at[i] > i
    <3>1. CASE at[i] < i
      <4>1. at[i] \in 1 .. n /\ at[at[i]] = at[i]
        BY <3>1, <2>2, <1>0
      <4> QED BY <4>1, <3>1, <1>0
    <3> QED BY <3>1, <2>1, <1>0
  <2>4. PICK j \in 1 .. n : at[j] = i
    <3>1. i \in 1 .. m
      BY <2>3, <1>0
    <3> QED BY <3>1, <1>0
  <2>5. CASE j < i
    BY <2>2, <2>4, <2>5
  <2>6. CASE j >= i
    <3>1. i < j
      BY <2>3, <2>4, <2>6, <1>0
    <3>2. at[i] < at[j] /\ at[i] \in Nat
      BY <3>1, <1>0
    <3> QED BY <3>2, <2>3, <2>4
  <2> QED BY <2>5, <2>6
<1>2. n <= m
  <2>1. n = 0 \/ n \in 1 .. n
    OBVIOUS
  <2>2. n \in 1 .. n => n \in 1 .. m
    BY <1>0, <1>1
  <2> QED BY <2>1, <2>2
<1>3. m <= n
  <2>1. m = 0 \/ m \in 1 .. m
    OBVIOUS
  <2>2. m \in 1 .. m => m \in 1 .. n
    BY <1>0, <1>1
  <2> QED BY <2>1, <2>2
<1> QED BY <1>1, <1>2, <1>3

\* Steps that lead through the whole list are the list.
LEMMA AllStepsAreDrawn ==
    ASSUME NEW list \in Seq(Line), Ascending(list), NEW steps \in Seq(Shown), StepsFit(steps, list),
           \A k \in DOMAIN list : Has(steps, list[k].id),
           \A i \in DOMAIN steps : /\ steps[i].id # NoId
                                   /\ \E k \in DOMAIN list : /\ list[k].id = steps[i].id /\ list[k].says = steps[i].says
                                                             /\ list[k].on = steps[i].on
    PROVE  steps = Drawn(list)
<1>1. PICK n, m \in Nat : n = Len(steps) /\ m = Len(list) /\ DOMAIN steps = 1 .. n /\ DOMAIN list = 1 .. m
  BY LengthIs
<1>2. \A k, l \in 1 .. m : list[k].id = list[l].id => k = l
  BY <1>1 DEF Ascending
<1>3. \A i \in 1 .. n : \E k \in 1 .. m : list[k].id = steps[i].id
  BY <1>1
<1>4. PICK at : at = [i \in 1 .. n |-> CHOOSE k \in 1 .. m : list[k].id = steps[i].id]
  OBVIOUS
<1>5. \A i \in 1 .. n : at[i] \in 1 .. m /\ list[at[i]].id = steps[i].id
  BY <1>3, <1>4
<1>6. ASSUME NEW i \in 1 .. n, NEW j \in 1 .. n, i < j PROVE at[i] < at[j]
  <2>a. steps[j].id # NoId /\ i \in DOMAIN steps /\ j \in DOMAIN steps
    BY <1>1
  <2>b. \E k, l \in DOMAIN list : k < l /\ list[k].id = steps[i].id /\ list[l].id = steps[j].id
    BY <2>a, <1>6 DEF StepsFit
  <2>1. PICK k, l \in 1 .. m : k < l /\ list[k].id = steps[i].id /\ list[l].id = steps[j].id
    BY <1>1, <2>b
  <2>2. k = at[i] /\ l = at[j]
    <3>1. at[i] \in 1 .. m /\ list[at[i]].id = steps[i].id
      BY <1>5
    <3>2. at[j] \in 1 .. m /\ list[at[j]].id = steps[j].id
      BY <1>5
    <3>3. k = at[i]
      BY <2>1, <3>1, <1>2
    <3>4. l = at[j]
      BY <2>1, <3>2, <1>2
    <3> QED BY <3>3, <3>4
  <2> QED BY <2>1, <2>2
<1>7. ASSUME NEW k \in 1 .. m PROVE \E i \in 1 .. n : at[i] = k
  <2>1. PICK i \in 1 .. n : steps[i].id = list[k].id
    BY <1>1 DEF Has
  <2>2. PICK l : l = at[i]
    OBVIOUS
  <2>3. l \in 1 .. m /\ list[l].id = steps[i].id
    BY <2>2, <1>5
  <2>4. l = k
    BY <2>1, <2>3, <1>2
  <2> QED BY <2>2, <2>4
<1>8. n = m /\ \A i \in 1 .. n : at[i] = i
  <2>1. Ranks(at, n, 1 .. m)
    BY <1>4, <1>5, <1>6, <1>7 DEF Ranks
  <2> QED BY <2>1, ClimbsOnto
<1>9. n = m
  BY <1>8
<1>10. ASSUME NEW i \in 1 .. n PROVE steps[i] = Drawn(list)[i]
  <2>1. list[i].id = steps[i].id
    BY <1>5, <1>8, <1>10
  <2>2. list[i].says = steps[i].says /\ list[i].on = steps[i].on
    <3>1. PICK k \in 1 .. m : list[k].id = steps[i].id /\ list[k].says = steps[i].says /\ list[k].on = steps[i].on
      BY <1>1
    <3>2. k = i
      BY <3>1, <2>1, <1>2, <1>9
    <3> QED BY <3>1, <3>2
  <2>3. steps[i].name = <<"row", steps[i].id>> /\ steps[i] \in Shown
    BY <1>1, LengthIs DEF StepsFit
  <2>4. steps[i] = [name |-> <<"row", list[i].id>>, id |-> list[i].id, says |-> list[i].says, on |-> list[i].on]
    BY <2>1, <2>2, <2>3 DEF Shown
  <2> QED BY <2>4, <1>1, <1>9, DrawnIs
<1>11. Drawn(list) \in Seq(Shown) /\ DOMAIN Drawn(list) = 1 .. n
  BY <1>1, <1>9, DrawnIs
<1> QED BY <1>1, <1>10, <1>11, LengthIs

-----------------------------------------------------------------------------
(* The plan of a save                                                      *)

\* What climbs from 1 on is nowhere below its place.
LEMMA ClimbsAbove ==
    ASSUME NEW n \in Nat, NEW f, \A i \in 1 .. n : f[i] \in Nat /\ f[i] > 0,
           \A i, j \in 1 .. n : i < j => f[i] < f[j]
    PROVE  \A i \in 1 .. n : i <= f[i]
<1> SUFFICES ASSUME \E i \in 1 .. n : ~(i <= f[i]) PROVE FALSE
  OBVIOUS
<1>1. {i \in 1 .. n : ~(i <= f[i])} \subseteq Nat
  OBVIOUS
<1>2. PICK S \in SUBSET Nat : S = {i \in 1 .. n : ~(i <= f[i])}
  BY <1>1
<1>3. PICK i \in S : \A j \in S : i <= j
  BY <1>2, LeastOf
<1>4. i \in 1 .. n /\ f[i] < i /\ f[i] \in Nat /\ f[i] > 0
  BY <1>2, <1>3
<1>5. i - 1 \in 1 .. n /\ i - 1 < i
  BY <1>4
<1>6. i - 1 <= f[i - 1]
  BY <1>2, <1>3, <1>5
<1>7. f[i - 1] < f[i] /\ f[i - 1] \in Nat
  BY <1>4, <1>5
<1> QED BY <1>4, <1>5, <1>6, <1>7

BodyAt(op, steps, i) ==
    [op |-> op, place |-> i, id |-> steps[i].id, name |-> steps[i].name, says |-> BodyOf[steps[i].says], on |-> steps[i].on]

LEMMA BodiesIs ==
    ASSUME NEW op \in {"DELETE", "PATCH", "POST"}, NEW steps \in Seq(Shown)
    PROVE  /\ Bodies(op, steps) \in Seq(Ask) /\ DOMAIN Bodies(op, steps) = DOMAIN steps
           /\ \A i \in DOMAIN steps : Bodies(op, steps)[i] = BodyAt(op, steps, i)
<1>1. PICK n \in Nat : n = Len(steps) /\ DOMAIN steps = 1 .. n /\ \A i \in 1 .. n : steps[i] \in Shown
  BY LengthIs
<1>2. Bodies(op, steps) = [i \in 1 .. n |-> BodyAt(op, steps, i)]
  BY <1>1 DEF Bodies, BodyAt
<1>3. \A i \in 1 .. n : BodyAt(op, steps, i) \in Ask
  <2>1. \A i \in 1 .. n : BodyOf[steps[i].says] \in Draft
    BY <1>1, JourneyTabConstants DEF Shown
  <2> QED BY <2>1, <1>1 DEF BodyAt, Ask, Shown
<1>4. Bodies(op, steps) \in [1 .. n -> Ask]
  BY <1>2, <1>3
<1> QED BY <1>1, <1>2, <1>4, LenIs

LEMMA ThreeParts ==
    ASSUME NEW U, NEW A \in Seq(U), NEW B \in Seq(U), NEW C \in Seq(U)
    PROVE  /\ A \o B \o C \in Seq(U) /\ Len(A \o B \o C) = Len(A) + Len(B) + Len(C)
           /\ \A i \in 1 .. Len(A) : (A \o B \o C)[i] = A[i]
           /\ \A i \in 1 .. Len(B) : (A \o B \o C)[Len(A) + i] = B[i]
           /\ \A i \in 1 .. Len(C) : (A \o B \o C)[Len(A) + Len(B) + i] = C[i]
<1>1. Len(A) \in Nat /\ Len(B) \in Nat /\ Len(C) \in Nat
  BY LengthIs
<1>2. PICK X \in Seq(U) : X = A \o B
  BY ConcatProperties
<1>3. /\ Len(X) = Len(A) + Len(B)
      /\ \A i \in 1 .. Len(A) + Len(B) : X[i] = IF i <= Len(A) THEN A[i] ELSE B[i - Len(A)]
  BY <1>2, ConcatProperties
<1>4. PICK Y \in Seq(U) : Y = X \o C
  BY ConcatProperties
<1>5. /\ Len(Y) = Len(X) + Len(C)
      /\ \A i \in 1 .. Len(X) + Len(C) : Y[i] = IF i <= Len(X) THEN X[i] ELSE C[i - Len(X)]
  BY <1>4, ConcatProperties
<1>6. ASSUME NEW i \in 1 .. Len(A) PROVE Y[i] = A[i]
  BY <1>1, <1>3, <1>5
<1>7. ASSUME NEW i \in 1 .. Len(B) PROVE Y[Len(A) + i] = B[i]
  <2>0. Len(A) + i \in 1 .. Len(X) + Len(C) /\ Len(A) + i <= Len(X) /\ ~(Len(A) + i <= Len(A))
    BY <1>1, <1>3
  <2>1. Y[Len(A) + i] = X[Len(A) + i]
    BY <2>0, <1>5
  <2>2. X[Len(A) + i] = B[Len(A) + i - Len(A)]
    BY <1>1, <1>3
  <2>3. Len(A) + i - Len(A) = i
    BY <1>1
  <2> QED BY <2>1, <2>2, <2>3
<1>8. ASSUME NEW i \in 1 .. Len(C) PROVE Y[Len(A) + Len(B) + i] = C[i]
  <2>1. Y[Len(A) + Len(B) + i] = C[Len(A) + Len(B) + i - Len(X)]
    <3>1. Len(X) + i \in 1 .. Len(X) + Len(C) /\ ~(Len(X) + i <= Len(X)) /\ Len(X) + i = Len(A) + Len(B) + i
      BY <1>1, <1>3
    <3> QED BY <3>1, <1>5
  <2>2. Len(A) + Len(B) + i - Len(X) = i
    BY <1>1, <1>3
  <2> QED BY <2>1, <2>2
<1> QED BY <1>1, <1>2, <1>3, <1>4, <1>5, <1>6, <1>7, <1>8

(***************************************************************************)
(* A plan: deletions of what the list has and the steps have not, updates  *)
(* of what both have, and what is new, each part in the order of its list. *)
(***************************************************************************)
Deletes(plan, steps, list, spot, t) ==
    /\ plan[t].op = "DELETE" /\ plan[t].place > 0
    /\ spot[t] \in DOMAIN list /\ ~Has(steps, list[spot[t]].id) /\ plan[t].id = list[spot[t]].id
Updates(plan, steps, spot, t) == spot[t] \in Stored(steps) /\ plan[t] = BodyAt("PATCH", steps, spot[t])
Creates(plan, steps, spot, t) ==
    spot[t] \in DOMAIN steps \ Stored(steps) /\ plan[t] = BodyAt("POST", steps, spot[t])

PlanFits(plan, steps, list, spot) ==
    /\ plan \in Seq(Ask)
    /\ \A t \in DOMAIN plan :
          /\ plan[t] \in Ask /\ spot[t] \in Nat
          /\ plan[t].op = "DELETE" => Deletes(plan, steps, list, spot, t)
          /\ plan[t].op = "PATCH" => Updates(plan, steps, spot, t)
          /\ plan[t].op = "POST" => Creates(plan, steps, spot, t)
    /\ \A t, u \in DOMAIN plan : t < u =>
          /\ plan[u].op = "DELETE" => plan[t].op = "DELETE"
          /\ plan[u].op = "PATCH" => plan[t].op # "POST"
          /\ plan[t].op = plan[u].op => spot[t] < spot[u]
    /\ \A k \in DOMAIN list : ~Has(steps, list[k].id) =>
          \E t \in DOMAIN plan : plan[t].op = "DELETE" /\ plan[t].id = list[k].id
    /\ \A i \in Stored(steps) : \E t \in DOMAIN plan : plan[t] = BodyAt("PATCH", steps, i)
    /\ \A i \in DOMAIN steps \ Stored(steps) : \E t \in DOMAIN plan : plan[t] = BodyAt("POST", steps, i)

LEMMA PlanIs ==
    ASSUME NEW list \in Seq(Line), NEW steps \in Seq(Shown)
    PROVE  \E spot : PlanFits(SyncPlan(steps, list), steps, list, spot)
<1>1. PICK gone : gone = {k \in DOMAIN list : \A i \in DOMAIN steps : steps[i].id # list[k].id}
  OBVIOUS
<1>2. \A k \in DOMAIN list : k \in gone <=> ~Has(steps, list[k].id)
  BY <1>1 DEF Has
<1>3. PICK drawn \in Seq(Shown) : /\ drawn = Drawn(list) /\ DOMAIN drawn = DOMAIN list
                                  /\ \A i \in DOMAIN list : drawn[i].id = list[i].id
  <2>1. Drawn(list) \in Seq(Shown) /\ DOMAIN Drawn(list) = DOMAIN list
    BY DrawnIs
  <2>2. \A i \in DOMAIN list : Drawn(list)[i].id = list[i].id
    BY DEF Drawn
  <2> QED BY <2>1, <2>2
<1>4. gone \in SUBSET DOMAIN drawn
  BY <1>1, <1>3
<1>5. PICK left \in Seq(Shown) : left = Removed(steps, list) /\ left = Kept(drawn, gone)
  <2>1. Removed(steps, list) = Kept(drawn, gone)
    BY <1>1, <1>3 DEF Removed
  <2> QED BY <2>1, <1>4, KeptIs
<1>6. PICK atD : /\ Ranks(atD, Len(left), gone)
                 /\ \A i \in 1 .. Len(left) : left[i] = drawn[atD[i]]
  BY <1>4, <1>5, KeptIs
<1>7. PICK A \in Seq(Ask) : A = Bodies("DELETE", left) /\ DOMAIN A = DOMAIN left
                            /\ \A i \in DOMAIN left : A[i] = BodyAt("DELETE", left, i)
  BY BodiesIs
<1>8. PICK updates \in Seq(Ask) : /\ updates = Bodies("PATCH", steps) /\ DOMAIN updates = DOMAIN steps
                                  /\ \A i \in DOMAIN steps : updates[i] = BodyAt("PATCH", steps, i)
  BY BodiesIs
<1>9. PICK creates \in Seq(Ask) : /\ creates = Bodies("POST", steps) /\ DOMAIN creates = DOMAIN steps
                                  /\ \A i \in DOMAIN steps : creates[i] = BodyAt("POST", steps, i)
  BY BodiesIs
<1>10. PICK known : known = Stored(steps)
  OBVIOUS
<1>11. known \in SUBSET DOMAIN updates /\ DOMAIN steps \ known \in SUBSET DOMAIN creates
  BY <1>8, <1>9, <1>10 DEF Stored
<1>12. PICK B \in Seq(Ask) : B = Kept(updates, known)
  <2>1. known \in SUBSET DOMAIN updates /\ updates \in Seq(Ask)
    BY <1>8, <1>11
  <2>2. Kept(updates, known) \in Seq(Ask)
    BY <2>1, KeptIs
  <2> QED BY <2>2
<1>13. PICK atP : Ranks(atP, Len(B), known) /\ \A i \in 1 .. Len(B) : B[i] = updates[atP[i]]
  <2>1. known \in SUBSET DOMAIN updates /\ updates \in Seq(Ask)
    BY <1>8, <1>11
  <2>2. \E at : /\ Ranks(at, Len(Kept(updates, known)), known)
                 /\ \A i \in 1 .. Len(Kept(updates, known)) : Kept(updates, known)[i] = updates[at[i]]
    BY <2>1, KeptIs
  <2> QED BY <2>2, <1>12
<1>14. PICK C \in Seq(Ask) : C = Kept(creates, DOMAIN steps \ known)
  <2>1. DOMAIN steps \ known \in SUBSET DOMAIN creates /\ creates \in Seq(Ask)
    BY <1>9, <1>11
  <2>2. Kept(creates, DOMAIN steps \ known) \in Seq(Ask)
    BY <2>1, KeptIs
  <2> QED BY <2>2
<1>15. PICK atC : Ranks(atC, Len(C), DOMAIN steps \ known) /\ \A i \in 1 .. Len(C) : C[i] = creates[atC[i]]
  <2>1. DOMAIN steps \ known \in SUBSET DOMAIN creates /\ creates \in Seq(Ask)
    BY <1>9, <1>11
  <2>2. PICK new \in SUBSET DOMAIN creates : new = DOMAIN steps \ known
    BY <2>1
  <2>3. \E at : /\ Ranks(at, Len(Kept(creates, new)), new)
                 /\ \A i \in 1 .. Len(Kept(creates, new)) : Kept(creates, new)[i] = creates[at[i]]
    <3>1. new \in SUBSET DOMAIN creates /\ creates \in Seq(Ask)
      BY <2>1, <2>2
    <3> QED BY <3>1, KeptIs
  <2> QED BY <2>2, <2>3, <1>14
<1>16. PICK plan \in Seq(Ask) : plan = A \o B \o C
  BY ThreeParts
<1>17. SyncPlan(steps, list) = plan
  BY <1>5, <1>7, <1>8, <1>9, <1>10, <1>12, <1>14, <1>16 DEF SyncPlan
<1>18. PICK a \in Nat, b \in Nat, c \in Nat : a = Len(A) /\ b = Len(B) /\ c = Len(C)
  BY LengthIs
<1>19. /\ DOMAIN plan = 1 .. a + b + c
       /\ \A i \in 1 .. a : plan[i] = A[i]
       /\ \A i \in 1 .. b : plan[a + i] = B[i]
       /\ \A i \in 1 .. c : plan[a + b + i] = C[i]
  <2>1. Len(plan) = a + b + c
    BY <1>16, <1>18, ThreeParts
  <2>2. DOMAIN plan = 1 .. Len(plan)
    BY LengthIs
  <2>3. \A i \in 1 .. a : plan[i] = A[i]
    BY <1>16, <1>18, ThreeParts
  <2>4. \A i \in 1 .. b : plan[a + i] = B[i]
    BY <1>16, <1>18, ThreeParts
  <2>5. \A i \in 1 .. c : plan[a + b + i] = C[i]
    BY <1>16, <1>18, ThreeParts
  <2> QED BY <2>1, <2>2, <2>3, <2>4, <2>5
<1>20. a = Len(left) /\ DOMAIN left = 1 .. a
  BY <1>7, <1>18, LengthIs
<1>21. PICK spot : spot = [t \in 1 .. a + b + c |-> IF t <= a THEN atD[t] ELSE IF t <= a + b THEN atP[t - a]
                                                    ELSE atC[t - a - b]]
  OBVIOUS
<1>22. \A i \in 1 .. a : /\ spot[i] = atD[i] /\ atD[i] \in gone
                         /\ plan[i].op = "DELETE" /\ plan[i].place = i /\ plan[i].id = list[atD[i]].id
  <2> SUFFICES ASSUME NEW i \in 1 .. a
               PROVE  /\ spot[i] = atD[i] /\ atD[i] \in gone
                      /\ plan[i].op = "DELETE" /\ plan[i].place = i /\ plan[i].id = list[atD[i]].id
    OBVIOUS
  <2>0. i \in 1 .. a + b + c /\ i <= a
    OBVIOUS
  <2>a. atD[i] \in gone
    BY <1>6, <1>20 DEF Ranks
  <2>1. spot[i] = atD[i] /\ atD[i] \in gone
    BY <2>0, <2>a, <1>21
  <2>2. plan[i] = BodyAt("DELETE", left, i)
    BY <1>7, <1>19, <1>20
  <2>3. left[i].id = list[atD[i]].id
    BY <2>1, <1>1, <1>3, <1>6, <1>20
  <2> QED BY <2>1, <2>2, <2>3 DEF BodyAt
<1>23. \A i \in 1 .. b : spot[a + i] = atP[i] /\ atP[i] \in known /\ plan[a + i] = BodyAt("PATCH", steps, atP[i])
  <2> SUFFICES ASSUME NEW i \in 1 .. b
               PROVE  spot[a + i] = atP[i] /\ atP[i] \in known /\ plan[a + i] = BodyAt("PATCH", steps, atP[i])
    OBVIOUS
  <2>1. a + i \in 1 .. a + b + c /\ ~(a + i <= a) /\ a + i <= a + b /\ a + i - a = i
    OBVIOUS
  <2>2. spot[a + i] = atP[i]
    BY <2>1, <1>21
  <2>3. atP[i] \in known
    BY <1>13, <1>18 DEF Ranks
  <2> QED BY <2>2, <2>3, <1>8, <1>11, <1>13, <1>18, <1>19
<1>24. \A i \in 1 .. c : /\ spot[a + b + i] = atC[i] /\ atC[i] \in DOMAIN steps \ known
                         /\ plan[a + b + i] = BodyAt("POST", steps, atC[i])
  <2> SUFFICES ASSUME NEW i \in 1 .. c
               PROVE  /\ spot[a + b + i] = atC[i] /\ atC[i] \in DOMAIN steps \ known
                      /\ plan[a + b + i] = BodyAt("POST", steps, atC[i])
    OBVIOUS
  <2>1. a + b + i \in 1 .. a + b + c /\ ~(a + b + i <= a) /\ ~(a + b + i <= a + b) /\ a + b + i - a - b = i
    OBVIOUS
  <2>2. spot[a + b + i] = atC[i]
    BY <2>1, <1>21
  <2>3. atC[i] \in DOMAIN steps \ known
    BY <1>15, <1>18 DEF Ranks
  <2> QED BY <2>2, <2>3, <1>9, <1>15, <1>18, <1>19
\* Where a request of the plan is from.
<1>25. \A t \in 1 .. a + b + c : \/ t \in 1 .. a
                                 \/ t > a /\ \E i \in 1 .. b : t = a + i
                                 \/ t > a + b /\ \E i \in 1 .. c : t = a + b + i
  <2> SUFFICES ASSUME NEW t \in 1 .. a + b + c PROVE \/ t \in 1 .. a
                                                     \/ t > a /\ \E i \in 1 .. b : t = a + i
                                                     \/ t > a + b /\ \E i \in 1 .. c : t = a + b + i
    OBVIOUS
  <2>1. CASE t <= a
    BY <2>1
  <2>2. CASE t > a /\ t <= a + b
    <3>1. t - a \in 1 .. b /\ t = a + (t - a)
      BY <2>2
    <3> QED BY <3>1, <2>2
  <2>3. CASE t > a + b
    <3>1. t - a - b \in 1 .. c /\ t = a + b + (t - a - b)
      BY <2>3
    <3> QED BY <3>1, <2>3
  <2> QED BY <2>1, <2>2, <2>3
<1>26. /\ \A t \in 1 .. a + b + c : plan[t].op = "DELETE" => t \in 1 .. a
       /\ \A t \in 1 .. a + b + c : plan[t].op = "PATCH" => t > a /\ \E i \in 1 .. b : t = a + i
       /\ \A t \in 1 .. a + b + c : plan[t].op = "POST" => t > a + b /\ \E i \in 1 .. c : t = a + b + i
  <2>1. ASSUME NEW t \in 1 .. a + b + c
        PROVE  /\ plan[t].op = "DELETE" => t \in 1 .. a
               /\ plan[t].op = "PATCH" => t > a /\ \E i \in 1 .. b : t = a + i
               /\ plan[t].op = "POST" => t > a + b /\ \E i \in 1 .. c : t = a + b + i
    <3>1. CASE t \in 1 .. a
      BY <3>1, <1>22
    <3>2. CASE t > a /\ \E i \in 1 .. b : t = a + i
      <4>0. PICK i \in 1 .. b : t = a + i
        BY <3>2
      <4>a. plan[t] = BodyAt("PATCH", steps, atP[i])
        BY <4>0, <1>23
      <4>1. plan[t].op = "PATCH"
        BY <4>a DEF BodyAt
      <4> QED BY <3>2, <4>1
    <3>3. CASE t > a + b /\ \E i \in 1 .. c : t = a + b + i
      <4>0. PICK i \in 1 .. c : t = a + b + i
        BY <3>3
      <4>a. plan[t] = BodyAt("POST", steps, atC[i])
        BY <4>0, <1>24
      <4>1. plan[t].op = "POST"
        BY <4>a DEF BodyAt
      <4> QED BY <3>3, <4>1
    <3> QED BY <3>1, <3>2, <3>3, <1>25
  <2> QED BY <2>1
<1>27. \A t \in DOMAIN plan : plan[t] \in Ask
  BY LengthIs
<1>28. /\ DOMAIN list \subseteq Nat /\ DOMAIN steps \subseteq Nat
  BY LengthIs
<1>29. ASSUME NEW t \in DOMAIN plan
       PROVE  /\ plan[t] \in Ask /\ spot[t] \in Nat
              /\ plan[t].op = "DELETE" => Deletes(plan, steps, list, spot, t)
              /\ plan[t].op = "PATCH" => Updates(plan, steps, spot, t)
              /\ plan[t].op = "POST" => Creates(plan, steps, spot, t)
  <2>1. CASE t \in 1 .. a
    <3>a. atD[t] \in gone /\ plan[t].place > 0
      BY <2>1, <1>22
    <3>b. atD[t] \in DOMAIN list
      BY <3>a, <1>1
    <3>0. atD[t] \in DOMAIN list /\ ~Has(steps, list[atD[t]].id) /\ plan[t].place > 0
      BY <3>a, <3>b, <1>2
    <3>1. Deletes(plan, steps, list, spot, t)
      BY <2>1, <3>0, <1>22 DEF Deletes
    <3> QED BY <3>1, <1>27, <1>28 DEF Deletes
  <2>2. CASE \E i \in 1 .. b : t = a + i
    <3>1. Updates(plan, steps, spot, t) /\ spot[t] \in known
      BY <2>2, <1>10, <1>23 DEF Updates
    <3>2. plan[t].op = "PATCH"
      BY <3>1 DEF Updates, BodyAt
    <3> QED BY <3>1, <3>2, <1>8, <1>11, <1>27, <1>28
  <2>3. CASE \E i \in 1 .. c : t = a + b + i
    <3>1. Creates(plan, steps, spot, t) /\ spot[t] \in DOMAIN steps
      BY <2>3, <1>10, <1>24 DEF Creates
    <3>2. plan[t].op = "POST"
      BY <3>1 DEF Creates, BodyAt
    <3> QED BY <3>1, <3>2, <1>27, <1>28
  <2> QED BY <2>1, <2>2, <2>3, <1>19, <1>25
<1>30. ASSUME NEW t \in DOMAIN plan, NEW u \in DOMAIN plan, t < u
       PROVE  /\ plan[u].op = "DELETE" => plan[t].op = "DELETE"
              /\ plan[u].op = "PATCH" => plan[t].op # "POST"
              /\ plan[t].op = plan[u].op => spot[t] < spot[u]
  <2>1. t \in 1 .. a + b + c /\ u \in 1 .. a + b + c
    BY <1>19
  <2>2. plan[u].op = "DELETE" => plan[t].op = "DELETE"
    <3> SUFFICES ASSUME plan[u].op = "DELETE" PROVE plan[t].op = "DELETE"
      OBVIOUS
    <3>1. u \in 1 .. a
      BY <2>1, <1>26
    <3>2. t \in 1 .. a
      BY <3>1, <2>1, <1>30
    <3> QED BY <3>2, <1>22
  <2>3. plan[u].op = "PATCH" => plan[t].op # "POST"
    <3> SUFFICES ASSUME plan[u].op = "PATCH", plan[t].op = "POST" PROVE FALSE
      OBVIOUS
    <3>1. u <= a + b
      <4>1. PICK i \in 1 .. b : u = a + i
        BY <2>1, <1>26
      <4> QED BY <4>1
    <3>2. t > a + b
      BY <2>1, <1>26
    <3> QED BY <3>1, <3>2, <2>1, <1>30
  <2>4. plan[t].op = plan[u].op => spot[t] < spot[u]
    <3> SUFFICES ASSUME plan[t].op = plan[u].op PROVE spot[t] < spot[u]
      OBVIOUS
    <3>1. CASE plan[t].op = "DELETE"
      <4>1. t \in 1 .. a /\ u \in 1 .. a
        BY <3>1, <2>1, <1>26
      <4> QED BY <4>1, <1>6, <1>20, <1>22, <1>30 DEF Ranks
    <3>2. CASE plan[t].op = "PATCH"
      <4>1. PICK i \in 1 .. b : t = a + i
        BY <3>2, <2>1, <1>26
      <4>2. PICK j \in 1 .. b : u = a + j
        BY <3>2, <2>1, <1>26
      <4>3. i < j
        BY <4>1, <4>2, <1>30
      <4>4. atP[i] < atP[j]
        BY <4>3, <1>13, <1>18 DEF Ranks
      <4> QED BY <4>1, <4>2, <4>4, <1>23
    <3>3. CASE plan[t].op = "POST"
      <4>1. PICK i \in 1 .. c : t = a + b + i
        BY <3>3, <2>1, <1>26
      <4>2. PICK j \in 1 .. c : u = a + b + j
        BY <3>3, <2>1, <1>26
      <4>3. i < j
        BY <4>1, <4>2, <1>30
      <4>4. atC[i] < atC[j]
        BY <4>3, <1>15, <1>18 DEF Ranks
      <4> QED BY <4>1, <4>2, <4>4, <1>24
    <3>4. plan[t] \in Ask
      BY <1>27
    <3> QED BY <3>1, <3>2, <3>3, <3>4 DEF Ask
  <2> QED BY <2>2, <2>3, <2>4
<1>31. ASSUME NEW k \in DOMAIN list, ~Has(steps, list[k].id)
       PROVE  \E t \in DOMAIN plan : plan[t].op = "DELETE" /\ plan[t].id = list[k].id
  <2>1. PICK t \in 1 .. a : atD[t] = k
    BY <1>2, <1>6, <1>20, <1>31 DEF Ranks
  <2>2. t \in DOMAIN plan
    BY <1>19, SMTT(30)
  <2>3. plan[t].op = "DELETE" /\ plan[t].id = list[k].id
    BY <2>1, <1>22
  <2> QED BY <2>2, <2>3
<1>32. ASSUME NEW i \in Stored(steps) PROVE \E t \in DOMAIN plan : plan[t] = BodyAt("PATCH", steps, i)
  <2>1. PICK t \in 1 .. b : atP[t] = i
    BY <1>10, <1>13, <1>18 DEF Ranks
  <2>2. a + t \in DOMAIN plan
    BY <1>19
  <2> QED BY <2>1, <2>2, <1>23
<1>33. ASSUME NEW i \in DOMAIN steps \ Stored(steps) PROVE \E t \in DOMAIN plan : plan[t] = BodyAt("POST", steps, i)
  <2>1. PICK t \in 1 .. c : atC[t] = i
    BY <1>10, <1>15, <1>18 DEF Ranks
  <2>2. a + b + t \in DOMAIN plan
    BY <1>19, SMTT(30)
  <2> QED BY <2>1, <2>2, <1>24
<1> QED BY <1>17, <1>29, <1>30, <1>31, <1>32, <1>33 DEF PlanFits

LEMMA NamesDiffer ==
    ASSUME NEW list, NEW steps, StepsFit(steps, list),
           NEW i \in DOMAIN steps, NEW j \in DOMAIN steps, i < j
    PROVE  /\ steps[i].name # steps[j].name
           /\ steps[i].id # NoId /\ steps[j].id # NoId => steps[i].id # steps[j].id
<1>1. steps[i].name # steps[j].name
  BY DEF StepsFit
<1>2. steps[i].id # NoId /\ steps[j].id # NoId =>
          steps[i].name = <<"row", steps[i].id>> /\ steps[j].name = <<"row", steps[j].id>>
  BY DEF StepsFit
<1> QED BY <1>1, <1>2

\* A step that is stored stands no further back than its row.
LEMMA NoFurtherBack ==
    ASSUME NEW list \in Seq(Line), Ascending(list), NEW steps \in Seq(Shown), StepsFit(steps, list),
           NEW i \in DOMAIN steps, steps[i].id # NoId, NEW k \in DOMAIN list, list[k].id = steps[i].id
    PROVE  i <= list[k].place
<1>1. PICK n \in Nat, m \in Nat : DOMAIN steps = 1 .. n /\ DOMAIN list = 1 .. m
  BY LengthIs
<1>2. \A j \in 1 .. m : list[j].place \in Nat /\ list[j].place > 0
  <2>1. \A j \in 1 .. m : list[j] \in Line
    BY <1>1, LengthIs
  <2> QED BY <2>1, <1>1 DEF Ascending, Line
<1>3. \A j \in 1 .. m : j <= list[j].place
  <2>1. PICK f : f = [j \in 1 .. m |-> list[j].place]
    OBVIOUS
  <2>2. \A j \in 1 .. m : f[j] \in Nat /\ f[j] > 0
    BY <2>1, <1>2
  <2>3. \A j, l \in 1 .. m : j < l => f[j] < f[l]
    BY <2>1, <1>1 DEF Ascending
  <2>4. \A j \in 1 .. m : j <= f[j]
    BY <2>2, <2>3, ClimbsAbove
  <2> QED BY <2>1, <2>4
<1>4. \A j, l \in 1 .. m : list[j].id = list[l].id => j = l
  BY <1>1 DEF Ascending
<1>5. i \in 1 .. n /\ k \in 1 .. m
  BY <1>1
<1>6. \A j \in 1 .. i : \E l \in 1 .. m : list[l].id = steps[j].id
  <2> SUFFICES ASSUME NEW j \in 1 .. i PROVE \E l \in 1 .. m : list[l].id = steps[j].id
    OBVIOUS
  <2>1. CASE j = i
    BY <2>1, <1>5
  <2>2. CASE j < i
    <3>1. j \in DOMAIN steps
      BY <1>1, <1>5
    <3>2. \E p, l \in DOMAIN list : p < l /\ list[p].id = steps[j].id /\ list[l].id = steps[i].id
      BY <2>2, <3>1 DEF StepsFit
    <3> QED BY <3>2, <1>1
  <2> QED BY <2>1, <2>2, <1>5
<1>7. PICK at : at = [j \in 1 .. i |-> CHOOSE l \in 1 .. m : list[l].id = steps[j].id]
  OBVIOUS
<1>8. \A j \in 1 .. i : at[j] \in 1 .. m /\ list[at[j]].id = steps[j].id
  BY <1>6, <1>7
<1>9. ASSUME NEW j \in 1 .. i, NEW l \in 1 .. i, j < l PROVE at[j] < at[l]
  <2>1. j \in DOMAIN steps /\ l \in DOMAIN steps
    BY <1>1, <1>5
  <2>2. steps[l].id # NoId
    <3>1. list[at[l]].id # NoId
      BY <1>1, <1>8 DEF Ascending, NoId
    <3> QED BY <3>1, <1>8
  <2>3. \E p, q \in DOMAIN list : p < q /\ list[p].id = steps[j].id /\ list[q].id = steps[l].id
    BY <1>9, <2>1, <2>2 DEF StepsFit
  <2>4. PICK p \in 1 .. m : \E q \in 1 .. m : p < q /\ list[p].id = steps[j].id /\ list[q].id = steps[l].id
    BY <2>3, <1>1
  <2>5. PICK q \in 1 .. m : p < q /\ list[p].id = steps[j].id /\ list[q].id = steps[l].id
    BY <2>4
  <2>6. p = at[j]
    <3>1. at[j] \in 1 .. m /\ list[at[j]].id = list[p].id
      BY <2>5, <1>8
    <3> QED BY <3>1, <1>4
  <2>7. q = at[l]
    <3>1. at[l] \in 1 .. m /\ list[at[l]].id = list[q].id
      BY <2>5, <1>8
    <3> QED BY <3>1, <1>4
  <2> QED BY <2>5, <2>6, <2>7
<1>10. \A j \in 1 .. i : at[j] \in Nat /\ at[j] > 0
  BY <1>8
<1>11. \A j \in 1 .. i : j <= at[j]
  <2>1. i \in Nat /\ \A j, l \in 1 .. i : j < l => at[j] < at[l]
    BY <1>5, <1>9
  <2> QED BY <2>1, <1>10, ClimbsAbove
<1>12. at[i] = k /\ i <= at[i]
  BY <1>4, <1>5, <1>8, <1>11
<1> QED BY <1>2, <1>3, <1>5, <1>12

LEMMA PlanIsCalm ==
    ASSUME EditorTypes, RowsFit, NEW list \in Seq(Line), list = InOrder(lines),
           NEW steps \in Seq(Shown), StepsFit(steps, list),
           NEW plan, NEW spot, PlanFits(plan, steps, list, spot),
           \A t \in DOMAIN plan : plan[t].op = "DELETE" => plan[t].id \notin inQueue
    PROVE  CalmPlan(plan, Wanted(steps))
<1>1. PICK goal : goal = Wanted(steps)
  OBVIOUS
<1>2. /\ DOMAIN goal = DOMAIN steps
      /\ \A i \in DOMAIN steps : goal[i] = [says |-> BodyOf[steps[i].says], on |-> steps[i].on]
  BY <1>1 DEF Wanted
<1>3. /\ Ascending(list)
      /\ \A i \in DOMAIN list : list[i] \in lines
      /\ \A r \in lines : \E i \in DOMAIN list : list[i] = r
  BY LinesInOrder
<1>4. \A t \in DOMAIN plan : plan[t].op = "DELETE" => Deletes(plan, steps, list, spot, t)
  BY DEF PlanFits
<1>5. \A t \in DOMAIN plan : plan[t].op = "PATCH" =>
          /\ spot[t] \in DOMAIN steps /\ steps[spot[t]].id # NoId /\ plan[t] = BodyAt("PATCH", steps, spot[t])
  BY DEF PlanFits, Updates, Stored
<1>6. \A t \in DOMAIN plan : plan[t].op = "POST" =>
          /\ spot[t] \in DOMAIN steps /\ steps[spot[t]].id = NoId /\ plan[t] = BodyAt("POST", steps, spot[t])
  BY DEF PlanFits, Creates, Stored
<1>7. \A i \in DOMAIN steps : steps[i].id # NoId => Has(list, steps[i].id)
  BY DEF StepsFit
<1>8. \A t \in DOMAIN plan : plan[t].op \in {"DELETE", "PATCH", "POST"} /\ spot[t] \in Nat
  BY DEF PlanFits, Ask
<1>9. ASSUME NEW t \in DOMAIN plan, NEW u \in DOMAIN plan, t < u
      PROVE  /\ plan[u].op = "DELETE" => plan[t].op = "DELETE"
             /\ plan[u].op = "PATCH" => plan[t].op # "POST"
             /\ plan[t].op # "DELETE" /\ plan[u].op # "DELETE" => plan[t].place # plan[u].place
             /\ plan[t].op = "PATCH" /\ plan[u].op = "PATCH" => plan[t].place < plan[u].place
             /\ plan[t].op # "POST" /\ plan[u].op # "POST" => plan[t].id # plan[u].id
             /\ plan[t].op = "POST" => plan[t].name # plan[u].name
  <2>1. /\ plan[u].op = "DELETE" => plan[t].op = "DELETE"
        /\ plan[u].op = "PATCH" => plan[t].op # "POST"
        /\ plan[t].op = plan[u].op => spot[t] < spot[u]
    BY <1>9 DEF PlanFits
  <2>2. ASSUME plan[t].op = "DELETE", plan[u].op = "DELETE" PROVE plan[t].id # plan[u].id
    BY <2>1, <2>2, <1>3, <1>4, SMTT(30) DEF Deletes, Ascending
  <2>3. ASSUME plan[t].op = "DELETE", plan[u].op = "PATCH" PROVE plan[t].id # plan[u].id
    <3>1. ~Has(steps, plan[t].id)
      BY <2>3, <1>4 DEF Deletes
    <3>2. plan[u].id = steps[spot[u]].id /\ spot[u] \in DOMAIN steps
      BY <2>3, <1>5 DEF BodyAt
    <3> QED BY <3>1, <3>2 DEF Has
  <2>4. ASSUME plan[t].op = "PATCH", plan[u].op = "PATCH"
        PROVE  plan[t].id # plan[u].id /\ plan[t].place < plan[u].place /\ plan[t].place # plan[u].place
    <3>1. /\ plan[t].id = steps[spot[t]].id /\ plan[u].id = steps[spot[u]].id
          /\ plan[t].place = spot[t] /\ plan[u].place = spot[u]
      BY <2>4, <1>5 DEF BodyAt
    <3>2. spot[t] < spot[u]
      BY <2>1, <2>4
    <3>3. steps[spot[t]].id # steps[spot[u]].id
      BY <2>4, <3>2, <1>5, NamesDiffer
    <3> QED BY <3>1, <3>2, <3>3, <1>8
  <2>5. ASSUME plan[t].op = "PATCH", plan[u].op = "POST" PROVE plan[t].place # plan[u].place
    <3>1. plan[t].place = spot[t] /\ plan[u].place = spot[u]
      BY <2>5, <1>5, <1>6 DEF BodyAt
    <3>2. spot[t] # spot[u]
      BY <2>5, <1>5, <1>6
    <3> QED BY <3>1, <3>2
  <2>6. ASSUME plan[t].op = "POST", plan[u].op = "POST"
        PROVE  plan[t].place # plan[u].place /\ plan[t].name # plan[u].name
    <3>1. /\ plan[t].name = steps[spot[t]].name /\ plan[u].name = steps[spot[u]].name
          /\ plan[t].place = spot[t] /\ plan[u].place = spot[u]
      BY <2>6, <1>6 DEF BodyAt
    <3>2. spot[t] < spot[u]
      BY <2>1, <2>6
    <3>3. steps[spot[t]].name # steps[spot[u]].name
      BY <2>6, <3>2, <1>6, NamesDiffer
    <3> QED BY <3>1, <3>2, <3>3, <1>8
  <2> QED BY <2>1, <2>2, <2>3, <2>4, <2>5, <2>6, <1>8
<1>10. ASSUME NEW t \in DOMAIN plan
       PROVE  /\ plan[t].op # "DELETE" =>
                    /\ plan[t].place \in DOMAIN goal
                    /\ goal[plan[t].place] = [says |-> plan[t].says, on |-> plan[t].on]
              /\ plan[t].op # "POST" => \E r \in lines : r.id = plan[t].id
              /\ plan[t].op = "DELETE" => plan[t].id \notin inQueue
              /\ plan[t].op = "PATCH" => \A r \in lines : r.id = plan[t].id => plan[t].place <= r.place
              /\ plan[t].op = "POST" => \A r \in lines : r.name # plan[t].name
  <2>1. ASSUME plan[t].op = "DELETE" PROVE \E r \in lines : r.id = plan[t].id
    BY <2>1, <1>3, <1>4 DEF Deletes
  <2>2. ASSUME plan[t].op = "PATCH"
        PROVE  /\ plan[t].place \in DOMAIN goal
               /\ goal[plan[t].place] = [says |-> plan[t].says, on |-> plan[t].on]
               /\ \E r \in lines : r.id = plan[t].id
               /\ \A r \in lines : r.id = plan[t].id => plan[t].place <= r.place
    <3>1. /\ spot[t] \in DOMAIN steps /\ steps[spot[t]].id # NoId /\ plan[t].place = spot[t]
          /\ plan[t].id = steps[spot[t]].id /\ plan[t].says = BodyOf[steps[spot[t]].says]
          /\ plan[t].on = steps[spot[t]].on
      BY <2>2, <1>5 DEF BodyAt
    <3>2. \E r \in lines : r.id = plan[t].id
      BY <3>1, <1>3, <1>7 DEF Has
    <3>3. ASSUME NEW r \in lines, r.id = plan[t].id PROVE plan[t].place <= r.place
      <4>1. PICK k \in DOMAIN list : list[k] = r
        BY <1>3
      <4> QED BY <4>1, <3>1, <3>3, <1>3, NoFurtherBack
    <3> QED BY <3>1, <3>2, <3>3, <1>2
  <2>3. ASSUME plan[t].op = "POST"
        PROVE  /\ plan[t].place \in DOMAIN goal
               /\ goal[plan[t].place] = [says |-> plan[t].says, on |-> plan[t].on]
               /\ \A r \in lines : r.name # plan[t].name
    <3>1. /\ spot[t] \in DOMAIN steps /\ steps[spot[t]].id = NoId /\ plan[t].place = spot[t]
          /\ plan[t].name = steps[spot[t]].name /\ plan[t].says = BodyOf[steps[spot[t]].says]
          /\ plan[t].on = steps[spot[t]].on
      BY <2>3, <1>6 DEF BodyAt
    <3>2. ASSUME NEW r \in lines PROVE r.name # plan[t].name
      <4>1. Has(list, r.id)
        BY <1>3 DEF Has
      <4> QED BY <4>1, <3>1 DEF StepsFit
    <3> QED BY <3>1, <3>2, <1>2
  <2> QED BY <2>1, <2>2, <2>3, <1>8
<1>11. ASSUME NEW r \in lines PROVE Awaits(plan, r.id)
  <2>1. PICK k \in DOMAIN list : list[k] = r
    BY <1>3
  <2>2. CASE ~Has(steps, r.id)
    <3>1. \E t \in DOMAIN plan : plan[t].op = "DELETE" /\ plan[t].id = r.id
      BY <2>1, <2>2 DEF PlanFits
    <3> QED BY <3>1 DEF Awaits
  <2>3. CASE Has(steps, r.id)
    <3>1. PICK i \in DOMAIN steps : steps[i].id = r.id
      BY <2>3 DEF Has
    <3>2. r.id # NoId
      BY DEF RowsFit, NoId
    <3>3. i \in Stored(steps)
      BY <3>1, <3>2 DEF Stored
    <3>4. PICK t \in DOMAIN plan : plan[t] = BodyAt("PATCH", steps, i)
      BY <3>3 DEF PlanFits
    <3>5. plan[t].op = "PATCH" /\ plan[t].id = r.id
      BY <3>1, <3>4 DEF BodyAt
    <3> QED BY <3>5 DEF Awaits
  <2> QED BY <2>2, <2>3
<1>12. ASSUME NEW place \in DOMAIN goal PROVE Fills(plan, place)
  <2>1. place \in DOMAIN steps
    BY <1>2
  <2>2. PICK t \in DOMAIN plan : plan[t] = BodyAt("PATCH", steps, place) \/ plan[t] = BodyAt("POST", steps, place)
    BY <2>1 DEF PlanFits
  <2>3. plan[t].op # "DELETE" /\ plan[t].place = place
    BY <2>2 DEF BodyAt
  <2> QED BY <2>3 DEF Fills
<1> QED BY <1>1, <1>9, <1>10, <1>11, <1>12 DEF CalmPlan

LEMMA PlanIsUnderWay ==
    ASSUME NEW list, NEW steps, StepsFit(steps, list), NEW plan, NEW spot, PlanFits(plan, steps, list, spot)
    PROVE  UnderWay(steps, list, plan)
<1>1. \A t \in DOMAIN plan : plan[t].op = "DELETE" =>
          spot[t] \in DOMAIN list /\ ~Has(steps, list[spot[t]].id) /\ plan[t].id = list[spot[t]].id
  BY DEF PlanFits, Deletes
<1>2. \A t \in DOMAIN plan : plan[t].op = "PATCH" =>
          /\ spot[t] \in DOMAIN steps /\ steps[spot[t]].id # NoId /\ plan[t] = BodyAt("PATCH", steps, spot[t])
  BY DEF PlanFits, Updates, Stored
<1>3. \A t \in DOMAIN plan : plan[t].op \in {"DELETE", "PATCH", "POST"}
  BY DEF PlanFits, Ask
<1>4. ASSUME NEW t \in DOMAIN plan
      PROVE  /\ plan[t].op # "POST" => Has(list, plan[t].id)
             /\ plan[t].op = "DELETE" => ~Has(steps, plan[t].id)
             /\ plan[t].op = "PATCH" =>
                \E i \in DOMAIN steps : /\ steps[i].id = plan[t].id
                                        /\ BodyOf[steps[i].says] = plan[t].says /\ steps[i].on = plan[t].on
  <2>1. CASE plan[t].op = "DELETE"
    BY <2>1, <1>1 DEF Has
  <2>2. CASE plan[t].op = "PATCH"
    <3>1. /\ spot[t] \in DOMAIN steps /\ steps[spot[t]].id # NoId /\ steps[spot[t]].id = plan[t].id
          /\ BodyOf[steps[spot[t]].says] = plan[t].says /\ steps[spot[t]].on = plan[t].on
      BY <2>2, <1>2 DEF BodyAt
    <3>2. Has(list, plan[t].id)
      BY <3>1 DEF StepsFit
    <3> QED BY <2>2, <3>1, <3>2
  <2> QED BY <2>1, <2>2, <1>3
<1>5. ASSUME NEW i \in DOMAIN steps, steps[i].id = NoId PROVE \E t \in DOMAIN plan : plan[t].op = "POST"
  <2>1. PICK t \in DOMAIN plan : plan[t] = BodyAt("POST", steps, i)
    BY <1>5 DEF PlanFits, Stored
  <2> QED BY <2>1 DEF BodyAt
<1>6. ASSUME NEW i \in DOMAIN steps, steps[i].id # NoId
      PROVE  \E t \in DOMAIN plan : plan[t].op = "PATCH" /\ plan[t].id = steps[i].id
  <2>1. PICK t \in DOMAIN plan : plan[t] = BodyAt("PATCH", steps, i)
    BY <1>6 DEF PlanFits, Stored
  <2> QED BY <2>1 DEF BodyAt
<1>7. ASSUME NEW k \in DOMAIN list, ~Has(steps, list[k].id)
      PROVE  \E t \in DOMAIN plan : plan[t].op = "DELETE" /\ plan[t].id = list[k].id
  BY <1>7 DEF PlanFits
<1> QED BY <1>4, <1>5, <1>6, <1>7 DEF UnderWay

LEMMA PlanAsksFit ==
    ASSUME NEW list \in Seq(Line), Ascending(list), NEW steps \in Seq(Shown), StepsFit(steps, list),
           NEW plan, NEW spot, PlanFits(plan, steps, list, spot)
    PROVE  AsksFit(plan)
<1>1. \A t \in DOMAIN plan : plan[t].op = "DELETE" =>
          spot[t] \in DOMAIN list /\ plan[t].id = list[spot[t]].id /\ plan[t].place > 0
  BY DEF PlanFits, Deletes
<1>2. \A t \in DOMAIN plan : plan[t].op = "PATCH" =>
          /\ spot[t] \in DOMAIN steps /\ steps[spot[t]].id # NoId /\ plan[t] = BodyAt("PATCH", steps, spot[t])
  BY DEF PlanFits, Updates, Stored
<1>3. \A t \in DOMAIN plan : plan[t].op = "POST" =>
          /\ spot[t] \in DOMAIN steps /\ steps[spot[t]].id = NoId /\ plan[t] = BodyAt("POST", steps, spot[t])
  BY DEF PlanFits, Creates, Stored
<1>4. \A t \in DOMAIN plan : plan[t].op \in {"DELETE", "PATCH", "POST"}
  BY DEF PlanFits, Ask
<1>5. \A i \in DOMAIN steps : i \in Nat /\ i > 0
  BY LengthIs
<1>6. ASSUME NEW t \in DOMAIN plan
      PROVE  /\ plan[t].place > 0
             /\ plan[t].op = "PATCH" => plan[t].name = <<"row", plan[t].id>>
             /\ plan[t].op = "POST" => plan[t].id = NoId /\ \E k \in 0 .. strokes - 1 : plan[t].name = <<"new", k>>
             /\ plan[t].op # "POST" => plan[t].id # NoId
  <2>1. CASE plan[t].op = "DELETE"
    <3>1. plan[t].id # NoId /\ plan[t].place > 0
      BY <2>1, <1>1 DEF Ascending, NoId
    <3> QED BY <2>1, <3>1
  <2>2. CASE plan[t].op = "PATCH"
    <3>1. /\ spot[t] \in DOMAIN steps /\ plan[t].id # NoId /\ plan[t].place = spot[t]
          /\ plan[t].id = steps[spot[t]].id /\ plan[t].name = steps[spot[t]].name
      BY <2>2, <1>2 DEF BodyAt
    <3>2. plan[t].name = <<"row", plan[t].id>>
      BY <3>1 DEF StepsFit
    <3> QED BY <2>2, <3>1, <3>2, <1>5
  <2>3. CASE plan[t].op = "POST"
    <3>1. /\ spot[t] \in DOMAIN steps /\ steps[spot[t]].id = NoId /\ plan[t].place = spot[t]
          /\ plan[t].id = steps[spot[t]].id /\ plan[t].name = steps[spot[t]].name
      BY <2>3, <1>3 DEF BodyAt
    <3>2. \E k \in 0 .. strokes - 1 : plan[t].name = <<"new", k>>
      BY <3>1 DEF StepsFit
    <3> QED BY <2>3, <3>1, <3>2, <1>5
  <2> QED BY <2>1, <2>2, <2>3, <1>4
<1> QED BY <1>6 DEF AsksFit

-----------------------------------------------------------------------------
(* What an action that writes no row leaves as it was                      *)

LEMMA SameUnderWay ==
    ASSUME UNCHANGED lines, inQueue \subseteq inQueue',
           NEW steps, NEW list, NEW todo, UnderWay(steps, list, todo)
    PROVE  UnderWay(steps, list, todo)'
BY DEF UnderWay

LEMMA MoodStays ==
    ASSUME UNCHANGED lines, inQueue \subseteq inQueue', NEW x \in Screen, screens'[x] = screens[x],
           screens[x].sync = NoSync \/ syncs'[screens[x].sync].todo = syncs[screens[x].sync].todo,
           MoodFits(x)
    PROVE  MoodFits(x)'
<1>1. PICK view : view = screens[x] /\ view = screens'[x]
  OBVIOUS
<1>2. Dirty(x)' <=> Dirty(x)
  BY DEF Dirty
<1>3. InOrder(lines)' = InOrder(lines)
  OBVIOUS
<1>4. view.mood = "saving" => /\ view.sync # NoSync
                              /\ Dirty(x) => UnderWay(view.steps, view.list, syncs[view.sync].todo)
  BY <1>1 DEF MoodFits
<1>5. view.mood = "saving" => (Dirty(x)' => UnderWay(view.steps, view.list, syncs[view.sync].todo)')
  <2> SUFFICES ASSUME view.mood = "saving", Dirty(x)'
               PROVE  UnderWay(view.steps, view.list, syncs[view.sync].todo)'
    OBVIOUS
  <2>1. PICK todo : todo = syncs[view.sync].todo
    OBVIOUS
  <2>2. todo = syncs'[view.sync].todo
    BY <2>1, <1>1, <1>4
  <2>3. UnderWay(view.steps, view.list, todo)
    BY <2>1, <1>2, <1>4
  <2>4. UnderWay(view.steps, view.list, todo)'
    BY <2>3, SameUnderWay
  <2> QED BY <2>2, <2>4
<1>6. view.mood \in {"landed", "settled"} =>
          (Dirty(x)' => UnderWay(view.steps, view.list, <<>>)')
  BY <1>1, <1>2, SameUnderWay DEF MoodFits
<1>7. view.mood = "landed" => /\ view.sync = NoSync /\ view.fetch # "none"
                              /\ view.fetch = "answered" => view.answer = InOrder(lines)
  BY <1>1 DEF MoodFits
<1>8. view.mood = "settled" => view.sync = NoSync /\ view.fetch = "none" /\ view.list = InOrder(lines)
  BY <1>1 DEF MoodFits
<1>9. \/ view.mood = "saving" /\ MoodFits(x)'
      \/ view.mood = "landed" /\ MoodFits(x)'
      \/ view.mood = "settled" /\ MoodFits(x)'
      \/ view.mood \notin {"saving", "landed", "settled"}
  <2>1. CASE view.mood = "saving"
    BY <2>1, <1>1, <1>4, <1>5 DEF MoodFits
  <2>2. CASE view.mood = "landed"
    BY <2>2, <1>1, <1>3, <1>6, <1>7 DEF MoodFits
  <2>3. CASE view.mood = "settled"
    BY <2>3, <1>1, <1>3, <1>6, <1>8 DEF MoodFits
  <2> QED BY <2>1, <2>2, <2>3
<1> QED BY <1>1, <1>9 DEF MoodFits

LEMMA StepsStay ==
    ASSUME UNCHANGED lines, strokes \in Nat, strokes' = strokes \/ strokes' = strokes + 1,
           NEW steps, NEW list, StepsFit(steps, list)
    PROVE  StepsFit(steps, list)'
<1>1. 0 .. strokes - 1 \subseteq 0 .. strokes' - 1
  OBVIOUS
<1> QED BY <1>1 DEF StepsFit

LEMMA AsksStay ==
    ASSUME strokes \in Nat, strokes' = strokes \/ strokes' = strokes + 1, NEW todo, AsksFit(todo)
    PROVE  AsksFit(todo)'
<1>1. 0 .. strokes - 1 \subseteq 0 .. strokes' - 1
  OBVIOUS
<1> QED BY <1>1 DEF AsksFit

LEMMA ScreenStays ==
    ASSUME UNCHANGED <<lines, made>>, inQueue \subseteq inQueue', strokes \in Nat,
           strokes' = strokes \/ strokes' = strokes + 1,
           NEW x \in Screen, screens'[x] = screens[x],
           \/ screens[x].sync = NoSync
           \/ /\ syncs'[screens[x].sync].todo = syncs[screens[x].sync].todo
              /\ syncs'[screens[x].sync].by = syncs[screens[x].sync].by,
           ScreenFits(x)
    PROVE  ScreenFits(x)'
<1>1. MoodFits(x)'
  BY MoodStays DEF ScreenFits
<1>2. PICK view : view = screens[x] /\ view = screens'[x]
  OBVIOUS
<1>3. /\ Ascending(view.list) /\ Ascending(view.answer) /\ StepsFit(view.steps, view.list)
      /\ view.sync # NoSync => syncs[view.sync].by = x
  BY <1>2 DEF ScreenFits
<1>4. StepsFit(view.steps, view.list)'
  BY <1>3, StepsStay
<1>5. Ascending(view.list)' /\ Ascending(view.answer)'
  BY <1>3 DEF Ascending
<1> QED BY <1>1, <1>2, <1>3, <1>4, <1>5 DEF ScreenFits

LEMMA RowsStay ==
    ASSUME UNCHANGED <<lines, made>>, strokes \in Nat, strokes' = strokes \/ strokes' = strokes + 1, RowsFit
    PROVE  RowsFit'
<1>1. 0 .. strokes - 1 \subseteq 0 .. strokes' - 1
  OBVIOUS
<1> QED BY <1>1 DEF RowsFit

LEMMA PlanStays ==
    ASSUME UNCHANGED <<lines, inQueue>>, NEW todo, NEW goal, CalmPlan(todo, goal)
    PROVE  CalmPlan(todo, goal)'
BY DEF CalmPlan

LEMMA SyncStays ==
    ASSUME UNCHANGED <<lines, inQueue>>, strokes \in Nat, strokes' = strokes \/ strokes' = strokes + 1,
           NEW s \in Sync, syncs'[s] = syncs[s], SyncFits(s)
    PROVE  SyncFits(s)'
<1>1. PICK sync : sync = syncs[s] /\ sync = syncs'[s]
  OBVIOUS
<1>2. AsksFit(sync.todo)'
  BY <1>1, AsksStay DEF SyncFits
<1>3. sync.calm => CalmPlan(sync.todo, sync.goal)'
  BY <1>1, PlanStays DEF SyncFits
<1> QED BY <1>1, <1>2, <1>3 DEF SyncFits

\* An action of one screen that writes nothing.
LEMMA OneScreen ==
    ASSUME EditorInv, NEW e \in Screen, NEW view \in View, screens' = [screens EXCEPT ![e] = view],
           UNCHANGED <<lines, made, inQueue, syncs>>,
           strokes' = strokes \/ strokes' = strokes + 1, strokes' <= MaxStrokes,
           Ascending(view.list), Ascending(view.answer), StepsFit(view.steps, view.list)',
           view.sync # NoSync => syncs[view.sync].by = e,
           view.mood = "edited" \/ MoodFits(e)'
    PROVE  EditorInv'
<1>1. EditorTypes /\ RowsFit /\ strokes \in Nat /\ screens \in [Screen -> View]
  BY DEF EditorInv, EditorTypes
<1>2. EditorTypes'
  <2>1. screens' \in [Screen -> View]
    BY <1>1
  <2> QED BY <2>1, <1>1 DEF EditorTypes
<1>3. RowsFit'
  BY <1>1, RowsStay
<1>4. ASSUME NEW x \in Screen PROVE ScreenFits(x)'
  <2>1. CASE x = e
    <3>1. screens'[e] = view
      BY <1>1
    <3>2. MoodFits(e)'
      BY <3>1 DEF MoodFits
    <3>3. Ascending(view.list)' /\ Ascending(view.answer)'
      BY DEF Ascending
    <3> QED BY <2>1, <3>1, <3>2, <3>3 DEF ScreenFits
  <2>2. CASE x # e
    <3>1. screens'[x] = screens[x] /\ ScreenFits(x)
      BY <2>2, <1>1 DEF EditorInv
    <3> QED BY <3>1, <1>1, ScreenStays
  <2> QED BY <2>1, <2>2
<1>5. ASSUME NEW s \in Sync PROVE SyncFits(s)'
  BY <1>1, SyncStays DEF EditorInv
<1> QED BY <1>2, <1>3, <1>4, <1>5 DEF EditorInv

\* What a screen of the invariant is.
LEMMA ViewIs ==
    ASSUME EditorInv, NEW e \in Screen
    PROVE  /\ screens[e] \in View /\ screens[e].list \in Seq(Line) /\ screens[e].answer \in Seq(Line)
           /\ screens[e].steps \in Seq(Shown) /\ screens[e].sync \in Sync \cup {NoSync}
           /\ Ascending(screens[e].list) /\ Ascending(screens[e].answer)
           /\ StepsFit(screens[e].steps, screens[e].list)
           /\ screens[e].sync # NoSync => syncs[screens[e].sync].by = e
           /\ MoodFits(e)
<1>1. screens[e] \in View /\ ScreenFits(e)
  BY DEF EditorInv, EditorTypes
<1> QED BY <1>1 DEF View, ScreenFits

LEMMA EditFits ==
    ASSUME EditorInv, NEW e \in Screen, NEW steps \in Seq(Shown), Edit(e, steps),
           NEW list, list = screens[e].list, StepsFit(steps, list)'
    PROVE  EditorInv'
<1>1. PICK before \in View : /\ before = screens[e] /\ Ascending(before.list) /\ Ascending(before.answer)
                             /\ before.sync # NoSync => syncs[before.sync].by = e
  BY ViewIs
<1>2. PICK view : view = [before EXCEPT !.steps = steps, !.mood = "edited"]
  OBVIOUS
<1>3. view \in View
  BY <1>1, <1>2 DEF View
<1>4. view.list = before.list /\ view.answer = before.answer /\ view.sync = before.sync /\ view.steps = steps
      /\ view.mood = "edited"
  BY <1>1, <1>2 DEF View
<1>5. /\ screens' = [screens EXCEPT ![e] = view] /\ strokes' = strokes + 1 /\ strokes < MaxStrokes
      /\ UNCHANGED <<lines, made, inQueue, syncs>>
  BY <1>1, <1>2 DEF Edit, Stroke
<1>6. strokes' <= MaxStrokes
  BY <1>5, JourneyTabConstants DEF EditorInv, EditorTypes
<1>7. StepsFit(view.steps, view.list)'
  <2>1. view.list = list /\ view.steps = steps
    BY <1>1, <1>4
  <2> QED BY <2>1
<1> QED BY <1>1, <1>3, <1>4, <1>5, <1>6, <1>7, OneScreen

-----------------------------------------------------------------------------
(* Editing the canvas                                                      *)

LEMMA AddStepFits ==
    ASSUME EditorInv, NEW e \in Screen, AddStep(e)
    PROVE  EditorInv'
<1>1. PICK list \in Seq(Line), steps \in Seq(Shown) :
          list = screens[e].list /\ steps = screens[e].steps /\ StepsFit(steps, list)
  BY ViewIs
<1>2. strokes \in Nat /\ RowsFit
  BY DEF EditorInv, EditorTypes
<1>3. PICK says : says = IF steps = <<>> THEN Opener ELSE Follower
  OBVIOUS
<1>4. says \in Draft
  BY <1>3, JourneyTabConstants
<1>5. PICK new : new = [name |-> <<"new", strokes>>, id |-> NoId, on |-> TRUE, says |-> says]
  OBVIOUS
<1>6. new \in Shown
  <2>1. <<"new", strokes>> \in RowName
    BY <1>2 DEF RowName
  <2> QED BY <2>1, <1>4, <1>5 DEF Shown, NoId
<1>7. PICK more \in Seq(Shown) : more = Append(steps, new)
  BY <1>6, AppendProperties
<1>8. Edit(e, more)
  BY <1>1, <1>3, <1>5, <1>7 DEF AddStep
<1>9. strokes' = strokes + 1 /\ UNCHANGED lines
  BY <1>8 DEF Edit, Stroke
<1>10. PICK n \in Nat : DOMAIN steps = 1 .. n /\ n = Len(steps)
  BY LengthIs
<1>11. DOMAIN more = 1 .. n + 1 /\ more[n + 1] = new /\ \A i \in 1 .. n : more[i] = steps[i]
  <2>1. Len(more) = n + 1 /\ DOMAIN more = 1 .. Len(more)
    BY <1>6, <1>7, <1>10, AppendProperties
  <2> QED BY <2>1, <1>6, <1>7, <1>10, AppendProperties
<1>12. \A i \in 1 .. n + 1 : i = n + 1 \/ i \in 1 .. n
  OBVIOUS
<1>13. StepsFit(more, list)'
  <2>1. ASSUME NEW i \in 1 .. n + 1
        PROVE  /\ IF more[i].id = NoId THEN \E k \in 0 .. strokes : more[i].name = <<"new", k>>
                  ELSE more[i].name = <<"row", more[i].id>> /\ Has(list, more[i].id)
               /\ \A r \in lines : more[i].id = NoId /\ r.name = more[i].name => ~Has(list, r.id)
    <3>1. CASE i = n + 1
      <4>1. more[i].id = NoId /\ more[i].name = <<"new", strokes>>
        BY <3>1, <1>5, <1>11
      <4>2. \A r \in lines : r.name # <<"new", strokes>>
        BY <1>2 DEF RowsFit, NoName
      <4> QED BY <4>1, <4>2, <1>2
    <3>2. CASE i \in 1 .. n
      <4>1. more[i] = steps[i] /\ i \in DOMAIN steps
        BY <3>2, <1>10, <1>11
      <4>2. IF steps[i].id = NoId THEN \E k \in 0 .. strokes - 1 : steps[i].name = <<"new", k>>
            ELSE steps[i].name = <<"row", steps[i].id>> /\ Has(list, steps[i].id)
        BY <4>1, <1>1 DEF StepsFit
      <4>3. \A r \in lines : steps[i].id = NoId /\ r.name = steps[i].name => ~Has(list, r.id)
        BY <4>1, <1>1 DEF StepsFit
      <4>4. 0 .. strokes - 1 \subseteq 0 .. strokes
        BY <1>2
      <4> QED BY <4>1, <4>2, <4>3, <4>4
    <3> QED BY <3>1, <3>2, <1>12
  <2>2. ASSUME NEW i \in 1 .. n + 1, NEW j \in 1 .. n + 1, i < j
        PROVE  /\ more[i].name # more[j].name
               /\ more[j].id # NoId =>
                     \E k, l \in DOMAIN list : k < l /\ list[k].id = more[i].id /\ list[l].id = more[j].id
    <3>0. i \in 1 .. n /\ more[i] = steps[i] /\ i \in DOMAIN steps
      BY <2>2, <1>10, <1>11
    <3>1. CASE j = n + 1
      <4>1. more[j].id = NoId /\ more[j].name = <<"new", strokes>>
        BY <3>1, <1>5, <1>11
      <4>2. steps[i].name # <<"new", strokes>>
        BY <3>0, <1>1, <1>2 DEF StepsFit
      <4> QED BY <3>0, <4>1, <4>2
    <3>2. CASE j \in 1 .. n
      <4>1. more[j] = steps[j] /\ j \in DOMAIN steps
        BY <3>2, <1>10, <1>11
      <4>2. \A u, v \in DOMAIN steps : u < v =>
                /\ steps[u].name # steps[v].name
                /\ steps[v].id # NoId =>
                      \E k, l \in DOMAIN list : k < l /\ list[k].id = steps[u].id /\ list[l].id = steps[v].id
        BY <1>1 DEF StepsFit
      <4>3. /\ steps[i].name # steps[j].name
            /\ steps[j].id # NoId =>
                  \E k, l \in DOMAIN list : k < l /\ list[k].id = steps[i].id /\ list[l].id = steps[j].id
        BY <4>1, <4>2, <3>0, <2>2
      <4> QED BY <4>1, <4>3, <3>0
    <3> QED BY <3>1, <3>2, <1>12
  <2>3. 0 .. strokes' - 1 = 0 .. strokes /\ lines' = lines /\ DOMAIN more = 1 .. n + 1
    BY <1>2, <1>9, <1>11
  <2>4. \A i \in DOMAIN more :
          IF more[i].id = NoId THEN \E k \in 0 .. strokes' - 1 : more[i].name = <<"new", k>>
          ELSE more[i].name = <<"row", more[i].id>> /\ Has(list, more[i].id)
    BY <2>1, <2>3
  <2>5. \A i, j \in DOMAIN more : i < j =>
          /\ more[i].name # more[j].name
          /\ more[j].id # NoId =>
                \E k, l \in DOMAIN list : k < l /\ list[k].id = more[i].id /\ list[l].id = more[j].id
    BY <2>2, <2>3
  <2>6. \A i \in DOMAIN more, r \in lines' : more[i].id = NoId /\ r.name = more[i].name => ~Has(list, r.id)
    BY <2>1, <2>3
  <2> QED BY <2>4, <2>5, <2>6 DEF StepsFit
<1> QED BY <1>1, <1>8, <1>13, EditFits

\* Steps of the same names and ids fit as well.
LEMMA SameNamesFit ==
    ASSUME NEW steps, NEW list, NEW others, DOMAIN others = DOMAIN steps,
           \A i \in DOMAIN steps : others[i].id = steps[i].id /\ others[i].name = steps[i].name,
           StepsFit(steps, list)
    PROVE  StepsFit(others, list)
<1>1. ASSUME NEW i \in DOMAIN others
      PROVE  IF others[i].id = NoId THEN \E k \in 0 .. strokes - 1 : others[i].name = <<"new", k>>
             ELSE others[i].name = <<"row", others[i].id>> /\ Has(list, others[i].id)
  BY DEF StepsFit
<1>2. ASSUME NEW i \in DOMAIN others, NEW j \in DOMAIN others, i < j
      PROVE  /\ others[i].name # others[j].name
             /\ others[j].id # NoId =>
                   \E k, l \in DOMAIN list : k < l /\ list[k].id = others[i].id /\ list[l].id = others[j].id
  <2>1. /\ steps[i].name # steps[j].name
        /\ steps[j].id # NoId =>
                   \E k, l \in DOMAIN list : k < l /\ list[k].id = steps[i].id /\ list[l].id = steps[j].id
    BY <1>2 DEF StepsFit
  <2> QED BY <2>1
<1>3. ASSUME NEW i \in DOMAIN others, NEW r \in lines, others[i].id = NoId, r.name = others[i].name
      PROVE  ~Has(list, r.id)
  BY <1>3 DEF StepsFit
<1> QED BY <1>1, <1>2, <1>3 DEF StepsFit

LEMMA PatchStepFits ==
    ASSUME EditorInv, NEW e \in Screen, PatchStep(e)
    PROVE  EditorInv'
<1>1. PICK list \in Seq(Line), steps \in Seq(Shown) :
          list = screens[e].list /\ steps = screens[e].steps /\ StepsFit(steps, list)
  BY ViewIs
<1>2. PICK n \in Nat : DOMAIN steps = 1 .. n /\ n = Len(steps) /\ \A i \in 1 .. n : steps[i] \in Shown
  BY LengthIs
<1>3. strokes \in Nat
  BY DEF EditorInv, EditorTypes
<1>4. PICK i \in 1 .. n : \/ \E says \in Draft : Edit(e, [steps EXCEPT ![i].says = says])
                          \/ Edit(e, [steps EXCEPT ![i].on = ~@])
  BY <1>1, <1>2 DEF PatchStep
<1>5. PICK step \in Shown : /\ step.id = steps[i].id /\ step.name = steps[i].name
                            /\ Edit(e, [steps EXCEPT ![i] = step])
  <2>0. steps[i] \in Shown
    BY <1>2
  <2>1. ASSUME NEW says \in Draft, Edit(e, [steps EXCEPT ![i].says = says])
        PROVE  \E step \in Shown : /\ step.id = steps[i].id /\ step.name = steps[i].name
                                   /\ Edit(e, [steps EXCEPT ![i] = step])
    <3>1. PICK step : step = [steps[i] EXCEPT !.says = says]
      OBVIOUS
    <3>2. step \in Shown /\ step.id = steps[i].id /\ step.name = steps[i].name
      BY <2>0, <3>1 DEF Shown
    <3>3. [steps EXCEPT ![i].says = says] = [steps EXCEPT ![i] = step]
      BY <3>1
    <3>4. Edit(e, [steps EXCEPT ![i] = step])
      BY <2>1, <3>3
    <3> QED BY <3>2, <3>4
  <2>2. ASSUME Edit(e, [steps EXCEPT ![i].on = ~@])
        PROVE  \E step \in Shown : /\ step.id = steps[i].id /\ step.name = steps[i].name
                                   /\ Edit(e, [steps EXCEPT ![i] = step])
    <3>1. PICK step : step = [steps[i] EXCEPT !.on = ~@]
      OBVIOUS
    <3>2. step \in Shown /\ step.id = steps[i].id /\ step.name = steps[i].name
      BY <2>0, <3>1 DEF Shown
    <3>3. [steps EXCEPT ![i].on = ~@] = [steps EXCEPT ![i] = step]
      BY <3>1
    <3>4. Edit(e, [steps EXCEPT ![i] = step])
      BY <2>2, <3>3
    <3> QED BY <3>2, <3>4
  <2> QED BY <1>4, <2>1, <2>2
<1>6. PICK others : others = [steps EXCEPT ![i] = step]
  OBVIOUS
<1>7. others \in Seq(Shown) /\ DOMAIN others = DOMAIN steps
  <2>1. others \in [1 .. n -> Shown]
    BY <1>2, <1>6, LengthIs
  <2> QED BY <2>1, <1>2, LenIs
<1>8. \A j \in DOMAIN steps : others[j].id = steps[j].id /\ others[j].name = steps[j].name
  BY <1>2, <1>5, <1>6
<1>9. StepsFit(others, list)
  BY <1>1, <1>7, <1>8, SameNamesFit
<1>10. strokes' = strokes + 1 /\ UNCHANGED lines
  BY <1>5 DEF Edit, Stroke
<1>11. StepsFit(others, list)'
  BY <1>3, <1>9, <1>10, StepsStay
<1> QED BY <1>1, <1>5, <1>6, <1>7, <1>11, EditFits

\* Some of the steps, in their order, fit as well.
PartOf(rest, steps, at, n) ==
    /\ DOMAIN rest = 1 .. n
    /\ \A i \in 1 .. n : at[i] \in DOMAIN steps /\ rest[i] = steps[at[i]]
    /\ \A i, j \in 1 .. n : i < j => at[i] < at[j]

LEMMA SomeStepsFit ==
    ASSUME NEW steps, NEW list, StepsFit(steps, list), NEW n, NEW at, NEW rest, PartOf(rest, steps, at, n)
    PROVE  StepsFit(rest, list)
<1>0. /\ DOMAIN rest = 1 .. n
      /\ \A i \in 1 .. n : at[i] \in DOMAIN steps /\ rest[i] = steps[at[i]]
      /\ \A i, j \in 1 .. n : i < j => at[i] < at[j]
  BY DEF PartOf
<1>1. ASSUME NEW i \in 1 .. n
      PROVE  IF rest[i].id = NoId THEN \E k \in 0 .. strokes - 1 : rest[i].name = <<"new", k>>
             ELSE rest[i].name = <<"row", rest[i].id>> /\ Has(list, rest[i].id)
  <2>1. PICK p \in DOMAIN steps : rest[i] = steps[p]
    BY <1>0
  <2> QED BY <2>1 DEF StepsFit
<1>2. ASSUME NEW i \in 1 .. n, NEW j \in 1 .. n, i < j
      PROVE  /\ rest[i].name # rest[j].name
             /\ rest[j].id # NoId =>
                   \E k, l \in DOMAIN list : k < l /\ list[k].id = rest[i].id /\ list[l].id = rest[j].id
  <2>1. PICK p \in DOMAIN steps : p = at[i] /\ rest[i] = steps[p]
    BY <1>0
  <2>2. PICK q \in DOMAIN steps : q = at[j] /\ rest[j] = steps[q]
    BY <1>0
  <2>3. p < q
    BY <1>0, <1>2, <2>1, <2>2
  <2>4. /\ steps[p].name # steps[q].name
        /\ steps[q].id # NoId =>
              \E k, l \in DOMAIN list : k < l /\ list[k].id = steps[p].id /\ list[l].id = steps[q].id
    BY <2>3 DEF StepsFit
  <2> QED BY <2>1, <2>2, <2>4
<1>3. ASSUME NEW i \in 1 .. n, NEW r \in lines, rest[i].id = NoId, r.name = rest[i].name
      PROVE  ~Has(list, r.id)
  <2>1. PICK p \in DOMAIN steps : rest[i] = steps[p]
    BY <1>0
  <2> QED BY <1>3, <2>1 DEF StepsFit
<1> QED BY <1>0, <1>1, <1>2, <1>3 DEF StepsFit

LEMMA RemoveStepFits ==
    ASSUME EditorInv, NEW e \in Screen, RemoveStep(e)
    PROVE  EditorInv'
<1>1. PICK list \in Seq(Line), steps \in Seq(Shown) :
          list = screens[e].list /\ steps = screens[e].steps /\ StepsFit(steps, list)
  BY ViewIs
<1>2. strokes \in Nat
  BY DEF EditorInv, EditorTypes
<1>3. PICK gone \in DOMAIN steps : Edit(e, Kept(steps, DOMAIN steps \ {gone}))
  BY <1>1 DEF RemoveStep
<1>4. PICK places \in SUBSET DOMAIN steps : places = DOMAIN steps \ {gone}
  OBVIOUS
<1>5. PICK rest \in Seq(Shown) : rest = Kept(steps, places)
  BY KeptIs
<1>6. PICK n \in Nat : n = Len(rest) /\ DOMAIN rest = 1 .. n
  BY LengthIs
<1>7. PICK at : Ranks(at, Len(Kept(steps, places)), places)
                /\ \A i \in 1 .. Len(Kept(steps, places)) : Kept(steps, places)[i] = steps[at[i]]
  BY KeptIs
<1>8. Ranks(at, n, places) /\ \A i \in 1 .. n : rest[i] = steps[at[i]]
  BY <1>5, <1>6, <1>7
<1>9. /\ \A i \in 1 .. n : at[i] \in DOMAIN steps
      /\ \A i, j \in 1 .. n : i < j => at[i] < at[j]
  BY <1>8 DEF Ranks
<1>10. StepsFit(rest, list)
  <2>1. PartOf(rest, steps, at, n)
    BY <1>6, <1>8, <1>9 DEF PartOf
  <2> QED BY <2>1, <1>1, SomeStepsFit
<1>11. Edit(e, rest)
  BY <1>3, <1>4, <1>5
<1>12. strokes' = strokes + 1 /\ UNCHANGED lines
  BY <1>11 DEF Edit, Stroke
<1>13. StepsFit(rest, list)'
  BY <1>2, <1>10, <1>12, StepsStay
<1> QED BY <1>1, <1>11, <1>13, EditFits

LEMMA SwitchTabFits ==
    ASSUME EditorInv, NEW e \in Screen, SwitchTab(e)
    PROVE  EditorInv'
<1>1. PICK before \in View : /\ before = screens[e] /\ before.list \in Seq(Line)
                             /\ Ascending(before.list) /\ Ascending(before.answer)
  BY ViewIs
<1>2. PICK view : view = [before EXCEPT !.tab = IF @ = "journey" THEN "messages" ELSE "journey",
                                        !.steps = Drawn(before.list), !.sync = NoSync, !.mood = "edited"]
  OBVIOUS
<1>3. Drawn(before.list) \in Seq(Shown)
  BY <1>1, DrawnIs
<1>4. view \in View
  BY <1>1, <1>2, <1>3 DEF View
<1>5. /\ view.list = before.list /\ view.answer = before.answer /\ view.sync = NoSync
      /\ view.steps = Drawn(before.list) /\ view.mood = "edited"
  BY <1>1, <1>2 DEF View
<1>6. Stroke(e, view)
  BY <1>1, <1>2 DEF SwitchTab
<1>7. /\ screens' = [screens EXCEPT ![e] = view] /\ strokes' = strokes + 1 /\ strokes < MaxStrokes
      /\ UNCHANGED <<lines, made, inQueue, syncs>>
  BY <1>6 DEF Stroke
<1>8. strokes \in Nat /\ strokes' <= MaxStrokes
  BY <1>7, JourneyTabConstants DEF EditorInv, EditorTypes
<1>9. StepsFit(view.steps, view.list)'
  <2>1. StepsFit(view.steps, view.list)
    BY <1>1, <1>5, DrawnFits
  <2> QED BY <2>1, <1>7, <1>8, StepsStay
<1> QED BY <1>1, <1>4, <1>5, <1>7, <1>8, <1>9, OneScreen

-----------------------------------------------------------------------------
(* What is received                                                        *)

LEMMA ReadLinesFits ==
    ASSUME EditorInv, NEW e \in Screen, ReadLines(e)
    PROVE  EditorInv'
<1>1. PICK before \in View : /\ before = screens[e] /\ before.list \in Seq(Line) /\ MoodFits(e)
                             /\ Ascending(before.list) /\ StepsFit(before.steps, before.list)
                             /\ before.sync # NoSync => syncs[before.sync].by = e
  BY ViewIs
<1>2. PICK list \in Seq(Line) : list = InOrder(lines) /\ Ascending(list)
  BY LinesInOrder DEF EditorInv
<1>3. PICK view : view = [before EXCEPT !.fetch = "answered", !.answer = list]
  OBVIOUS
<1>4. view \in View
  BY <1>1, <1>2, <1>3 DEF View
<1>5. /\ view.list = before.list /\ view.answer = list /\ view.sync = before.sync /\ view.fetch = "answered"
      /\ view.steps = before.steps /\ view.mood = before.mood
  BY <1>1, <1>3 DEF View
<1>6. screens \in [Screen -> View] /\ strokes \in Nat /\ strokes <= MaxStrokes
  BY DEF EditorInv, EditorTypes
<1>7. /\ screens' = [screens EXCEPT ![e] = view] /\ before.fetch = "asked"
      /\ UNCHANGED <<lines, made, inQueue, syncs, strokes>>
  <2>1. [screens EXCEPT ![e].fetch = "answered", ![e].answer = list] = [screens EXCEPT ![e] = view]
    BY <1>1, <1>3, <1>6 DEF View
  <2> QED BY <2>1, <1>1, <1>2 DEF ReadLines
<1>8. StepsFit(view.steps, view.list)'
  BY <1>1, <1>5, <1>6, <1>7, StepsStay
<1>9. screens'[e] = view
  BY <1>6, <1>7
<1>10. view.mood = "edited" \/ MoodFits(e)'
  <2>1. Dirty(e)' <=> Dirty(e)
    BY <1>1, <1>5, <1>9 DEF Dirty
  <2>2. InOrder(lines)' = list
    BY <1>2, <1>7
  <2>3. CASE view.mood = "saving"
    <3>1. /\ before.sync # NoSync
          /\ Dirty(e) => UnderWay(before.steps, before.list, syncs[before.sync].todo)
      BY <2>3, <1>1, <1>5 DEF MoodFits
    <3>2. PICK todo : todo = syncs[before.sync].todo /\ todo = syncs'[before.sync].todo
      BY <1>7
    <3>3. Dirty(e) => UnderWay(before.steps, before.list, todo)'
      BY <3>1, <3>2, <1>7, SameUnderWay
    <3> QED BY <2>1, <2>3, <3>1, <3>2, <3>3, <1>5, <1>9 DEF MoodFits
  <2>4. CASE view.mood = "landed"
    <3>1. /\ before.sync = NoSync
          /\ Dirty(e) => UnderWay(before.steps, before.list, <<>>)
      BY <2>4, <1>1, <1>5 DEF MoodFits
    <3>3. Dirty(e) => UnderWay(before.steps, before.list, <<>>)'
      BY <3>1, <1>7, SameUnderWay
    <3> QED BY <2>1, <2>2, <2>4, <3>1, <3>3, <1>5, <1>9 DEF MoodFits
  <2>5. CASE view.mood = "settled"
    BY <2>5, <1>1, <1>5, <1>7 DEF MoodFits
  <2> QED BY <2>3, <2>4, <2>5, <1>4 DEF View
<1> QED BY <1>1, <1>2, <1>4, <1>5, <1>6, <1>7, <1>8, <1>10, OneScreen

LEMMA ReceiveLinesFits ==
    ASSUME EditorInv, NEW e \in Screen, ReceiveLines(e)
    PROVE  EditorInv'
<1>1. PICK before \in View : /\ before = screens[e] /\ MoodFits(e)
                             /\ before.list \in Seq(Line) /\ before.answer \in Seq(Line)
                             /\ Ascending(before.list) /\ Ascending(before.answer)
                             /\ before.steps \in Seq(Shown) /\ StepsFit(before.steps, before.list)
                             /\ before.sync # NoSync => syncs[before.sync].by = e
  BY ViewIs
<1>2. PICK steps : steps = IF Drawn(before.answer) # Drawn(before.list) THEN Drawn(before.answer) ELSE before.steps
  OBVIOUS
<1>3. PICK mood : mood = IF before.mood = "landed" THEN "settled" ELSE before.mood
  OBVIOUS
<1>4. PICK view : view = [before EXCEPT !.list = before.answer, !.answer = <<>>, !.fetch = "none",
                                        !.mood = mood, !.steps = steps]
  OBVIOUS
<1>5. steps \in Seq(Shown)
  BY <1>1, <1>2, DrawnIs
<1>6. view \in View
  BY <1>1, <1>3, <1>4, <1>5, EmptySeq DEF View
<1>7. /\ view.list = before.answer /\ view.answer = <<>> /\ view.sync = before.sync /\ view.fetch = "none"
      /\ view.steps = steps /\ view.mood = mood
  BY <1>1, <1>4 DEF View
<1>8. screens \in [Screen -> View] /\ strokes \in Nat /\ strokes <= MaxStrokes
  BY DEF EditorInv, EditorTypes
<1>9. /\ screens' = [screens EXCEPT ![e] = view] /\ before.fetch = "answered"
      /\ UNCHANGED <<lines, made, inQueue, syncs, strokes>>
  <2>1. [screens EXCEPT
              ![e].list = before.answer, ![e].answer = <<>>, ![e].fetch = "none",
              ![e].mood = mood, ![e].steps = steps] = [screens EXCEPT ![e] = view]
    BY <1>1, <1>4, <1>8 DEF View
  <2> QED BY <2>1, <1>1, <1>2, <1>3 DEF ReceiveLines
<1>10. screens'[e] = view
  BY <1>8, <1>9
<1>11. Ascending(<<>>)
  BY DEF Ascending
\* Either the canvas is drawn anew, or the answer shows what the list did.
<1>12. \/ steps = Drawn(before.answer)
       \/ /\ steps = before.steps /\ DOMAIN before.answer = DOMAIN before.list
          /\ \A i \in DOMAIN before.list : before.list[i].id = before.answer[i].id
          /\ Drawn(before.answer) = Drawn(before.list)
  <2>1. CASE Drawn(before.answer) # Drawn(before.list)
    BY <2>1, <1>2
  <2>2. CASE Drawn(before.list) = Drawn(before.answer)
    BY <2>2, <1>1, <1>2, SameDrawn
  <2> QED BY <2>1, <2>2
<1>13. StepsFit(steps, before.answer)
  <2>1. CASE steps = Drawn(before.answer)
    BY <2>1, <1>1, DrawnFits
  <2>2. CASE /\ steps = before.steps /\ DOMAIN before.answer = DOMAIN before.list
             /\ \A i \in DOMAIN before.list : before.list[i].id = before.answer[i].id
    BY <2>2, <1>1, SameListFits
  <2> QED BY <2>1, <2>2, <1>12
<1>14. StepsFit(view.steps, view.list)'
  BY <1>7, <1>8, <1>9, <1>13, StepsStay
<1>15. Dirty(e)' => /\ steps = before.steps /\ Dirty(e)
                    /\ \A todo : UnderWay(before.steps, before.list, todo) => UnderWay(steps, before.answer, todo)'
  <2> SUFFICES ASSUME Dirty(e)'
               PROVE  /\ steps = before.steps /\ Dirty(e)
                      /\ \A todo : UnderWay(before.steps, before.list, todo) => UnderWay(steps, before.answer, todo)'
    OBVIOUS
  <2>1. steps # Drawn(before.answer)
    BY <1>7, <1>10 DEF Dirty
  <2>2. /\ steps = before.steps /\ DOMAIN before.answer = DOMAIN before.list
        /\ \A i \in DOMAIN before.list : before.list[i].id = before.answer[i].id
        /\ Drawn(before.answer) = Drawn(before.list)
    BY <2>1, <1>12
  <2>3. Dirty(e)
    BY <2>1, <2>2, <1>1 DEF Dirty
  <2>4. ASSUME NEW todo, UnderWay(before.steps, before.list, todo) PROVE UnderWay(steps, before.answer, todo)'
    <3>1. UnderWay(steps, before.answer, todo)
      BY <2>2, <2>4, SameListFits
    <3> QED BY <3>1, <1>9, SameUnderWay
  <2> QED BY <2>2, <2>3, <2>4
<1>16. view.mood = "edited" \/ MoodFits(e)'
  <2>1. CASE before.mood = "saving"
    <3>1. /\ before.sync # NoSync
          /\ Dirty(e) => UnderWay(before.steps, before.list, syncs[before.sync].todo)
      BY <2>1, <1>1 DEF MoodFits
    <3>2. PICK todo : todo = syncs[before.sync].todo /\ todo = syncs'[before.sync].todo
      BY <1>9
    <3>3. Dirty(e)' => UnderWay(steps, before.answer, todo)'
      BY <3>1, <3>2, <1>15
    <3> QED BY <2>1, <3>1, <3>2, <3>3, <1>3, <1>7, <1>10 DEF MoodFits
  <2>2. CASE before.mood = "landed"
    <3>1. /\ before.sync = NoSync /\ before.answer = InOrder(lines)
          /\ Dirty(e) => UnderWay(before.steps, before.list, <<>>)
      BY <2>2, <1>1, <1>9 DEF MoodFits
    <3>2. Dirty(e)' => UnderWay(steps, before.answer, <<>>)'
      BY <3>1, <1>15
    <3>3. InOrder(lines)' = before.answer
      BY <3>1, <1>9
    <3> QED BY <2>2, <3>1, <3>2, <3>3, <1>3, <1>7, <1>10 DEF MoodFits
  <2>3. CASE before.mood = "settled"
    BY <2>3, <1>1, <1>9 DEF MoodFits
  <2>4. CASE before.mood = "edited"
    BY <2>4, <1>3, <1>7
  <2> QED BY <2>1, <2>2, <2>3, <2>4, <1>1 DEF View
<1> QED BY <1>1, <1>6, <1>7, <1>8, <1>9, <1>11, <1>14, <1>16, OneScreen

-----------------------------------------------------------------------------
(* What a request leaves of the rows                                       *)

AskFits(ask) ==
    /\ ask.place > 0
    /\ ask.op = "POST" =>
          ask.id = NoId /\ (ask.name = NoName \/ \E k \in 0 .. strokes - 1 : ask.name = <<"new", k>>)
    /\ ask.op = "PATCH" => \/ ask.name = NoName \/ ask.name = <<"row", ask.id>>
                           \/ \E q \in lines : q.id = ask.id /\ q.name = ask.name

NewId(ask) == IF ask.op = "POST" THEN made + 1 ELSE ask.id

\* A row that is there afterwards: another, the written one, or one switched off.
Follows(r, ask) ==
    \/ r \in lines /\ r.id # ask.id
    \/ ask.op # "DELETE" /\ r = Written(ask, NewId(ask))
    \/ /\ ask.op = "DELETE" /\ ask.id \in inQueue
       /\ \E q \in lines : q.id = ask.id /\ r = [q EXCEPT !.on = FALSE]

LEMMA GrantedIs ==
    ASSUME NEW ask \in Ask, EditorTypes, RowsFit, AskFits(ask), Writes(ask)
    PROVE  /\ \A r \in lines : r.id # ask.id => r \in lines'
           /\ \A r \in lines' : Follows(r, ask)
           /\ ask.op # "DELETE" => Written(ask, NewId(ask)) \in lines'
<1>1. PICK target : target = {r \in lines : r.id = ask.id}
  OBVIOUS
<1>2. lines' = CASE ask.op = "POST" -> lines \cup {Written(ask, made + 1)}
          [] ask.op = "PATCH" -> (lines \ target) \cup {Written(ask, ask.id)}
          [] ask.op = "DELETE" /\ ask.id \in inQueue -> (lines \ target) \cup {[r EXCEPT !.on = FALSE] : r \in target}
          [] ask.op = "DELETE" /\ ask.id \notin inQueue -> lines \ target
  BY <1>1 DEF Writes, Granted
<1>3. CASE ask.op = "POST"
  <2>1. lines' = lines \cup {Written(ask, made + 1)}
    BY <1>2, <1>3
  <2>2. \A r \in lines : r.id # ask.id
    BY <1>3 DEF AskFits, RowsFit, NoId
  <2> QED BY <1>3, <2>1, <2>2 DEF Follows, NewId
<1>4. CASE ask.op = "PATCH"
  <2>1. lines' = (lines \ target) \cup {Written(ask, ask.id)}
    BY <1>2, <1>4
  <2> QED BY <1>1, <1>4, <2>1 DEF Follows, NewId
<1>5. CASE ask.op = "DELETE" /\ ask.id \in inQueue
  <2>1. lines' = (lines \ target) \cup {[r EXCEPT !.on = FALSE] : r \in target}
    BY <1>2, <1>5
  <2> QED BY <1>1, <1>5, <2>1 DEF Follows
<1>6. CASE ask.op = "DELETE" /\ ask.id \notin inQueue
  <2>1. lines' = lines \ target
    BY <1>2, <1>6
  <2> QED BY <1>1, <1>6, <2>1 DEF Follows
<1> QED BY <1>3, <1>4, <1>5, <1>6 DEF Ask

LEMMA WrittenIs ==
    ASSUME NEW ask \in Ask, EditorTypes, RowsFit, AskFits(ask), Writes(ask), ask.op # "DELETE",
           NEW new, new = Written(ask, NewId(ask))
    PROVE  /\ new \in Line /\ new.id = NewId(ask) /\ new.place = ask.place /\ new.name = ask.name
           /\ new.says = ask.says /\ new.on = ask.on /\ new.id \in 1 .. made' /\ new.place > 0
           /\ \A r \in lines : r.id = new.id \/ r.place = new.place => r.id = ask.id /\ ask.op = "PATCH"
<1>1. made \in Nat /\ ~Denied(ask)
  BY DEF EditorTypes, Writes
<1>2. CASE ask.op = "POST"
  <2>1. NewId(ask) = made + 1 /\ made' = made + 1
    BY <1>2 DEF NewId, Writes
  <2>2. \A r \in lines : r.id \in 1 .. made /\ r.id # ask.id
    BY <1>2 DEF RowsFit, AskFits, NoId
  <2>3. \A r \in lines : r.place # ask.place
    BY <1>1, <1>2, <2>2 DEF Denied, Clash
  <2>4. NewId(ask) \in Nat
    BY <1>1, <2>1
  <2>5. new \in Line /\ new.id = NewId(ask) /\ new.place = ask.place /\ new.name = ask.name
           /\ new.says = ask.says /\ new.on = ask.on
    BY <2>4 DEF Written, Line, Ask
  <2> QED BY <1>1, <2>1, <2>2, <2>3, <2>5 DEF AskFits
<1>3. CASE ask.op = "PATCH"
  <2>1. NewId(ask) = ask.id /\ made' = made
    BY <1>3 DEF NewId, Writes
  <2>2. PICK q \in lines : q.id = ask.id
    BY <1>1, <1>3 DEF Denied
  <2>3. ask.id \in 1 .. made
    BY <2>2 DEF RowsFit
  <2>4. \A r \in lines : r.place = ask.place => r.id = ask.id
    BY <1>1, <1>3 DEF Denied, Clash
  <2>5. new \in Line /\ new.id = ask.id /\ new.place = ask.place /\ new.name = ask.name
           /\ new.says = ask.says /\ new.on = ask.on
    BY <2>1 DEF Written, Line, Ask
  <2> QED BY <1>1, <1>3, <2>1, <2>3, <2>4, <2>5 DEF AskFits
<1> QED BY <1>2, <1>3 DEF Ask

LEMMA SwitchedOff ==
    ASSUME NEW q \in Line, NEW r, r = [q EXCEPT !.on = FALSE]
    PROVE  /\ r \in Line /\ r.id = q.id /\ r.place = q.place /\ r.name = q.name /\ r.says = q.says /\ r.on = FALSE
BY DEF Line

LEMMA RowsWritten ==
    ASSUME NEW ask \in Ask, EditorTypes, RowsFit, AskFits(ask), Writes(ask),
           strokes' = strokes \/ strokes' = strokes + 1
    PROVE  /\ made' \in Nat /\ made <= made' /\ made' <= MaxIds /\ inQueue' \subseteq 1 .. made'
           /\ lines' \subseteq Line /\ IsFiniteSet(lines') /\ RowsFit'
<1>1. /\ made \in Nat /\ made <= MaxIds /\ strokes \in Nat /\ inQueue \subseteq 1 .. made
      /\ lines \subseteq Line /\ IsFiniteSet(lines) /\ MaxIds \in Nat
  BY JourneyTabConstants DEF EditorTypes
<1>2. /\ inQueue' = inQueue /\ made' = IF ask.op = "POST" THEN made + 1 ELSE made
      /\ ask.op = "POST" => made < MaxIds
  BY DEF Writes
<1>3. made' \in Nat /\ made <= made' /\ made' <= MaxIds /\ inQueue' \subseteq 1 .. made'
  BY <1>1, <1>2
<1>4. PICK new : new = Written(ask, NewId(ask))
  OBVIOUS
<1>5. \A r \in lines' : Follows(r, ask)
  BY GrantedIs
<1>6. \A q \in lines : q \in Line /\ q.id \in 1 .. made /\ q.place > 0
  BY <1>1 DEF RowsFit
<1>7. \A r \in lines' : r \in Line
  <2> SUFFICES ASSUME NEW r \in lines' PROVE r \in Line
    OBVIOUS
  <2>1. CASE r \in lines
    BY <2>1, <1>6
  <2>2. CASE ask.op # "DELETE" /\ r = Written(ask, NewId(ask))
    BY <2>2, WrittenIs
  <2>3. CASE \E q \in lines : q.id = ask.id /\ r = [q EXCEPT !.on = FALSE]
    <3>1. PICK q \in lines : q \in Line /\ r = [q EXCEPT !.on = FALSE]
      BY <2>3, <1>6
    <3> QED BY <3>1, SwitchedOff
  <2> QED BY <1>5, <2>1, <2>2, <2>3 DEF Follows
<1>8. IsFiniteSet(lines')
  <2>1. PICK off : off = {[q EXCEPT !.on = FALSE] : q \in lines}
    OBVIOUS
  <2>2. IsFiniteSet(off)
    <3>1. PICK f : f = [q \in lines |-> [q EXCEPT !.on = FALSE]]
      OBVIOUS
    <3>2. f \in Surjection(lines, off)
      BY <2>1, <3>1 DEF Surjection
    <3> QED BY <1>1, <3>2, FS_Surjection
  <2>3. PICK all : all = lines \cup off
    OBVIOUS
  <2>4. IsFiniteSet(all)
    BY <1>1, <2>2, <2>3, FS_Union
  <2>5. IsFiniteSet(all \cup {new})
    BY <2>4, FS_AddElement
  <2>6. lines' \subseteq all \cup {new}
    BY <1>4, <1>5, <2>1, <2>3 DEF Follows
  <2> QED BY <2>5, <2>6, FS_Subset
<1>9. 0 .. strokes - 1 \subseteq 0 .. strokes' - 1
  BY <1>1
<1>10. ASSUME NEW r \in lines'
       PROVE  /\ r.id \in 1 .. made' /\ r.place > 0
              /\ \/ r.name = NoName \/ r.name = <<"row", r.id>>
                 \/ \E k \in 0 .. strokes' - 1 : r.name = <<"new", k>>
  <2>a. ASSUME NEW q \in lines
        PROVE  /\ q.id \in 1 .. made' /\ q.place > 0
               /\ \/ q.name = NoName \/ q.name = <<"row", q.id>>
                  \/ \E k \in 0 .. strokes' - 1 : q.name = <<"new", k>>
    BY <1>1, <1>3, <1>9 DEF RowsFit
  <2>1. CASE r \in lines
    BY <2>1, <2>a
  <2>2. CASE ask.op # "DELETE" /\ r = Written(ask, NewId(ask))
    <3>1. /\ r.id = NewId(ask) /\ r.name = ask.name /\ r.id \in 1 .. made' /\ r.place > 0
      BY <2>2, WrittenIs
    <3>2. CASE ask.op = "POST"
      BY <3>1, <3>2, <1>9 DEF AskFits
    <3>3. CASE ask.op = "PATCH"
      <4>1. r.id = ask.id
        BY <3>1, <3>3 DEF NewId
      <4>2. CASE ask.name = NoName \/ ask.name = <<"row", ask.id>>
        BY <3>1, <4>1, <4>2
      <4>3. CASE \E q \in lines : q.id = ask.id /\ q.name = ask.name
        <5>1. PICK q \in lines : q.id = ask.id /\ q.name = ask.name
          BY <4>3
        <5> QED BY <3>1, <4>1, <5>1, <2>a
      <4> QED BY <3>3, <4>2, <4>3 DEF AskFits
    <3> QED BY <2>2, <3>2, <3>3 DEF Ask
  <2>3. CASE \E q \in lines : q.id = ask.id /\ r = [q EXCEPT !.on = FALSE]
    <3>1. PICK q \in lines : q \in Line /\ r = [q EXCEPT !.on = FALSE]
      BY <2>3, <1>6
    <3>2. r.id = q.id /\ r.place = q.place /\ r.name = q.name
      BY <3>1, SwitchedOff
    <3> QED BY <3>1, <3>2, <2>a
  <2> QED BY <1>5, <2>1, <2>2, <2>3 DEF Follows
\* The source of a row: itself, or the row that was switched off.
<1>11. ASSUME NEW r \in lines', NEW q \in lines', r.id = q.id \/ r.place = q.place PROVE r = q
  <2>a. \A x, y \in lines : x.id = y.id \/ x.place = y.place => x = y
    BY DEF RowsFit
  <2>b. ASSUME NEW x \in lines'
        PROVE  \/ ask.op # "DELETE" /\ x = new
               \/ x \in lines /\ x.id # ask.id
               \/ ask.op = "DELETE" /\ \E y \in lines : /\ y.id = ask.id /\ x = [y EXCEPT !.on = FALSE]
                                                         /\ x.id = y.id /\ x.place = y.place
    <3>1. CASE \E y \in lines : y.id = ask.id /\ x = [y EXCEPT !.on = FALSE]
      <4>1. PICK y \in lines : y \in Line /\ y.id = ask.id /\ x = [y EXCEPT !.on = FALSE]
        BY <3>1, <1>6
      <4>2. x.id = y.id /\ x.place = y.place
        BY <4>1, SwitchedOff
      <4>3. ask.op = "DELETE" \/ (x \in lines /\ x.id # ask.id) \/ (ask.op # "DELETE" /\ x = new)
        BY <1>4, <1>5 DEF Follows
      <4> QED BY <4>1, <4>2, <4>3
    <3> QED BY <3>1, <1>4, <1>5 DEF Follows
  <2>c. ask.op # "DELETE" => \A x \in lines : x.id = new.id \/ x.place = new.place => x.id = ask.id
    BY <1>4, WrittenIs
  <2>1. CASE ask.op # "DELETE"
    <3>1. /\ r = new \/ (r \in lines /\ r.id # ask.id)
          /\ q = new \/ (q \in lines /\ q.id # ask.id)
      BY <2>1, <2>b
    <3> QED BY <3>1, <2>1, <2>a, <2>c, <1>11
  <2>2. CASE ask.op = "DELETE"
    <3>1. CASE r \in lines /\ r.id # ask.id
      <4>1. CASE q \in lines /\ q.id # ask.id
        BY <3>1, <4>1, <2>a, <1>11
      <4>2. CASE \E y \in lines : y.id = ask.id /\ q.id = y.id /\ q.place = y.place
        BY <3>1, <4>2, <2>a, <1>11
      <4> QED BY <2>2, <2>b, <4>1, <4>2
    <3>2. CASE \E y \in lines : y.id = ask.id /\ r = [y EXCEPT !.on = FALSE] /\ r.id = y.id /\ r.place = y.place
      <4>1. PICK y \in lines : y.id = ask.id /\ r = [y EXCEPT !.on = FALSE] /\ r.id = y.id /\ r.place = y.place
        BY <3>2
      <4>2. CASE q \in lines /\ q.id # ask.id
        BY <4>1, <4>2, <2>a, <1>11
      <4>3. CASE \E x \in lines : x.id = ask.id /\ q = [x EXCEPT !.on = FALSE]
        <5>1. PICK x \in lines : x.id = ask.id /\ q = [x EXCEPT !.on = FALSE]
          BY <4>3
        <5>2. x = y
          BY <4>1, <5>1, <2>a
        <5> QED BY <4>1, <5>1, <5>2
      <4> QED BY <2>2, <2>b, <4>2, <4>3
    <3> QED BY <2>2, <2>b, <3>1, <3>2
  <2> QED BY <2>1, <2>2
<1>12. RowsFit'
  BY <1>10, <1>11 DEF RowsFit
<1> QED BY <1>3, <1>7, <1>8, <1>12

LEMMA StepsOutlast ==
    ASSUME NEW ask \in Ask, EditorTypes, RowsFit, AskFits(ask), Writes(ask),
           strokes' = strokes \/ strokes' = strokes + 1,
           NEW steps, NEW list, Ascending(list), StepsFit(steps, list)
    PROVE  StepsFit(steps, list)' /\ Ascending(list)'
<1>1. made \in Nat /\ made' \in Nat /\ made <= made' /\ strokes \in Nat /\ lines \subseteq Line
  BY RowsWritten DEF EditorTypes
<1>2. 0 .. strokes - 1 \subseteq 0 .. strokes' - 1
  BY <1>1
<1>3. ASSUME NEW i \in DOMAIN steps, NEW r \in lines', steps[i].id = NoId, r.name = steps[i].name
      PROVE  ~Has(list, r.id)
  <2>0. PICK k \in 0 .. strokes - 1 : steps[i].name = <<"new", k>>
    BY <1>3 DEF StepsFit
  <2>a. ASSUME NEW q \in lines, q.name = steps[i].name PROVE ~Has(list, q.id)
    BY <1>3, <2>a DEF StepsFit
  <2>1. CASE r \in lines
    BY <2>1, <2>a, <1>3
  <2>2. CASE ask.op # "DELETE" /\ r = Written(ask, NewId(ask))
    <3>1. r.id = NewId(ask) /\ r.name = ask.name
      BY <2>2, WrittenIs
    <3>2. CASE ask.op = "POST"
      <4>1. r.id = made + 1
        BY <3>1, <3>2 DEF NewId
      <4> QED BY <4>1, <1>1 DEF Has, Ascending
    <3>3. CASE ask.op = "PATCH"
      <4>1. ask.name # NoName /\ ask.name # <<"row", ask.id>>
        BY <1>3, <2>0, <3>1 DEF NoName
      <4>2. PICK q \in lines : q.id = ask.id /\ q.name = ask.name
        BY <3>3, <4>1 DEF AskFits
      <4>3. r.id = q.id /\ r.name = q.name
        BY <3>1, <3>3, <4>2 DEF NewId
      <4> QED BY <4>2, <4>3, <1>3, <2>a
    <3> QED BY <2>2, <3>2, <3>3 DEF Ask
  <2>3. CASE \E q \in lines : q.id = ask.id /\ r = [q EXCEPT !.on = FALSE]
    <3>1. PICK q \in lines : q \in Line /\ r = [q EXCEPT !.on = FALSE]
      BY <2>3, <1>1
    <3>2. r.id = q.id /\ r.name = q.name
      BY <3>1, SwitchedOff
    <3> QED BY <3>1, <3>2, <1>3, <2>a
  <2>4. Follows(r, ask)
    BY GrantedIs
  <2> QED BY <2>1, <2>2, <2>3, <2>4 DEF Follows
<1>4. StepsFit(steps, list)'
  <2>1. \A i \in DOMAIN steps :
          IF steps[i].id = NoId THEN \E k \in 0 .. strokes' - 1 : steps[i].name = <<"new", k>>
          ELSE steps[i].name = <<"row", steps[i].id>> /\ Has(list, steps[i].id)
    BY <1>2 DEF StepsFit
  <2>2. \A i, j \in DOMAIN steps : i < j =>
          /\ steps[i].name # steps[j].name
          /\ steps[j].id # NoId =>
                \E k, l \in DOMAIN list : k < l /\ list[k].id = steps[i].id /\ list[l].id = steps[j].id
    BY DEF StepsFit
  <2> QED BY <1>3, <2>1, <2>2 DEF StepsFit
<1>5. Ascending(list)'
  BY <1>1 DEF Ascending
<1> QED BY <1>4, <1>5

-----------------------------------------------------------------------------
(* What the next request of a save brings about                            *)

LEMMA TailIs ==
    ASSUME NEW U, NEW todo \in Seq(U), todo # <<>>
    PROVE  /\ Head(todo) = todo[1] /\ Head(todo) \in U /\ 1 \in DOMAIN todo /\ Tail(todo) \in Seq(U)
           /\ \A i \in DOMAIN Tail(todo) : i + 1 \in DOMAIN todo /\ Tail(todo)[i] = todo[i + 1] /\ 1 < i + 1
           /\ \A i \in DOMAIN todo : i = 1 \/ (i - 1 \in DOMAIN Tail(todo) /\ Tail(todo)[i - 1] = todo[i])
           /\ DOMAIN todo \subseteq Int /\ DOMAIN Tail(todo) \subseteq Int
<1>1. Len(todo) \in Nat /\ DOMAIN todo = 1 .. Len(todo) /\ Len(todo) # 0
  BY LengthIs, EmptySeq
<1>2. Tail(todo) \in Seq(U) /\ Len(Tail(todo)) = Len(todo) - 1 /\ Head(todo) = todo[1] /\ Head(todo) \in U
      /\ \A i \in 1 .. Len(todo) - 1 : Tail(todo)[i] = todo[i + 1]
  BY HeadTailProperties
<1>3. DOMAIN Tail(todo) = 1 .. Len(todo) - 1
  BY <1>2, LengthIs
<1>4. \A i \in DOMAIN todo : i = 1 \/ (i - 1 \in DOMAIN Tail(todo) /\ Tail(todo)[i - 1] = todo[i])
  <2> SUFFICES ASSUME NEW i \in DOMAIN todo, i # 1
               PROVE  i - 1 \in DOMAIN Tail(todo) /\ Tail(todo)[i - 1] = todo[i]
    OBVIOUS
  <2>1. i - 1 \in 1 .. Len(todo) - 1 /\ i - 1 + 1 = i
    BY <1>1
  <2> QED BY <2>1, <1>2, <1>3
<1> QED BY <1>1, <1>2, <1>3, <1>4

LEMMA RestFits ==
    ASSUME NEW todo \in Seq(Ask), todo # <<>>, AsksFit(todo)
    PROVE  /\ AsksFit(Tail(todo)) /\ AskFits(Head(todo)) /\ Head(todo) \in Ask
           /\ Head(todo).op = "PATCH" => Head(todo).name = <<"row", Head(todo).id>>
           /\ Head(todo).op = "POST" => \E k \in 0 .. strokes - 1 : Head(todo).name = <<"new", k>>
<1>1. \A i \in DOMAIN Tail(todo) : i + 1 \in DOMAIN todo /\ Tail(todo)[i] = todo[i + 1]
  BY TailIs
<1>2. AsksFit(Tail(todo))
  <2>1. PICK rest : rest = Tail(todo)
    OBVIOUS
  <2>2. \A i \in DOMAIN rest : \E j \in DOMAIN todo : rest[i] = todo[j]
    BY <1>1, <2>1
  <2>3. AsksFit(rest)
    BY <2>2 DEF AsksFit
  <2> QED BY <2>1, <2>3
<1>3. 1 \in DOMAIN todo /\ Head(todo) = todo[1] /\ Head(todo) \in Ask
  BY TailIs
<1>4. PICK ask : ask = todo[1]
  OBVIOUS
<1>5. /\ ask.place > 0
      /\ ask.op = "PATCH" => ask.name = <<"row", ask.id>>
      /\ ask.op = "POST" => ask.id = NoId /\ \E k \in 0 .. strokes - 1 : ask.name = <<"new", k>>
  BY <1>3, <1>4 DEF AsksFit
<1>6. AskFits(ask)
  BY <1>5 DEF AskFits
<1> QED BY <1>2, <1>3, <1>4, <1>5, <1>6

\* A name stands on one step.
LEMMA SameStep ==
    ASSUME NEW steps \in Seq(Shown), NEW list, StepsFit(steps, list),
           NEW i \in DOMAIN steps, NEW j \in DOMAIN steps, steps[i].name = steps[j].name
    PROVE  i = j
<1>1. i \in Nat /\ j \in Nat
  BY LengthIs
<1>2. CASE i < j
  BY <1>2, NamesDiffer
<1>3. CASE j < i
  BY <1>3, NamesDiffer
<1> QED BY <1>1, <1>2, <1>3

\* The screen whose save it is, after the next request.
LEMMA UnderWayGoesOn ==
    ASSUME EditorTypes, RowsFit, NEW todo \in Seq(Ask), todo # <<>>, AsksFit(todo),
           NEW ask, ask = Head(todo), Writes(ask),
           NEW list, Ascending(list), NEW steps \in Seq(Shown), StepsFit(steps, list), UnderWay(steps, list, todo),
           NEW rest, rest = Tail(todo)
    PROVE  UnderWay(steps, list, rest)'
<1>1. ask \in Ask /\ AskFits(ask) /\ made \in Nat /\ lines \subseteq Line
  BY RestFits DEF EditorTypes
<1>2. /\ ask = todo[1] /\ 1 \in DOMAIN todo
      /\ \A t \in DOMAIN rest : t + 1 \in DOMAIN todo /\ rest[t] = todo[t + 1]
      /\ \A t \in DOMAIN todo : t = 1 \/ (t - 1 \in DOMAIN rest /\ rest[t - 1] = todo[t])
  BY TailIs
<1>3. \A r \in lines : r.id # ask.id => r \in lines'
  BY <1>1, GrantedIs
<1>4. \A r \in lines' : Follows(r, ask)
  BY <1>1, GrantedIs
<1>5. inQueue' = inQueue
  BY DEF Writes
<1>6. PICK new : /\ new = Written(ask, NewId(ask))
                 /\ ask.op # "DELETE" => /\ new \in lines' /\ new.id = NewId(ask)
                                         /\ new.says = ask.says /\ new.on = ask.on
  <2>1. PICK new : new = Written(ask, NewId(ask))
    OBVIOUS
  <2>2. ask.op # "DELETE" => new \in lines' /\ new.id = NewId(ask) /\ new.says = ask.says /\ new.on = ask.on
    BY <2>1, <1>1, GrantedIs, WrittenIs
  <2> QED BY <2>1, <2>2
<1>7. \A t \in DOMAIN todo :
          /\ todo[t].op # "POST" => Has(list, todo[t].id)
          /\ todo[t].op = "DELETE" => ~Has(steps, todo[t].id)
          /\ todo[t].op = "PATCH" =>
                \E i \in DOMAIN steps : /\ steps[i].id = todo[t].id
                                        /\ BodyOf[steps[i].says] = todo[t].says /\ steps[i].on = todo[t].on
  BY DEF UnderWay
<1>8. \A t \in DOMAIN rest :
          /\ rest[t].op # "POST" => Has(list, rest[t].id)
          /\ rest[t].op = "DELETE" => ~Has(steps, rest[t].id)
          /\ rest[t].op = "PATCH" =>
                \E i \in DOMAIN steps : /\ steps[i].id = rest[t].id
                                        /\ BodyOf[steps[i].says] = rest[t].says /\ steps[i].on = rest[t].on
  <2> SUFFICES ASSUME NEW t \in DOMAIN rest
               PROVE  /\ rest[t].op # "POST" => Has(list, rest[t].id)
                      /\ rest[t].op = "DELETE" => ~Has(steps, rest[t].id)
                      /\ rest[t].op = "PATCH" =>
                            \E i \in DOMAIN steps : /\ steps[i].id = rest[t].id
                                                    /\ BodyOf[steps[i].says] = rest[t].says /\ steps[i].on = rest[t].on
    OBVIOUS
  <2>1. PICK u \in DOMAIN todo : todo[u] = rest[t]
    BY <1>2
  <2> QED BY <2>1, <1>7
<1>9. ASSUME NEW i \in DOMAIN steps, steps[i].id = NoId
      PROVE  (\E t \in DOMAIN rest : rest[t].op = "POST") \/ \E r \in lines' : ~Has(list, r.id)
  <2>1. CASE \E r \in lines : ~Has(list, r.id)
    <3>1. PICK r \in lines : ~Has(list, r.id)
      BY <2>1
    <3>2. CASE ask.op = "POST"
      <4>1. r.id # ask.id
        BY <3>2, <1>1 DEF AskFits, RowsFit, NoId
      <4> QED BY <3>1, <4>1, <1>3
    <3>3. CASE ask.op # "POST"
      <4>1. Has(list, ask.id)
        BY <3>3, <1>2, <1>7
      <4> QED BY <3>1, <4>1, <1>3
    <3> QED BY <3>2, <3>3
  <2>2. CASE \E t \in DOMAIN todo : todo[t].op = "POST"
    <3>1. PICK t \in DOMAIN todo : todo[t].op = "POST"
      BY <2>2
    <3>2. CASE t = 1
      <4>1. ask.op = "POST"
        BY <3>1, <3>2, <1>2
      <4>2. new \in lines' /\ new.id = made + 1
        BY <4>1, <1>6 DEF NewId
      <4>3. ~Has(list, made + 1)
        BY <1>1 DEF Has, Ascending
      <4> QED BY <4>2, <4>3
    <3>3. CASE t # 1
      <4>1. PICK u \in DOMAIN rest : rest[u] = todo[t]
        BY <3>3, <1>2
      <4> QED BY <3>1, <4>1
    <3> QED BY <3>2, <3>3
  <2> QED BY <1>9, <2>1, <2>2 DEF UnderWay
<1>10. ASSUME NEW i \in DOMAIN steps, steps[i].id # NoId
       PROVE  \/ \E t \in DOMAIN rest : rest[t].op = "PATCH" /\ rest[t].id = steps[i].id
              \/ \E r \in lines' : r.id = steps[i].id /\ r.says = BodyOf[steps[i].says] /\ r.on = steps[i].on
  <2>a. ASSUME ask.op = "PATCH", ask.id = steps[i].id
        PROVE  \E r \in lines' : r.id = steps[i].id /\ r.says = BodyOf[steps[i].says] /\ r.on = steps[i].on
    <3>1. PICK j \in DOMAIN steps : steps[j].id = ask.id /\ BodyOf[steps[j].says] = ask.says /\ steps[j].on = ask.on
      BY <2>a, <1>2, <1>7
    <3>2. steps[i].name = <<"row", steps[i].id>> /\ steps[j].name = <<"row", steps[i].id>>
      BY <1>10, <2>a, <3>1 DEF StepsFit
    <3>3. new \in lines' /\ new.id = ask.id /\ new.says = ask.says /\ new.on = ask.on
      BY <2>a, <1>6 DEF NewId
    <3>4. BodyOf[steps[i].says] = ask.says /\ steps[i].on = ask.on
      <4>1. i = j
        BY <3>2, SameStep
      <4> QED BY <4>1, <3>1
    <3> QED BY <2>a, <3>3, <3>4
  <2>1. CASE \E t \in DOMAIN todo : todo[t].op = "PATCH" /\ todo[t].id = steps[i].id
    <3>1. PICK t \in DOMAIN todo : todo[t].op = "PATCH" /\ todo[t].id = steps[i].id
      BY <2>1
    <3>2. CASE t = 1
      BY <2>a, <3>1, <3>2, <1>2
    <3>3. CASE t # 1
      <4>1. t - 1 \in DOMAIN rest /\ rest[t - 1] = todo[t]
        BY <3>3, <1>2
      <4> QED BY <4>1, <3>1
    <3> QED BY <3>2, <3>3
  <2>2. CASE \E r \in lines : r.id = steps[i].id /\ r.says = BodyOf[steps[i].says] /\ r.on = steps[i].on
    <3>1. PICK r \in lines : r.id = steps[i].id /\ r.says = BodyOf[steps[i].says] /\ r.on = steps[i].on
      BY <2>2
    <3>2. CASE r.id # ask.id
      BY <3>1, <3>2, <1>3
    <3>3. CASE r.id = ask.id
      <4>1. ask.op # "POST"
        BY <3>3, <1>1 DEF AskFits, RowsFit, NoId
      <4>2. Has(steps, ask.id)
        BY <3>1, <3>3 DEF Has
      <4>3. ask.op # "DELETE"
        BY <4>2, <1>2, <1>7
      <4> QED BY <4>1, <4>3, <3>1, <3>3, <2>a, <1>1 DEF Ask
    <3> QED BY <3>2, <3>3
  <2> QED BY <1>10, <2>1, <2>2 DEF UnderWay
<1>11. ASSUME NEW k \in DOMAIN list, ~Has(steps, list[k].id)
       PROVE  \/ \E t \in DOMAIN rest : rest[t].op = "DELETE" /\ rest[t].id = list[k].id
              \/ \A r \in lines' : r.id = list[k].id => ~r.on /\ r.id \in inQueue
  <2>0. Has(list, list[k].id)
    BY DEF Has
  <2>1. CASE \E t \in DOMAIN todo : todo[t].op = "DELETE" /\ todo[t].id = list[k].id
    <3>1. PICK t \in DOMAIN todo : todo[t].op = "DELETE" /\ todo[t].id = list[k].id
      BY <2>1
    <3>2. CASE t = 1
      <4>1. ask.op = "DELETE" /\ ask.id = list[k].id
        BY <3>1, <3>2, <1>2
      <4>2. ASSUME NEW r \in lines', r.id = list[k].id PROVE ~r.on /\ r.id \in inQueue
        <5>1. ask.id \in inQueue /\ \E q \in lines : q.id = ask.id /\ r = [q EXCEPT !.on = FALSE]
          BY <4>1, <4>2, <1>4 DEF Follows
        <5>2. PICK q \in lines : q \in Line /\ r = [q EXCEPT !.on = FALSE]
          BY <5>1, <1>1
        <5>3. r.on = FALSE
          BY <5>2, SwitchedOff
        <5> QED BY <4>1, <4>2, <5>1, <5>3
      <4> QED BY <4>2
    <3>3. CASE t # 1
      <4>1. PICK u \in DOMAIN rest : rest[u] = todo[t]
        BY <3>3, <1>2
      <4> QED BY <3>1, <4>1
    <3> QED BY <3>2, <3>3
  <2>2. CASE \A r \in lines : r.id = list[k].id => ~r.on /\ r.id \in inQueue
    <3>1. ASSUME NEW r \in lines', r.id = list[k].id PROVE ~r.on /\ r.id \in inQueue
      <4>1. CASE r \in lines
        BY <2>2, <3>1, <4>1
      <4>2. CASE ask.op # "DELETE" /\ r = Written(ask, NewId(ask))
        <5>1. r.id = NewId(ask)
          BY <4>2, <1>6
        <5>2. CASE ask.op = "POST"
          <6>1. Has(list, made + 1)
            BY <2>0, <3>1, <5>1, <5>2 DEF NewId
          <6> QED BY <6>1, <1>1 DEF Has, Ascending
        <5>3. CASE ask.op = "PATCH"
          <6>1. ask.id = list[k].id
            BY <3>1, <5>1, <5>3 DEF NewId
          <6>2. Has(steps, ask.id)
            BY <5>3, <1>2, <1>7 DEF Has
          <6> QED BY <6>1, <6>2, <1>11
        <5> QED BY <4>2, <5>2, <5>3, <1>1 DEF Ask
      <4>3. CASE ask.op = "DELETE" /\ ask.id \in inQueue /\ \E q \in lines : q.id = ask.id /\ r = [q EXCEPT !.on = FALSE]
        <5>1. PICK q \in lines : q \in Line /\ q.id = ask.id /\ r = [q EXCEPT !.on = FALSE]
          BY <4>3, <1>1
        <5>2. r.on = FALSE /\ r.id = q.id
          BY <5>1, SwitchedOff
        <5> QED BY <4>3, <5>1, <5>2
      <4> QED BY <1>4, <4>1, <4>2, <4>3 DEF Follows
    <3> QED BY <3>1
  <2> QED BY <1>11, <2>1, <2>2 DEF UnderWay
<1>12. \A i \in DOMAIN steps :
          IF steps[i].id = NoId
          THEN (\E t \in DOMAIN rest : rest[t].op = "POST") \/ \E r \in lines' : ~Has(list, r.id)
          ELSE (\E t \in DOMAIN rest : rest[t].op = "PATCH" /\ rest[t].id = steps[i].id)
               \/ \E r \in lines' : r.id = steps[i].id /\ r.says = BodyOf[steps[i].says] /\ r.on = steps[i].on
  BY <1>9, <1>10
<1>13. \A k \in DOMAIN list : ~Has(steps, list[k].id) =>
          \/ \E t \in DOMAIN rest : rest[t].op = "DELETE" /\ rest[t].id = list[k].id
          \/ \A r \in lines' : r.id = list[k].id => ~r.on /\ r.id \in inQueue'
  BY <1>5, <1>11
<1> QED BY <1>8, <1>12, <1>13 DEF UnderWay

\* A request of a calm save finds its place and its name free.
LEMMA CalmIsGranted ==
    ASSUME EditorTypes, RowsFit, NEW todo \in Seq(Ask), todo # <<>>, AsksFit(todo),
           NEW ask, ask = Head(todo), NEW goal, CalmPlan(todo, goal)
    PROVE  Denied(ask) => ask.op # "DELETE" /\ ask.says \in Unsendable
<1>a. \A t \in DOMAIN todo :
          /\ todo[t].op # "POST" => \E r \in lines : r.id = todo[t].id
          /\ todo[t].op = "PATCH" => \A r \in lines : r.id = todo[t].id => todo[t].place <= r.place
          /\ todo[t].op = "POST" => \A r \in lines : r.name # todo[t].name
  BY DEF CalmPlan
<1>b. \A t, u \in DOMAIN todo : t < u =>
          /\ todo[u].op = "DELETE" => todo[t].op = "DELETE"
          /\ todo[u].op = "PATCH" => todo[t].op # "POST"
          /\ todo[t].op = "PATCH" /\ todo[u].op = "PATCH" => todo[t].place < todo[u].place
  BY DEF CalmPlan
<1>1. /\ ask \in Ask /\ ask = todo[1] /\ 1 \in DOMAIN todo
      /\ \A t \in DOMAIN todo : t = 1 \/ 1 < t
  <2>1. \A t \in DOMAIN todo : t = 1 \/ 1 < t
    BY LengthIs
  <2> QED BY <2>1, TailIs
<1>2. ask.op # "POST" => \E r \in lines : r.id = ask.id
  BY <1>1, <1>a
<1>3. ASSUME ask.op # "DELETE", NEW r \in lines, r.id # ask.id, r.place = ask.place PROVE FALSE
  <2>1. Fills(todo, r.place)
    BY <1>1, <1>3 DEF Fills
  <2>2. Awaits(todo, r.id)
    BY <2>1 DEF CalmPlan
  <2>3. PICK t \in DOMAIN todo : todo[t].op # "POST" /\ todo[t].id = r.id
    BY <2>2 DEF Awaits
  <2>4. 1 < t
    BY <2>3, <1>1, <1>3
  <2>5. todo[t].op = "PATCH"
    <3>1. todo[t].op # "DELETE"
      BY <2>4, <1>1, <1>3, <1>b
    <3>2. todo[t] \in Ask
      BY LengthIs
    <3> QED BY <2>3, <3>1, <3>2 DEF Ask
  <2>6. ask.op = "PATCH"
    BY <2>4, <2>5, <1>1, <1>3, <1>b DEF Ask
  <2>7. ask.place < todo[t].place
    BY <2>4, <2>5, <2>6, <1>1, <1>b
  <2>8. todo[t].place <= r.place
    BY <2>3, <2>5, <1>a
  <2>9. ask.place \in Nat /\ todo[t].place \in Nat
    <3>1. todo[t] \in Ask
      BY LengthIs
    <3> QED BY <3>1, <1>1 DEF Ask
  <2> QED BY <2>7, <2>8, <2>9, <1>3
<1>4. ASSUME ask.op # "DELETE", NEW r \in lines, r.id # ask.id, ask.name # NoName, r.name = ask.name PROVE FALSE
  <2>1. CASE ask.op = "POST"
    BY <2>1, <1>1, <1>4, <1>a
  <2>2. CASE ask.op = "PATCH"
    <3>1. ask.name = <<"row", ask.id>>
      BY <2>2, <1>1 DEF AsksFit
    <3> QED BY <3>1, <1>4 DEF RowsFit, NoName
  <2> QED BY <2>1, <2>2, <1>1, <1>4 DEF Ask
<1> QED BY <1>2, <1>3, <1>4 DEF Denied, Clash

LEMMA CalmGoesOn ==
    ASSUME EditorTypes, RowsFit, NEW todo \in Seq(Ask), todo # <<>>, AsksFit(todo),
           NEW ask, ask = Head(todo), Writes(ask), NEW goal, CalmPlan(todo, goal),
           NEW rest, rest = Tail(todo)
    PROVE  CalmPlan(rest, goal)'
<1>1. ask \in Ask /\ AskFits(ask) /\ made \in Nat /\ lines \subseteq Line
  BY RestFits DEF EditorTypes
<1>2. /\ ask = todo[1] /\ 1 \in DOMAIN todo /\ DOMAIN rest \subseteq Int
      /\ \A t \in DOMAIN rest : t + 1 \in DOMAIN todo /\ rest[t] = todo[t + 1] /\ 1 < t + 1
      /\ \A t \in DOMAIN todo : t = 1 \/ (t - 1 \in DOMAIN rest /\ rest[t - 1] = todo[t])
  BY TailIs
<1>3. \A r \in lines : r.id # ask.id => r \in lines'
  BY <1>1, GrantedIs
<1>4. \A r \in lines' : Follows(r, ask)
  BY <1>1, GrantedIs
<1>5. inQueue' = inQueue
  BY DEF Writes
<1>6. PICK new : /\ new = Written(ask, NewId(ask))
                 /\ ask.op # "DELETE" => /\ new \in lines' /\ new.id = NewId(ask) /\ new.place = ask.place
                                         /\ new.name = ask.name /\ new.says = ask.says /\ new.on = ask.on
  <2>1. PICK new : new = Written(ask, NewId(ask))
    OBVIOUS
  <2>2. ask.op # "DELETE" => /\ new \in lines' /\ new.id = NewId(ask) /\ new.place = ask.place
                             /\ new.name = ask.name /\ new.says = ask.says /\ new.on = ask.on
    BY <2>1, <1>1, GrantedIs, WrittenIs
  <2> QED BY <2>1, <2>2
\* A row that is there afterwards is another row, or the written one.
<1>7. \A r \in lines' : (r \in lines /\ r.id # ask.id) \/ (ask.op # "DELETE" /\ r = new)
  <2>1. ask.op = "DELETE" => ask.id \notin inQueue
    <3>1. \A t \in DOMAIN todo : todo[t].op = "DELETE" => todo[t].id \notin inQueue
      BY DEF CalmPlan
    <3> QED BY <3>1, <1>2
  <2> QED BY <2>1, <1>4, <1>6 DEF Follows
<1>8. \A t, u \in DOMAIN todo : t < u =>
          /\ todo[u].op = "DELETE" => todo[t].op = "DELETE"
          /\ todo[u].op = "PATCH" => todo[t].op # "POST"
          /\ todo[t].op # "DELETE" /\ todo[u].op # "DELETE" => todo[t].place # todo[u].place
          /\ todo[t].op = "PATCH" /\ todo[u].op = "PATCH" => todo[t].place < todo[u].place
          /\ todo[t].op # "POST" /\ todo[u].op # "POST" => todo[t].id # todo[u].id
          /\ todo[t].op = "POST" => todo[t].name # todo[u].name
  BY DEF CalmPlan
<1>9. ASSUME NEW t \in DOMAIN rest, NEW u \in DOMAIN rest, t < u
      PROVE  /\ rest[u].op = "DELETE" => rest[t].op = "DELETE"
             /\ rest[u].op = "PATCH" => rest[t].op # "POST"
             /\ rest[t].op # "DELETE" /\ rest[u].op # "DELETE" => rest[t].place # rest[u].place
             /\ rest[t].op = "PATCH" /\ rest[u].op = "PATCH" => rest[t].place < rest[u].place
             /\ rest[t].op # "POST" /\ rest[u].op # "POST" => rest[t].id # rest[u].id
             /\ rest[t].op = "POST" => rest[t].name # rest[u].name
  <2>1. PICK x \in DOMAIN todo : x = t + 1 /\ rest[t] = todo[x]
    BY <1>2
  <2>2. PICK y \in DOMAIN todo : y = u + 1 /\ rest[u] = todo[y]
    BY <1>2
  <2>3. x < y
    BY <2>1, <2>2, <1>2, <1>9
  <2> QED BY <2>1, <2>2, <2>3, <1>8
\* The request that has been made against one that waits.
<1>10. ASSUME NEW t \in DOMAIN rest
       PROVE  /\ rest[t] \in Ask /\ \E u \in DOMAIN todo : rest[t] = todo[u]
              /\ rest[t].op = "DELETE" => ask.op = "DELETE"
              /\ rest[t].op = "PATCH" => ask.op # "POST"
              /\ ask.op # "DELETE" /\ rest[t].op # "DELETE" => ask.place # rest[t].place
              /\ ask.op # "POST" /\ rest[t].op # "POST" => ask.id # rest[t].id
              /\ ask.op = "POST" => ask.name # rest[t].name
  <2>1. PICK u \in DOMAIN todo : u = t + 1 /\ rest[t] = todo[u] /\ 1 < u
    BY <1>2
  <2>2. todo[u] \in Ask
    BY LengthIs
  <2> QED BY <2>1, <2>2, <1>2, <1>8
<1>11. \A t \in DOMAIN todo :
          /\ todo[t].op # "DELETE" =>
                /\ todo[t].place \in DOMAIN goal
                /\ goal[todo[t].place] = [says |-> todo[t].says, on |-> todo[t].on]
          /\ todo[t].op # "POST" => \E r \in lines : r.id = todo[t].id
          /\ todo[t].op = "DELETE" => todo[t].id \notin inQueue
          /\ todo[t].op = "PATCH" => \A r \in lines : r.id = todo[t].id => todo[t].place <= r.place
          /\ todo[t].op = "POST" => \A r \in lines : r.name # todo[t].name
  BY DEF CalmPlan
<1>12. ASSUME NEW t \in DOMAIN rest
       PROVE  /\ rest[t].op # "DELETE" =>
                    /\ rest[t].place \in DOMAIN goal
                    /\ goal[rest[t].place] = [says |-> rest[t].says, on |-> rest[t].on]
              /\ rest[t].op # "POST" => \E r \in lines' : r.id = rest[t].id
              /\ rest[t].op = "DELETE" => rest[t].id \notin inQueue'
              /\ rest[t].op = "PATCH" => \A r \in lines' : r.id = rest[t].id => rest[t].place <= r.place
              /\ rest[t].op = "POST" => \A r \in lines' : r.name # rest[t].name
  <2>1. PICK u \in DOMAIN todo : rest[t] = todo[u]
    BY <1>10
  <2>2. rest[t].op # "DELETE" =>
                    /\ rest[t].place \in DOMAIN goal
                    /\ goal[rest[t].place] = [says |-> rest[t].says, on |-> rest[t].on]
    BY <2>1, <1>11
  <2>3. ASSUME rest[t].op # "POST" PROVE \E r \in lines' : r.id = rest[t].id
    <3>0. todo[u].op # "POST" => \E r \in lines : r.id = todo[u].id
      BY <1>11
    <3>1. PICK r \in lines : r.id = rest[t].id
      BY <2>1, <2>3, <3>0
    <3>2. r.id # ask.id
      <4>1. CASE ask.op = "POST"
        BY <4>1, <1>1 DEF AskFits, RowsFit, NoId
      <4>2. CASE ask.op # "POST"
        BY <4>2, <2>3, <3>1, <1>10
      <4> QED BY <4>1, <4>2
    <3> QED BY <3>1, <3>2, <1>3
  <2>4. rest[t].op = "DELETE" => rest[t].id \notin inQueue'
    BY <2>1, <1>5, <1>11
  <2>5. ASSUME rest[t].op = "PATCH", NEW r \in lines', r.id = rest[t].id PROVE rest[t].place <= r.place
    <3>1. CASE r \in lines
      BY <2>1, <2>5, <3>1, <1>11
    <3>2. CASE ask.op # "DELETE" /\ r = new
      <4>1. ask.op = "PATCH"
        BY <2>5, <3>2, <1>1, <1>10 DEF Ask
      <4>2. r.id = ask.id
        BY <3>2, <4>1, <1>6 DEF NewId
      <4> QED BY <2>5, <4>1, <4>2, <1>10
    <3> QED BY <3>1, <3>2, <1>7
  <2>6. ASSUME rest[t].op = "POST", NEW r \in lines' PROVE r.name # rest[t].name
    <3>0. todo[u].op = "POST" => \A q \in lines : q.name # todo[u].name
      BY <1>11
    <3>1. CASE r \in lines
      BY <2>1, <2>6, <3>0, <3>1
    <3>2. CASE ask.op = "POST" /\ r = new
      BY <3>2, <1>6, <1>10
    <3>3. CASE ask.op = "PATCH" /\ r = new
      <4>1. r.name = <<"row", ask.id>>
        BY <3>3, <1>6, RestFits
      <4>2. \E k \in 0 .. strokes - 1 : rest[t].name = <<"new", k>>
        BY <2>1, <2>6 DEF AsksFit
      <4> QED BY <4>1, <4>2
    <3> QED BY <3>1, <3>2, <3>3, <1>1, <1>7 DEF Ask
  <2> QED BY <2>2, <2>3, <2>4, <2>5, <2>6
<1>13. \A r \in lines : ~Awaits(todo, r.id) =>
          /\ r.place \in DOMAIN goal /\ goal[r.place] = [says |-> r.says, on |-> r.on]
          /\ ~Fills(todo, r.place)
  BY DEF CalmPlan
<1>14. ASSUME NEW r \in lines', ~Awaits(rest, r.id)
       PROVE  /\ r.place \in DOMAIN goal /\ goal[r.place] = [says |-> r.says, on |-> r.on]
              /\ ~Fills(rest, r.place)
  <2>1. CASE r \in lines /\ r.id # ask.id
    <3>1. ~Awaits(todo, r.id)
      <4> SUFFICES ASSUME Awaits(todo, r.id) PROVE FALSE
        OBVIOUS
      <4>1. PICK t \in DOMAIN todo : todo[t].op # "POST" /\ todo[t].id = r.id
        BY DEF Awaits
      <4>2. t # 1
        BY <4>1, <2>1, <1>2
      <4>3. t - 1 \in DOMAIN rest /\ rest[t - 1] = todo[t]
        BY <4>2, <1>2
      <4> QED BY <4>1, <4>3, <1>14 DEF Awaits
    <3>2. ~Fills(rest, r.place)
      <4> SUFFICES ASSUME Fills(rest, r.place) PROVE FALSE
        OBVIOUS
      <4>1. PICK t \in DOMAIN rest : rest[t].op # "DELETE" /\ rest[t].place = r.place
        BY DEF Fills
      <4>2. PICK u \in DOMAIN todo : rest[t] = todo[u]
        BY <1>10
      <4>3. Fills(todo, r.place)
        BY <4>1, <4>2 DEF Fills
      <4> QED BY <4>3, <3>1, <2>1, <1>13
    <3> QED BY <2>1, <3>1, <3>2, <1>13
  <2>2. CASE ask.op # "DELETE" /\ r = new
    <3>1. r.place = ask.place /\ r.says = ask.says /\ r.on = ask.on
      BY <2>2, <1>6
    <3>2. r.place \in DOMAIN goal /\ goal[r.place] = [says |-> r.says, on |-> r.on]
      BY <2>2, <3>1, <1>2, <1>11
    <3>3. ~Fills(rest, r.place)
      BY <2>2, <3>1, <1>10 DEF Fills
    <3> QED BY <3>2, <3>3
  <2> QED BY <2>1, <2>2, <1>7
<1>15. ASSUME NEW place \in DOMAIN goal
       PROVE  Fills(rest, place) \/ \E r \in lines' : r.place = place /\ ~Awaits(rest, r.id)
  <2>1. CASE Fills(todo, place)
    <3>1. PICK t \in DOMAIN todo : todo[t].op # "DELETE" /\ todo[t].place = place
      BY <2>1 DEF Fills
    <3>2. CASE t = 1
      <4>1. ask.op # "DELETE" /\ ask.place = place
        BY <3>1, <3>2, <1>2
      <4>2. new \in lines' /\ new.place = place /\ new.id = NewId(ask)
        BY <4>1, <1>6
      <4>3. ~Awaits(rest, new.id)
        <5> SUFFICES ASSUME NEW u \in DOMAIN rest, rest[u].op # "POST", rest[u].id = new.id PROVE FALSE
          BY DEF Awaits
        <5>1. ask.op = "PATCH"
          BY <4>1, <1>1, <1>10 DEF Ask
        <5>2. new.id = ask.id
          BY <4>2, <5>1 DEF NewId
        <5> QED BY <5>1, <5>2, <1>10
      <4> QED BY <4>2, <4>3
    <3>3. CASE t # 1
      <4>1. t - 1 \in DOMAIN rest /\ rest[t - 1] = todo[t]
        BY <3>3, <1>2
      <4> QED BY <3>1, <4>1 DEF Fills
    <3> QED BY <3>2, <3>3
  <2>2. CASE \E r \in lines : r.place = place /\ ~Awaits(todo, r.id)
    <3>1. PICK r \in lines : r.place = place /\ ~Awaits(todo, r.id)
      BY <2>2
    <3>2. r.id # ask.id
      <4>1. CASE ask.op = "POST"
        BY <4>1, <1>1 DEF AskFits, RowsFit, NoId
      <4>2. CASE ask.op # "POST"
        BY <4>2, <3>1, <1>2 DEF Awaits
      <4> QED BY <4>1, <4>2
    <3>3. ~Awaits(rest, r.id)
      <4> SUFFICES ASSUME NEW u \in DOMAIN rest, rest[u].op # "POST", rest[u].id = r.id PROVE FALSE
        BY DEF Awaits
      <4>1. PICK t \in DOMAIN todo : rest[u] = todo[t]
        BY <1>10
      <4>2. Awaits(todo, r.id)
        BY <4>1 DEF Awaits
      <4> QED BY <3>1, <4>2
    <3> QED BY <3>1, <3>2, <3>3, <1>3
  <2> QED BY <2>1, <2>2 DEF CalmPlan
<1> QED BY <1>9, <1>12, <1>14, <1>15 DEF CalmPlan

-----------------------------------------------------------------------------
(* Saves                                                                   *)

LEMMA FreshFits ==
    ASSUME NEW s \in Sync, syncs'[s] = Fresh
    PROVE  SyncFits(s)' /\ syncs'[s] \in Save
<1>1. Fresh.todo = <<>> /\ Fresh.calm = FALSE /\ Fresh.by = NoScreen /\ Fresh \in Save
  BY EmptySeq DEF Fresh, Save
<1>2. AsksFit(<<>>)'
  BY DEF AsksFit
<1>3. AsksFit(Fresh.todo)'
  BY <1>1, <1>2
<1> QED BY <1>1, <1>3 DEF SyncFits, Fresh

\* A save that is calm no more.
LEMMA StirredFits ==
    ASSUME NEW s \in Sync, syncs[s] \in Save, SyncFits(s), strokes \in Nat,
           strokes' = strokes \/ strokes' = strokes + 1,
           syncs'[s] = [syncs[s] EXCEPT !.calm = FALSE]
    PROVE  SyncFits(s)' /\ syncs'[s] \in Save /\ syncs'[s].by = syncs[s].by /\ syncs'[s].todo = syncs[s].todo
<1>1. PICK sync \in Save : sync = syncs[s]
  OBVIOUS
<1>2. PICK now : now = [sync EXCEPT !.calm = FALSE] /\ now = syncs'[s]
  BY <1>1
<1>3. now \in Save /\ now.by = sync.by /\ now.todo = sync.todo /\ now.calm = FALSE
  BY <1>2 DEF Save
<1>4. AsksFit(now.todo)'
  BY <1>1, <1>3, AsksStay DEF SyncFits
<1>5. now.by = NoScreen => now = Fresh
  <2>1. now.by = NoScreen => sync = Fresh
    BY <1>1, <1>3 DEF SyncFits
  <2>2. now.goal = sync.goal
    BY <1>1, <1>2 DEF Save
  <2>3. Fresh.by = NoScreen /\ Fresh.todo = <<>> /\ Fresh.goal = <<>>
    BY DEF Fresh
  <2>4. now = [by |-> now.by, todo |-> now.todo, goal |-> now.goal, calm |-> now.calm]
    BY <1>3 DEF Save
  <2> QED BY <2>1, <2>2, <2>3, <2>4, <1>3 DEF Fresh
<1> QED BY <1>1, <1>2, <1>3, <1>4, <1>5 DEF SyncFits

LEMMA ClickSaveFits ==
    ASSUME EditorInv, NEW e \in Screen, NEW s \in Sync, ClickSave(e, s)
    PROVE  EditorInv'
<1>1. PICK before \in View : /\ before = screens[e] /\ before.list \in Seq(Line) /\ before.steps \in Seq(Shown)
                             /\ Ascending(before.list) /\ Ascending(before.answer)
                             /\ StepsFit(before.steps, before.list)
  BY ViewIs
<1>2. PICK plan : plan = SyncPlan(before.steps, before.list)
  OBVIOUS
<1>3. PICK spot : PlanFits(plan, before.steps, before.list, spot)
  BY <1>1, <1>2, PlanIs
<1>4. PICK calm \in BOOLEAN : calm = (/\ before.list = InOrder(lines)
                                      /\ \A i \in DOMAIN plan : plan[i].op = "DELETE" => plan[i].id \notin inQueue)
  OBVIOUS
<1>5. PICK sync : sync = [by |-> e, todo |-> plan, goal |-> Wanted(before.steps), calm |-> calm]
  OBVIOUS
<1>6. Wanted(before.steps) \in Seq(Promised)
  <2>1. PICK n \in Nat : n = Len(before.steps) /\ DOMAIN before.steps = 1 .. n /\ \A i \in 1 .. n : before.steps[i] \in Shown
    BY <1>1, LengthIs
  <2>2. Wanted(before.steps) \in [1 .. n -> Promised]
    BY <2>1, JourneyTabConstants DEF Wanted, Promised, Shown
  <2> QED BY <2>1, <2>2, LenIs
<1>7. sync \in Save /\ sync.by = e /\ sync.todo = plan /\ sync.goal = Wanted(before.steps) /\ sync.calm = calm
  <2>1. plan \in Seq(Ask)
    BY <1>3 DEF PlanFits
  <2> QED BY <2>1, <1>5, <1>6 DEF Save
<1>8. PICK view : view = [before EXCEPT !.sync = s, !.mood = "saving"]
  OBVIOUS
<1>9. /\ view \in View /\ view.sync = s /\ view.mood = "saving" /\ view.list = before.list
      /\ view.answer = before.answer /\ view.steps = before.steps
  BY <1>1, <1>8 DEF View
<1>10. /\ screens \in [Screen -> View] /\ syncs \in [Sync -> Save] /\ EditorTypes /\ RowsFit
       /\ strokes \in Nat /\ NoScreen \notin Screen /\ NoSync \notin Sync
  BY JourneyTabConstants DEF EditorInv, EditorTypes
<1>11. /\ syncs[s] = Fresh /\ syncs' = [syncs EXCEPT ![s] = sync]
       /\ UNCHANGED <<lines, made, inQueue, strokes>>
  BY <1>1, <1>2, <1>4, <1>5 DEF ClickSave
<1>12. screens' = [screens EXCEPT ![e] = view]
  <2>1. [screens EXCEPT ![e].sync = s, ![e].mood = "saving"] = [screens EXCEPT ![e] = view]
    BY <1>1, <1>8, <1>10 DEF View
  <2> QED BY <2>1 DEF ClickSave
<1>13. syncs'[s] = sync /\ screens'[e] = view
  BY <1>10, <1>11, <1>12
<1>14. EditorTypes'
  <2>1. screens' \in [Screen -> View] /\ syncs' \in [Sync -> Save]
    BY <1>7, <1>9, <1>10, <1>11, <1>12
  <2> QED BY <2>1, <1>10, <1>11 DEF EditorTypes
<1>15. RowsFit'
  BY <1>10, <1>11, RowsStay
<1>16. ASSUME NEW x \in Screen PROVE ScreenFits(x)'
  <2>1. CASE x = e
    <3>1. StepsFit(view.steps, view.list)'
      BY <1>1, <1>9, <1>10, <1>11, StepsStay
    <3>2. Ascending(view.list)' /\ Ascending(view.answer)'
      BY <1>1, <1>9, <1>11 DEF Ascending
    <3>3. UnderWay(view.steps, view.list, plan)
      BY <1>1, <1>3, <1>9, PlanIsUnderWay
    <3>4. UnderWay(view.steps, view.list, plan)'
      BY <3>3, <1>11, SameUnderWay
    <3>5. MoodFits(e)'
      BY <3>4, <1>7, <1>9, <1>10, <1>13 DEF MoodFits
    <3> QED BY <2>1, <3>1, <3>2, <3>5, <1>7, <1>9, <1>13 DEF ScreenFits
  <2>2. CASE x # e
    <3>1. screens'[x] = screens[x] /\ ScreenFits(x)
      BY <2>2, <1>10, <1>12 DEF EditorInv
    <3>2. PICK y : y = screens[x].sync
      OBVIOUS
    <3>3. y = NoSync \/ (y \in Sync /\ y # s)
      <4>1. y \in Sync \cup {NoSync} /\ (y # NoSync => syncs[y].by = x)
        BY <3>2, ViewIs
      <4>2. syncs[s].by = NoScreen
        BY <1>11 DEF Fresh
      <4> QED BY <4>1, <4>2, <1>10
    <3>4. y = NoSync \/ (syncs'[y].todo = syncs[y].todo /\ syncs'[y].by = syncs[y].by)
      BY <3>3, <1>10, <1>11
    <3> QED BY <3>1, <3>2, <3>4, <1>10, <1>11, ScreenStays
  <2> QED BY <2>1, <2>2
<1>17. ASSUME NEW t \in Sync PROVE SyncFits(t)'
  <2>1. CASE t = s
    <3>1. AsksFit(plan)'
      <4>1. AsksFit(plan)
        BY <1>1, <1>3, PlanAsksFit
      <4> QED BY <4>1, <1>10, <1>11, AsksStay
    <3>2. ASSUME calm = TRUE PROVE CalmPlan(plan, sync.goal)'
      <4>1. CalmPlan(plan, Wanted(before.steps))
        BY <3>2, <1>1, <1>3, <1>4, <1>10, PlanIsCalm
      <4> QED BY <4>1, <1>7, <1>11, PlanStays
    <3>3. sync.by # NoScreen
      BY <1>7, <1>10
    <3> QED BY <2>1, <3>1, <3>2, <3>3, <1>7, <1>13 DEF SyncFits
  <2>2. CASE t # s
    <3>1. syncs'[t] = syncs[t] /\ SyncFits(t)
      BY <2>2, <1>10, <1>11 DEF EditorInv
    <3> QED BY <3>1, <1>10, <1>11, SyncStays
  <2> QED BY <2>1, <2>2
<1> QED BY <1>14, <1>15, <1>16, <1>17 DEF EditorInv

\* A step in which a request is granted.
LEMMA AfterWrite ==
    ASSUME EditorInv, NEW ask \in Ask, AskFits(ask), Writes(ask),
           strokes' = strokes \/ strokes' = strokes + 1, strokes' <= MaxStrokes,
           screens' \in [Screen -> View], syncs' \in [Sync -> Save],
           \A x \in Screen : /\ screens'[x].steps = screens[x].steps /\ screens'[x].list = screens[x].list
                             /\ screens'[x].answer = screens[x].answer \/ screens'[x].answer = <<>>
                             /\ screens'[x].sync # NoSync => syncs'[screens'[x].sync].by = x
                             /\ screens'[x].mood = "edited" \/ MoodFits(x)',
           \A s \in Sync : SyncFits(s)'
    PROVE  EditorInv'
<1>1. EditorTypes /\ RowsFit /\ strokes \in Nat
  BY DEF EditorInv, EditorTypes
<1>2. /\ made' \in Nat /\ made' <= MaxIds /\ inQueue' \subseteq 1 .. made'
      /\ lines' \subseteq Line /\ IsFiniteSet(lines') /\ RowsFit'
  BY <1>1, RowsWritten
<1>3. EditorTypes'
  BY <1>1, <1>2 DEF EditorTypes
<1>4. ASSUME NEW x \in Screen PROVE ScreenFits(x)'
  <2>1. PICK view : view = screens'[x]
    OBVIOUS
  <2>2. PICK steps, list, answer : /\ steps = screens[x].steps /\ list = screens[x].list
                                   /\ answer = screens[x].answer /\ Ascending(list) /\ Ascending(answer)
                                   /\ StepsFit(steps, list)
    BY ViewIs
  <2>3. view.steps = steps /\ view.list = list /\ (view.answer = answer \/ view.answer = <<>>)
    BY <2>1, <2>2
  <2>4. StepsFit(steps, list)' /\ Ascending(list)'
    BY <2>2, <1>1, StepsOutlast
  <2>5. Ascending(answer)'
    <3>1. made <= made' /\ made \in Nat /\ made' \in Nat
      BY <1>1, RowsWritten DEF EditorTypes
    <3>2. \A i \in DOMAIN answer : answer[i].id \in 1 .. made /\ answer[i].place > 0
      BY <2>2 DEF Ascending
    <3>3. \A i \in DOMAIN answer : answer[i].id \in 1 .. made'
      BY <3>1, <3>2
    <3> QED BY <2>2, <3>2, <3>3 DEF Ascending
  <2>6. Ascending(<<>>)'
    BY DEF Ascending
  <2>7. view.sync # NoSync => syncs'[view.sync].by = x
    BY <2>1
  <2>8. MoodFits(x)'
    BY <2>1 DEF MoodFits
  <2> QED BY <2>1, <2>3, <2>4, <2>5, <2>6, <2>7, <2>8 DEF ScreenFits
<1> QED BY <1>2, <1>3, <1>4 DEF EditorInv

LEMMA SyncIs ==
    ASSUME EditorInv, NEW s \in Sync
    PROVE  /\ syncs[s] \in Save /\ syncs[s].todo \in Seq(Ask) /\ syncs[s].by \in Screen \cup {NoScreen}
           /\ AsksFit(syncs[s].todo) /\ SyncFits(s)
           /\ syncs[s].by = NoScreen => syncs[s] = Fresh
           /\ syncs[s].calm => CalmPlan(syncs[s].todo, syncs[s].goal)
<1>1. syncs[s] \in Save /\ SyncFits(s)
  BY DEF EditorInv, EditorTypes
<1> QED BY <1>1 DEF Save, SyncFits

LEMMA SyncStepFits ==
    ASSUME EditorInv, NEW s \in Sync, SyncStep(s)
    PROVE  EditorInv'
<1>1. PICK sync \in Save : /\ sync = syncs[s] /\ sync.todo \in Seq(Ask) /\ AsksFit(sync.todo)
                           /\ sync.by = NoScreen => sync = Fresh
                           /\ sync.calm => CalmPlan(sync.todo, sync.goal)
  BY SyncIs
<1>2. PICK todo \in Seq(Ask) : todo = sync.todo
  BY <1>1
<1>3. PICK ask : ask = Head(todo)
  OBVIOUS
<1>4. /\ todo # <<>> /\ Writes(ask) /\ strokes' = strokes
      /\ syncs' = [Stirred(s) EXCEPT ![s].todo = Tail(@)] /\ screens' = Unsettled(s)
  BY <1>1, <1>2, <1>3 DEF SyncStep
<1>5. ask \in Ask /\ AskFits(ask)
  BY <1>1, <1>2, <1>3, <1>4, RestFits
<1>6. PICK rest \in Seq(Ask) : rest = Tail(todo)
  BY <1>4, TailIs
<1>7. /\ screens \in [Screen -> View] /\ syncs \in [Sync -> Save] /\ EditorTypes /\ RowsFit
      /\ strokes \in Nat /\ strokes <= MaxStrokes /\ NoSync \notin Sync /\ NoScreen \notin Screen
  BY JourneyTabConstants DEF EditorInv, EditorTypes
<1>8. PICK now : now = [sync EXCEPT !.todo = rest]
  OBVIOUS
<1>9. now \in Save /\ now.by = sync.by /\ now.todo = rest /\ now.goal = sync.goal /\ now.calm = sync.calm
  BY <1>1, <1>8 DEF Save
<1>10. syncs'[s] = now /\ \A t \in Sync : t # s => syncs'[t] = [syncs[t] EXCEPT !.calm = FALSE]
  BY <1>1, <1>2, <1>4, <1>6, <1>8 DEF Stirred
<1>11. \A t \in Sync : syncs'[t] \in Save /\ syncs'[t].by = syncs[t].by
  <2>1. ASSUME NEW t \in Sync, t # s PROVE syncs'[t] \in Save /\ syncs'[t].by = syncs[t].by
    <3>1. syncs[t] \in Save /\ SyncFits(t)
      BY SyncIs
    <3> QED BY <2>1, <3>1, <1>4, <1>7, <1>10, StirredFits
  <2> QED BY <2>1, <1>1, <1>9, <1>10
<1>12. syncs' \in [Sync -> Save]
  BY <1>4, <1>11 DEF Stirred
<1>13. ASSUME NEW t \in Sync PROVE SyncFits(t)'
  <2>1. CASE t = s
    <3>1. AsksFit(rest)
      BY <1>1, <1>2, <1>4, <1>6, RestFits
    <3>2. AsksFit(rest)'
      BY <3>1, <1>4, <1>7, AsksStay
    <3>3. now.by # NoScreen
      <4>1. Fresh.todo = <<>>
        BY DEF Fresh
      <4> QED BY <4>1, <1>1, <1>2, <1>4, <1>9
    <3>4. ASSUME now.calm = TRUE PROVE CalmPlan(rest, now.goal)'
      <4>1. PICK goal : goal = sync.goal /\ CalmPlan(todo, goal)
        BY <3>4, <1>1, <1>2, <1>9
      <4>2. CalmPlan(rest, goal)'
        BY <4>1, <1>1, <1>2, <1>3, <1>4, <1>6, <1>7, CalmGoesOn
      <4> QED BY <4>1, <4>2, <1>9
    <3>5. now.calm \in BOOLEAN
      BY <1>9 DEF Save
    <3> QED BY <2>1, <3>2, <3>3, <3>4, <3>5, <1>9, <1>10 DEF SyncFits
  <2>2. CASE t # s
    <3>1. syncs[t] \in Save /\ SyncFits(t)
      BY SyncIs
    <3> QED BY <2>2, <3>1, <1>4, <1>7, <1>10, StirredFits
  <2> QED BY <2>1, <2>2
<1>14. \A x \in Screen : screens'[x] = IF screens[x].sync = s THEN screens[x] ELSE [screens[x] EXCEPT !.mood = "edited"]
  BY <1>4, <1>7 DEF Unsettled
<1>15. ASSUME NEW x \in Screen
       PROVE  /\ screens'[x] \in View
              /\ screens'[x].steps = screens[x].steps /\ screens'[x].list = screens[x].list
              /\ screens'[x].answer = screens[x].answer
              /\ screens'[x].sync = screens[x].sync
              /\ screens'[x].mood = "edited" \/ (screens'[x] = screens[x] /\ screens[x].sync = s)
  <2>1. PICK before \in View : before = screens[x]
    BY <1>7
  <2>2. PICK after : after = [before EXCEPT !.mood = "edited"]
    OBVIOUS
  <2>3. /\ after \in View /\ after.steps = before.steps /\ after.list = before.list
        /\ after.answer = before.answer /\ after.sync = before.sync /\ after.mood = "edited"
    BY <2>1, <2>2 DEF View
  <2>4. screens'[x] = IF before.sync = s THEN before ELSE after
    BY <2>1, <2>2, <1>14
  <2> QED BY <2>1, <2>3, <2>4
<1>16. screens' \in [Screen -> View]
  BY <1>4, <1>15 DEF Unsettled
<1>17. ASSUME NEW x \in Screen PROVE screens'[x].mood = "edited" \/ MoodFits(x)'
  <2>1. CASE screens'[x] = screens[x] /\ screens[x].sync = s
    <3>1. PICK view \in View : /\ view = screens[x] /\ view.steps \in Seq(Shown)
                               /\ Ascending(view.list) /\ StepsFit(view.steps, view.list) /\ MoodFits(x)
      BY ViewIs
    <3>2. view = screens'[x] /\ view.sync = s
      BY <2>1, <3>1
    <3>3. Dirty(x)' <=> Dirty(x)
      BY <2>1 DEF Dirty
    <3>4. CASE view.mood = "saving"
      <4>1. Dirty(x) => UnderWay(view.steps, view.list, todo)
        BY <3>1, <3>2, <3>4, <1>1, <1>2 DEF MoodFits
      <4>2. Dirty(x)' => UnderWay(view.steps, view.list, rest)'
        BY <3>1, <3>3, <4>1, <1>1, <1>2, <1>3, <1>4, <1>6, <1>7, UnderWayGoesOn
      <4>3. syncs'[view.sync].todo = rest /\ view.sync # NoSync
        BY <3>2, <1>7, <1>9, <1>10
      <4> QED BY <3>2, <3>4, <4>2, <4>3 DEF MoodFits
    <3>5. CASE view.mood = "landed" \/ view.mood = "settled"
      BY <3>1, <3>2, <3>5, <1>7 DEF MoodFits
    <3> QED BY <3>2, <3>4, <3>5 DEF View
  <2> QED BY <2>1, <1>15
<1>18. ASSUME NEW x \in Screen, screens'[x].sync # NoSync PROVE syncs'[screens'[x].sync].by = x
  <2>1. PICK t : t = screens[x].sync /\ t = screens'[x].sync
    BY <1>15
  <2>2. t \in Sync /\ syncs[t].by = x
    BY <2>1, <1>18, ViewIs
  <2> QED BY <2>1, <2>2, <1>11
<1>19. \A x \in Screen : /\ screens'[x].steps = screens[x].steps /\ screens'[x].list = screens[x].list
                         /\ screens'[x].answer = screens[x].answer \/ screens'[x].answer = <<>>
                         /\ screens'[x].sync # NoSync => syncs'[screens'[x].sync].by = x
                         /\ screens'[x].mood = "edited" \/ MoodFits(x)'
  BY <1>15, <1>17, <1>18
<1> QED BY <1>4, <1>5, <1>7, <1>12, <1>13, <1>16, <1>19, AfterWrite

\* A save that is over: its screen, and what the others show of theirs.
LEMMA SyncFailsFits ==
    ASSUME EditorInv, NEW s \in Sync, SyncFails(s)
    PROVE  EditorInv'
<1>1. PICK sync \in Save : sync = syncs[s] /\ sync.todo \in Seq(Ask) /\ AsksFit(sync.todo)
  BY SyncIs
<1>2. /\ screens \in [Screen -> View] /\ syncs \in [Sync -> Save] /\ EditorTypes /\ RowsFit
      /\ strokes \in Nat /\ strokes <= MaxStrokes /\ NoSync \notin Sync /\ strokes' = strokes
      /\ syncs[s].todo # <<>>
  BY JourneyTabConstants DEF EditorInv, EditorTypes, SyncFails
<1>3. Fresh \in Save
  BY EmptySeq DEF Fresh, Save
<1>4. ASSUME NEW x \in Screen, NEW before \in View, before = screens[x], NEW given,
             given = [before EXCEPT !.sync = NoSync, !.mood = "edited"]
      PROVE  /\ given \in View /\ given.steps = before.steps /\ given.list = before.list
             /\ given.answer = before.answer /\ given.sync = NoSync /\ given.mood = "edited"
  BY <1>4 DEF View
<1>5. CASE /\ UNCHANGED <<lines, made, inQueue>>
           /\ syncs' = [syncs EXCEPT ![s] = Fresh] /\ screens' = GivesBack(s, screens)
  <2>1. ASSUME NEW x \in Screen PROVE screens'[x] \in View /\ ScreenFits(x)'
    <3>1. PICK before \in View : /\ before = screens[x] /\ before.sync \in Sync \cup {NoSync}
                                 /\ Ascending(before.list) /\ Ascending(before.answer)
                                 /\ StepsFit(before.steps, before.list) /\ ScreenFits(x)
      BY ViewIs DEF EditorInv
    <3>2. CASE before.sync = s
      <4>1. PICK given : given = [before EXCEPT !.sync = NoSync, !.mood = "edited"]
        OBVIOUS
      <4>2. screens'[x] = given
        BY <3>1, <3>2, <4>1, <1>5 DEF GivesBack
      <4>3. /\ given \in View /\ given.steps = before.steps /\ given.list = before.list
            /\ given.answer = before.answer /\ given.sync = NoSync /\ given.mood = "edited"
        BY <3>1, <4>1, <1>4
      <4>4. StepsFit(given.steps, given.list)'
        BY <3>1, <4>3, <1>2, <1>5, StepsStay
      <4>5. Ascending(given.list)' /\ Ascending(given.answer)'
        BY <3>1, <4>3, <1>5 DEF Ascending
      <4>6. MoodFits(x)'
        BY <4>2, <4>3 DEF MoodFits
      <4> QED BY <4>2, <4>3, <4>4, <4>5, <4>6 DEF ScreenFits
    <3>3. CASE before.sync # s
      <4>1. screens'[x] = screens[x]
        BY <3>1, <3>3, <1>5 DEF GivesBack
      <4>2. \/ before.sync = NoSync
            \/ /\ syncs'[before.sync].todo = syncs[before.sync].todo
               /\ syncs'[before.sync].by = syncs[before.sync].by
        BY <3>1, <3>3, <1>2, <1>5
      <4> QED BY <3>1, <4>1, <4>2, <1>2, <1>5, ScreenStays
    <3> QED BY <3>2, <3>3
  <2>2. screens' \in [Screen -> View] /\ syncs' \in [Sync -> Save]
    BY <2>1, <1>2, <1>3, <1>5 DEF GivesBack
  <2>3. EditorTypes' /\ RowsFit'
    BY <2>2, <1>2, <1>5, RowsStay DEF EditorTypes
  <2>4. ASSUME NEW t \in Sync PROVE SyncFits(t)'
    <3>1. CASE t = s
      <4>1. syncs'[s] = Fresh
        BY <1>2, <1>5
      <4> QED BY <3>1, <4>1, FreshFits
    <3>2. CASE t # s
      <4>1. syncs'[t] = syncs[t] /\ SyncFits(t)
        BY <3>2, <1>2, <1>5 DEF EditorInv
      <4> QED BY <4>1, <1>2, <1>5, SyncStays
    <3> QED BY <3>1, <3>2
  <2> QED BY <2>1, <2>3, <2>4 DEF EditorInv
<1>6. CASE /\ Writes(Head(syncs[s].todo))
           /\ syncs' = [Stirred(s) EXCEPT ![s] = Fresh] /\ screens' = GivesBack(s, Unsettled(s))
  <2>1. PICK ask : ask = Head(sync.todo)
    OBVIOUS
  <2>2. ask \in Ask /\ AskFits(ask) /\ Writes(ask)
    BY <2>1, <1>1, <1>2, <1>6, RestFits
  <2>3. syncs'[s] = Fresh /\ \A t \in Sync : t # s => syncs'[t] = [syncs[t] EXCEPT !.calm = FALSE]
    BY <1>6 DEF Stirred
  <2>4. ASSUME NEW t \in Sync
        PROVE  SyncFits(t)' /\ syncs'[t] \in Save /\ (t # s => syncs'[t].by = syncs[t].by)
    <3>1. CASE t = s
      BY <3>1, <2>3, FreshFits
    <3>2. CASE t # s
      <4>1. syncs[t] \in Save /\ SyncFits(t)
        BY SyncIs
      <4> QED BY <3>2, <4>1, <2>3, <1>2, StirredFits
    <3> QED BY <3>1, <3>2
  <2>5. syncs' \in [Sync -> Save]
    BY <2>4, <1>6 DEF Stirred
  <2>6. ASSUME NEW x \in Screen
        PROVE  /\ screens'[x] \in View
               /\ screens'[x].steps = screens[x].steps /\ screens'[x].list = screens[x].list
               /\ screens'[x].answer = screens[x].answer /\ screens'[x].mood = "edited"
               /\ screens'[x].sync # NoSync => screens'[x].sync = screens[x].sync /\ screens[x].sync # s
    <3>1. PICK before \in View : before = screens[x]
      BY <1>2
    <3>2. PICK other : other = [before EXCEPT !.mood = "edited"]
      OBVIOUS
    <3>3. /\ other \in View /\ other.steps = before.steps /\ other.list = before.list
          /\ other.answer = before.answer /\ other.sync = before.sync /\ other.mood = "edited"
      BY <3>1, <3>2 DEF View
    <3>4. PICK given : given = [before EXCEPT !.sync = NoSync, !.mood = "edited"]
      OBVIOUS
    <3>5. /\ given \in View /\ given.steps = before.steps /\ given.list = before.list
          /\ given.answer = before.answer /\ given.sync = NoSync /\ given.mood = "edited"
      BY <3>1, <3>4 DEF View
    <3>6. CASE before.sync = s
      <4>1. Unsettled(s)[x] = before
        BY <3>1, <3>6, <1>2 DEF Unsettled
      <4>2. screens'[x] = given
        BY <3>4, <3>6, <4>1, <1>6 DEF GivesBack
      <4> QED BY <3>1, <3>5, <4>2
    <3>7. CASE before.sync # s
      <4>1. Unsettled(s)[x] = other
        BY <3>1, <3>2, <3>7 DEF Unsettled
      <4>2. screens'[x] = other
        BY <3>3, <3>7, <4>1, <1>6 DEF GivesBack
      <4> QED BY <3>1, <3>3, <3>7, <4>2
    <3> QED BY <3>6, <3>7
  <2>7. screens' \in [Screen -> View]
    BY <2>6, <1>6 DEF GivesBack
  <2>8. ASSUME NEW x \in Screen, screens'[x].sync # NoSync PROVE syncs'[screens'[x].sync].by = x
    <3>1. PICK t : t = screens[x].sync /\ t = screens'[x].sync /\ t # s
      BY <2>6, <2>8
    <3>2. t \in Sync /\ syncs[t].by = x
      BY <3>1, <2>8, ViewIs
    <3> QED BY <3>1, <3>2, <2>4
  <2>9. \A x \in Screen : /\ screens'[x].steps = screens[x].steps /\ screens'[x].list = screens[x].list
                          /\ screens'[x].answer = screens[x].answer \/ screens'[x].answer = <<>>
                          /\ screens'[x].sync # NoSync => syncs'[screens'[x].sync].by = x
                          /\ screens'[x].mood = "edited" \/ MoodFits(x)'
    BY <2>6, <2>8
  <2> QED BY <2>2, <2>4, <2>5, <2>7, <2>9, <1>2, AfterWrite
<1> QED BY <1>5, <1>6 DEF SyncFails

LEMMA SyncLandsFits ==
    ASSUME EditorInv, NEW s \in Sync, SyncLands(s)
    PROVE  EditorInv'
<1>1. PICK e : e = syncs[s].by
  OBVIOUS
<1>2. /\ e \in Screen /\ syncs[s].todo = <<>> /\ syncs' = [syncs EXCEPT ![s] = Fresh]
      /\ UNCHANGED <<lines, made, inQueue, strokes>>
  BY <1>1, SyncIs DEF SyncLands
<1>3. PICK before \in View : /\ before = screens[e] /\ Ascending(before.list) /\ Ascending(before.answer)
                             /\ StepsFit(before.steps, before.list) /\ MoodFits(e)
                             /\ before.sync # NoSync => syncs[before.sync].by = e
                             /\ before.sync \in Sync \cup {NoSync}
  BY <1>2, ViewIs
<1>4. PICK now : now = IF before.sync = s THEN NoSync ELSE before.sync
  OBVIOUS
<1>5. PICK mood : mood = IF before.sync = s /\ before.mood = "saving" THEN "landed" ELSE "edited"
  OBVIOUS
<1>6. PICK view : view = [before EXCEPT !.fetch = "asked", !.sync = now, !.mood = mood]
  OBVIOUS
<1>7. /\ view \in View /\ view.fetch = "asked" /\ view.sync = now /\ view.mood = mood
      /\ view.steps = before.steps /\ view.list = before.list /\ view.answer = before.answer
  <2>1. now \in Sync \cup {NoSync} /\ mood \in {"edited", "saving", "landed", "settled"}
    BY <1>3, <1>4, <1>5
  <2> QED BY <2>1, <1>6 DEF View
<1>8. /\ screens \in [Screen -> View] /\ syncs \in [Sync -> Save] /\ EditorTypes /\ RowsFit
      /\ strokes \in Nat /\ NoSync \notin Sync /\ NoScreen \notin Screen
  BY JourneyTabConstants DEF EditorInv, EditorTypes
<1>9. screens' = [screens EXCEPT ![e] = view]
  <2>1. [screens EXCEPT ![e].fetch = "asked", ![e].sync = now, ![e].mood = mood] = [screens EXCEPT ![e] = view]
    BY <1>2, <1>3, <1>6, <1>8 DEF View
  <2>2. [screens EXCEPT
            ![e].fetch = "asked",
            ![e].sync = IF @ = s THEN NoSync ELSE @,
            ![e].mood = IF screens[e].sync = s /\ @ = "saving" THEN "landed" ELSE "edited"]
        = [screens EXCEPT ![e].fetch = "asked", ![e].sync = now, ![e].mood = mood]
    BY <1>2, <1>3, <1>4, <1>5, <1>8 DEF View
  <2> QED BY <2>1, <2>2, <1>1 DEF SyncLands
<1>10. Fresh \in Save
  BY EmptySeq DEF Fresh, Save
<1>11. screens'[e] = view /\ syncs'[s] = Fresh
  BY <1>2, <1>8, <1>9
<1>12. EditorTypes' /\ RowsFit'
  <2>1. screens' \in [Screen -> View] /\ syncs' \in [Sync -> Save]
    BY <1>2, <1>7, <1>8, <1>9, <1>10
  <2> QED BY <2>1, <1>2, <1>8, RowsStay DEF EditorTypes
<1>13. ASSUME NEW x \in Screen PROVE ScreenFits(x)'
  <2>1. CASE x = e
    <3>1. StepsFit(view.steps, view.list)'
      BY <1>2, <1>3, <1>7, <1>8, StepsStay
    <3>2. Ascending(view.list)' /\ Ascending(view.answer)'
      BY <1>2, <1>3, <1>7 DEF Ascending
    <3>3. now # NoSync => syncs'[now].by = e
      BY <1>2, <1>3, <1>4, <1>8
    <3>4. MoodFits(e)'
      <4>1. CASE mood = "landed"
        <5>1. before.sync = s /\ before.mood = "saving" /\ now = NoSync
          BY <4>1, <1>4, <1>5
        <5>2. Dirty(e) => UnderWay(before.steps, before.list, <<>>)
          BY <5>1, <1>2, <1>3 DEF MoodFits
        <5>3. Dirty(e)' <=> Dirty(e)
          BY <1>3, <1>7, <1>11 DEF Dirty
        <5>4. Dirty(e)' => UnderWay(before.steps, before.list, <<>>)'
          BY <5>2, <5>3, <1>2, SameUnderWay
        <5> QED BY <4>1, <5>1, <5>4, <1>7, <1>11 DEF MoodFits
      <4>2. CASE mood = "edited"
        BY <4>2, <1>7, <1>11 DEF MoodFits
      <4> QED BY <4>1, <4>2, <1>5
    <3> QED BY <2>1, <3>1, <3>2, <3>3, <3>4, <1>7, <1>11 DEF ScreenFits
  <2>2. CASE x # e
    <3>1. screens'[x] = screens[x] /\ ScreenFits(x)
      BY <2>2, <1>8, <1>9 DEF EditorInv
    <3>2. PICK y : y = screens[x].sync
      OBVIOUS
    <3>3. y = NoSync \/ (y \in Sync /\ y # s)
      <4>1. y \in Sync \cup {NoSync} /\ (y # NoSync => syncs[y].by = x)
        BY <3>2, ViewIs
      <4> QED BY <4>1, <2>2, <1>1
    <3>4. y = NoSync \/ (syncs'[y].todo = syncs[y].todo /\ syncs'[y].by = syncs[y].by)
      BY <3>3, <1>2, <1>8
    <3> QED BY <3>1, <3>2, <3>4, <1>2, <1>8, ScreenStays
  <2> QED BY <2>1, <2>2
<1>14. ASSUME NEW t \in Sync PROVE SyncFits(t)'
  <2>1. CASE t = s
    BY <2>1, <1>11, FreshFits
  <2>2. CASE t # s
    <3>1. syncs'[t] = syncs[t] /\ SyncFits(t)
      BY <2>2, <1>2, <1>8 DEF EditorInv
    <3> QED BY <3>1, <1>2, <1>8, SyncStays
  <2> QED BY <2>1, <2>2
<1> QED BY <1>12, <1>13, <1>14 DEF EditorInv

-----------------------------------------------------------------------------
(* The messages tab, and running journeys                                  *)

LEMMA TabRequestFits ==
    ASSUME EditorTypes, RowsFit, NEW list \in Seq(Line), Ascending(list), NEW ask \in TabRequests(list)
    PROVE  ask \in Ask /\ AskFits(ask)
<1>1. lines \subseteq Line /\ Opener \in Draft
  BY JourneyTabConstants DEF EditorTypes
<1>2. CASE ask = [op |-> "POST", id |-> NoId, place |-> Highest(list) + 1, name |-> NoName, says |-> Opener, on |-> TRUE]
  <2>1. PICK highest : highest = Highest(list)
    OBVIOUS
  <2>2. highest \in Nat
    <3>1. CASE list = <<>>
      BY <3>1, <2>1 DEF Highest
    <3>2. CASE list # <<>>
      <4>1. Len(list) \in DOMAIN list
        BY <3>2, LengthIs, EmptySeq
      <4>2. list[Len(list)] \in Line
        BY <4>1, LengthIs
      <4> QED BY <3>2, <4>2, <2>1 DEF Highest, Line
    <3> QED BY <3>1, <3>2
  <2>3. highest + 1 \in Nat /\ highest + 1 > 0
    BY <2>2
  <2>4. NoName \in RowName
    BY DEF RowName
  <2>5. ask \in Ask
    BY <2>1, <2>3, <2>4, <1>1, <1>2 DEF Ask, NoId
  <2>6. /\ ask.op = "POST" /\ ask.place = highest + 1 /\ ask.id = NoId /\ ask.name = NoName
    BY <2>1, <1>2
  <2> QED BY <2>3, <2>5, <2>6 DEF AskFits
<1>3. ASSUME NEW q \in lines, NEW says \in Draft, NEW on \in BOOLEAN,
             ask = [op |-> "PATCH", id |-> q.id, place |-> q.place, name |-> q.name, says |-> says, on |-> on]
      PROVE  ask \in Ask /\ AskFits(ask)
  <2>1. q \in Line /\ q.place > 0
    BY <1>1 DEF RowsFit
  <2>2. ask \in Ask
    BY <2>1, <1>3 DEF Ask, Line
  <2>3. ask.op = "PATCH" /\ ask.place = q.place /\ ask.id = q.id /\ ask.name = q.name
    BY <1>3
  <2> QED BY <2>1, <2>2, <2>3 DEF AskFits
<1>4. \/ ask = [op |-> "POST", id |-> NoId, place |-> Highest(list) + 1, name |-> NoName, says |-> Opener, on |-> TRUE]
      \/ \E q \in Listed(list), says \in Draft :
            ask = [op |-> "PATCH", id |-> q.id, place |-> q.place, name |-> q.name, says |-> says, on |-> q.on]
      \/ \E q \in Listed(list), on \in BOOLEAN :
            ask = [op |-> "PATCH", id |-> q.id, place |-> q.place, name |-> q.name, says |-> q.says, on |-> on]
  BY DEF TabRequests
<1>5. \A q \in Listed(list) : q \in lines /\ q.says \in Draft /\ q.on \in BOOLEAN
  BY <1>1 DEF Listed, Line
<1> QED BY <1>2, <1>3, <1>4, <1>5

LEMMA MessagesTabFits ==
    ASSUME EditorInv, NEW e \in Screen, MessagesTab(e)
    PROVE  EditorInv'
<1>1. PICK list \in Seq(Line) : list = screens[e].list /\ Ascending(list)
  BY ViewIs
<1>2. /\ screens \in [Screen -> View] /\ syncs \in [Sync -> Save] /\ EditorTypes /\ RowsFit
      /\ strokes \in Nat /\ MaxStrokes \in Nat /\ NoSync \notin Sync
  BY JourneyTabConstants DEF EditorInv, EditorTypes
<1>3. strokes < MaxStrokes /\ strokes' = strokes + 1 /\ syncs' = Stirred(NoSync)
  BY DEF MessagesTab
<1>4. strokes' <= MaxStrokes
  BY <1>2, <1>3
<1>5. PICK ask \in TabRequests(list) : Writes(ask)
  BY <1>1 DEF MessagesTab
<1>6. ask \in Ask /\ AskFits(ask)
  BY <1>1, <1>2, <1>5, TabRequestFits
<1>7. \A t \in Sync : syncs'[t] = [syncs[t] EXCEPT !.calm = FALSE]
  BY <1>2, <1>3 DEF Stirred
<1>8. ASSUME NEW t \in Sync PROVE SyncFits(t)' /\ syncs'[t] \in Save /\ syncs'[t].by = syncs[t].by
  <2>1. syncs[t] \in Save /\ SyncFits(t)
    BY SyncIs
  <2> QED BY <2>1, <1>2, <1>3, <1>7, StirredFits
<1>9. syncs' \in [Sync -> Save]
  BY <1>3, <1>8 DEF Stirred
<1>10. ASSUME NEW x \in Screen
       PROVE  /\ screens'[x] \in View
              /\ screens'[x].steps = screens[x].steps /\ screens'[x].list = screens[x].list
              /\ screens'[x].answer = screens[x].answer \/ screens'[x].answer = <<>>
              /\ screens'[x].mood = "edited" /\ screens'[x].sync = screens[x].sync
  <2>1. PICK before \in View : before = screens[x]
    BY <1>2
  <2>2. PICK other : other = [before EXCEPT !.mood = "edited"]
    OBVIOUS
  <2>3. /\ other \in View /\ other.steps = before.steps /\ other.list = before.list
        /\ other.answer = before.answer /\ other.sync = before.sync /\ other.mood = "edited"
    BY <2>1, <2>2 DEF View
  <2>4. Unsettled(NoSync)[x] = other
    BY <2>1, <2>2 DEF Unsettled
  <2>5. CASE x # e
    <3>1. screens'[x] = other
      BY <2>4, <2>5 DEF MessagesTab, Unsettled
    <3> QED BY <3>1, <2>1, <2>3
  <2>6. CASE x = e
    <3>1. PICK awaits : awaits = [other EXCEPT !.fetch = "asked", !.answer = <<>>]
      OBVIOUS
    <3>2. /\ awaits \in View /\ awaits.steps = other.steps /\ awaits.list = other.list
          /\ awaits.answer = <<>> /\ awaits.sync = other.sync /\ awaits.mood = other.mood
      BY <3>1, <2>3, EmptySeq DEF View
    <3>3. PICK all : all = Unsettled(NoSync) /\ x \in DOMAIN all /\ all[x] = other
      BY <2>4 DEF Unsettled
    <3>4. screens' = [all EXCEPT ![x].fetch = "asked", ![x].answer = <<>>]
      BY <3>3, <2>6 DEF MessagesTab
    <3>5. screens'[x] = awaits
      BY <3>1, <3>3, <3>4, <2>3 DEF View
    <3> QED BY <3>2, <3>5, <2>1, <2>3
  <2> QED BY <2>5, <2>6
<1>11. screens' \in [Screen -> View]
  BY <1>10 DEF MessagesTab, Unsettled
<1>12. ASSUME NEW x \in Screen, screens'[x].sync # NoSync PROVE syncs'[screens'[x].sync].by = x
  <2>1. PICK t : t = screens[x].sync /\ t = screens'[x].sync
    BY <1>10
  <2>2. t \in Sync /\ syncs[t].by = x
    BY <2>1, <1>12, ViewIs
  <2> QED BY <2>1, <2>2, <1>8
<1>13. \A x \in Screen : /\ screens'[x].steps = screens[x].steps /\ screens'[x].list = screens[x].list
                         /\ screens'[x].answer = screens[x].answer \/ screens'[x].answer = <<>>
                         /\ screens'[x].sync # NoSync => syncs'[screens'[x].sync].by = x
                         /\ screens'[x].mood = "edited" \/ MoodFits(x)'
  BY <1>10, <1>12
<1> QED BY <1>3, <1>4, <1>5, <1>6, <1>8, <1>9, <1>11, <1>13, AfterWrite

LEMMA QueueLineFits ==
    ASSUME EditorInv, NEW r \in lines, QueueLine(r)
    PROVE  EditorInv'
<1>1. /\ screens \in [Screen -> View] /\ syncs \in [Sync -> Save] /\ EditorTypes /\ RowsFit
      /\ strokes \in Nat /\ MaxStrokes \in Nat /\ NoSync \notin Sync
  BY JourneyTabConstants DEF EditorInv, EditorTypes
<1>2. /\ strokes < MaxStrokes /\ strokes' = strokes + 1 /\ inQueue' = inQueue \cup {r.id}
      /\ UNCHANGED <<lines, made, screens>>
  BY DEF QueueLine
<1>3. strokes' <= MaxStrokes
  BY <1>1, <1>2
<1>4. inQueue' \subseteq 1 .. made'
  BY <1>1, <1>2 DEF EditorTypes, RowsFit
<1>5. ASSUME NEW t \in Sync
      PROVE  /\ syncs'[t] \in Save /\ syncs'[t].by = syncs[t].by /\ syncs'[t].todo = syncs[t].todo
             /\ SyncFits(t)'
  <2>1. PICK sync \in Save : /\ sync = syncs[t] /\ sync.todo \in Seq(Ask) /\ AsksFit(sync.todo)
                             /\ sync.by = NoScreen => sync = Fresh
                             /\ sync.calm => CalmPlan(sync.todo, sync.goal)
    BY SyncIs
  <2>2. PICK calm \in BOOLEAN :
            calm = (sync.calm /\ \A i \in DOMAIN sync.todo : sync.todo[i].op = "DELETE" => sync.todo[i].id # r.id)
    BY <2>1 DEF Save
  <2>3. PICK now : now = [sync EXCEPT !.calm = calm]
    OBVIOUS
  <2>4. now \in Save /\ now.by = sync.by /\ now.todo = sync.todo /\ now.goal = sync.goal /\ now.calm = calm
    BY <2>1, <2>3 DEF Save
  <2>5. syncs'[t] = now
    <3>1. syncs'[t] = [syncs[t] EXCEPT !.calm = @ /\ \A i \in DOMAIN syncs[t].todo :
                                            syncs[t].todo[i].op = "DELETE" => syncs[t].todo[i].id # r.id]
      BY DEF QueueLine
    <3> QED BY <2>1, <2>2, <2>3, <3>1 DEF Save
  <2>6. AsksFit(now.todo)'
    BY <2>1, <2>4, <1>1, <1>2, AsksStay
  <2>7. ASSUME now.calm PROVE CalmPlan(now.todo, now.goal)'
    <3>1. PICK todo, goal : todo = sync.todo /\ goal = sync.goal /\ CalmPlan(todo, goal)
      BY <2>1, <2>2, <2>4, <2>7
    <3>2. \A i \in DOMAIN todo : todo[i].op = "DELETE" => todo[i].id # r.id
      BY <3>1, <2>2, <2>4, <2>7
    <3>3. CalmPlan(todo, goal)'
      BY <3>1, <3>2, <1>2 DEF CalmPlan
    <3> QED BY <3>1, <3>3, <2>4
  <2>8. now.by = NoScreen => now = Fresh
    <3>1. now.by = NoScreen => sync = Fresh
      BY <2>1, <2>4
    <3>2. Fresh.by = NoScreen /\ Fresh.todo = <<>> /\ Fresh.goal = <<>> /\ ~Fresh.calm
      BY DEF Fresh
    <3>3. now = [by |-> now.by, todo |-> now.todo, goal |-> now.goal, calm |-> now.calm]
      BY <2>4 DEF Save
    <3>4. now.by = NoScreen => now.calm = FALSE
      BY <3>1, <3>2, <2>2, <2>4
    <3> QED BY <3>1, <3>2, <3>3, <3>4, <2>4 DEF Fresh
  <2>9. now.calm \in BOOLEAN
    BY <2>4 DEF Save
  <2> QED BY <2>1, <2>4, <2>5, <2>6, <2>7, <2>8, <2>9 DEF SyncFits
<1>6. syncs' \in [Sync -> Save]
  BY <1>5 DEF QueueLine
<1>7. EditorTypes' /\ RowsFit'
  BY <1>1, <1>2, <1>3, <1>4, <1>6, RowsStay DEF EditorTypes
<1>8. ASSUME NEW x \in Screen PROVE ScreenFits(x)'
  <2>1. screens'[x] = screens[x] /\ ScreenFits(x) /\ inQueue \subseteq inQueue'
    BY <1>2 DEF EditorInv
  <2>2. PICK y : y = screens[x].sync /\ y \in Sync \cup {NoSync}
    BY ViewIs
  <2>3. y = NoSync \/ (syncs'[y].todo = syncs[y].todo /\ syncs'[y].by = syncs[y].by)
    BY <2>2, <1>5
  <2> QED BY <2>1, <2>2, <2>3, <1>1, <1>2, ScreenStays
<1> QED BY <1>5, <1>7, <1>8 DEF EditorInv

-----------------------------------------------------------------------------
(* The editor keeps its invariant                                          *)

LEMMA EditorStart == TabInit => EditorInv
<1> SUFFICES ASSUME TabInit PROVE EditorInv
  OBVIOUS
<1>1. /\ IsFiniteSet(lines) /\ made = Cardinality(lines) /\ made <= MaxIds
      /\ lines \subseteq [id : 1 .. made, place : Nat \ {0}, name : {NoName}, says : Draft, on : BOOLEAN]
      /\ \A r, q \in lines : r.id = q.id \/ r.place = q.place => r = q
      /\ strokes = 0 /\ MaxStrokes \in Nat /\ NoSync \notin Sync
  BY JourneyTabConstants DEF TabInit
<1>2. made \in Nat
  BY <1>1, FS_CardinalityType
<1>3. lines \subseteq Line
  <2>1. 1 .. made \subseteq Nat /\ Nat \ {0} \subseteq Nat /\ {NoName} \subseteq RowName
    BY <1>2 DEF RowName
  <2> QED BY <2>1, <1>1 DEF Line
<1>4. RowsFit
  BY <1>1 DEF RowsFit
<1>5. inQueue \subseteq 1 .. made
  BY <1>1 DEF TabInit
<1>6. PICK list \in Seq(Line) : list = InOrder(lines) /\ Ascending(list)
  BY <1>1, <1>3, <1>4, RowsListed
<1>7. PICK steps \in Seq(Shown) : steps = Drawn(list) /\ StepsFit(steps, list)
  BY <1>6, DrawnIs, DrawnFits
<1>8. PICK view : view = [tab |-> "journey", list |-> list, steps |-> steps, sync |-> NoSync,
                          fetch |-> "none", answer |-> <<>>, mood |-> "edited"]
  OBVIOUS
<1>9. /\ view \in View /\ view.list = list /\ view.steps = steps /\ view.answer = <<>>
      /\ view.sync = NoSync /\ view.mood = "edited"
  BY <1>6, <1>7, <1>8, EmptySeq DEF View
<1>10. screens = [e \in Screen |-> view] /\ syncs = [s \in Sync |-> Fresh]
  BY <1>6, <1>7, <1>8 DEF TabInit
<1>11. Fresh \in Save /\ Fresh.todo = <<>> /\ Fresh.calm = FALSE
  BY EmptySeq DEF Fresh, Save
<1>12. EditorTypes
  BY <1>1, <1>2, <1>3, <1>5, <1>9, <1>10, <1>11 DEF EditorTypes
<1>13. ASSUME NEW e \in Screen PROVE ScreenFits(e)
  <2>1. screens[e] = view
    BY <1>10
  <2>2. Ascending(<<>>)
    BY DEF Ascending
  <2>3. MoodFits(e)
    BY <2>1, <1>9 DEF MoodFits
  <2> QED BY <2>1, <2>2, <2>3, <1>6, <1>7, <1>9 DEF ScreenFits
<1>14. ASSUME NEW s \in Sync PROVE SyncFits(s)
  <2>1. syncs[s] = Fresh
    BY <1>10
  <2>2. AsksFit(<<>>)
    BY DEF AsksFit
  <2>3. AsksFit(Fresh.todo)
    BY <2>2, <1>11
  <2> QED BY <2>1, <2>3, <1>11 DEF SyncFits
<1> QED BY <1>4, <1>12, <1>13, <1>14 DEF EditorInv

LEMMA EditorRests == EditorInv /\ UNCHANGED tabVars => EditorInv'
<1> SUFFICES ASSUME EditorInv, UNCHANGED tabVars PROVE EditorInv'
  OBVIOUS
<1>1. UNCHANGED <<lines, made, inQueue, screens, syncs, strokes>> /\ strokes \in Nat
  BY DEF tabVars, EditorInv, EditorTypes
<1>2. EditorTypes' /\ RowsFit'
  BY <1>1, RowsStay DEF EditorInv, EditorTypes
<1>3. ASSUME NEW x \in Screen PROVE ScreenFits(x)'
  BY <1>1, ScreenStays DEF EditorInv
<1>4. ASSUME NEW t \in Sync PROVE SyncFits(t)'
  BY <1>1, SyncStays DEF EditorInv
<1> QED BY <1>2, <1>3, <1>4 DEF EditorInv

LEMMA EditorStep == EditorInv /\ [TabNext]_tabVars => EditorInv'
<1> SUFFICES ASSUME EditorInv, [TabNext]_tabVars PROVE EditorInv'
  OBVIOUS
<1>1. CASE UNCHANGED tabVars
  BY <1>1, EditorRests
<1>2. ASSUME NEW e \in Screen, AddStep(e) PROVE EditorInv'
  BY <1>2, AddStepFits
<1>3. ASSUME NEW e \in Screen, PatchStep(e) PROVE EditorInv'
  BY <1>3, PatchStepFits
<1>4. ASSUME NEW e \in Screen, RemoveStep(e) PROVE EditorInv'
  BY <1>4, RemoveStepFits
<1>5. ASSUME NEW e \in Screen, SwitchTab(e) PROVE EditorInv'
  BY <1>5, SwitchTabFits
<1>6. ASSUME NEW e \in Screen, ReadLines(e) PROVE EditorInv'
  BY <1>6, ReadLinesFits
<1>7. ASSUME NEW e \in Screen, ReceiveLines(e) PROVE EditorInv'
  BY <1>7, ReceiveLinesFits
<1>8. ASSUME NEW e \in Screen, MessagesTab(e) PROVE EditorInv'
  BY <1>8, MessagesTabFits
<1>9. ASSUME NEW e \in Screen, NEW s \in Sync, ClickSave(e, s) PROVE EditorInv'
  BY <1>9, ClickSaveFits
<1>10. ASSUME NEW s \in Sync, SyncStep(s) PROVE EditorInv'
  BY <1>10, SyncStepFits
<1>11. ASSUME NEW s \in Sync, SyncFails(s) PROVE EditorInv'
  BY <1>11, SyncFailsFits
<1>12. ASSUME NEW s \in Sync, SyncLands(s) PROVE EditorInv'
  BY <1>12, SyncLandsFits
<1>13. ASSUME NEW r \in lines, QueueLine(r) PROVE EditorInv'
  BY <1>13, QueueLineFits
<1> QED BY <1>1, <1>2, <1>3, <1>4, <1>5, <1>6, <1>7, <1>8, <1>9, <1>10, <1>11, <1>12, <1>13 DEF TabNext

-----------------------------------------------------------------------------
(* What the invariant of the editor says                                   *)

LEMMA EditorTyped == EditorInv => TabTypeOK
<1> SUFFICES ASSUME EditorInv PROVE TabTypeOK
  OBVIOUS
<1>1. EditorTypes /\ RowsFit /\ MaxIds \in Nat /\ MaxStrokes \in Nat
  BY JourneyTabConstants DEF EditorInv
<1>2. \A r \in lines : r.id \in 1 .. made /\ r.place \in Nat \ {0} /\ r.says \in Draft
  BY <1>1 DEF EditorTypes, RowsFit, Line
<1>3. \A r, q \in lines : r.id = q.id \/ r.place = q.place => r = q
  BY <1>1 DEF RowsFit
<1>4. made \in 0 .. MaxIds /\ inQueue \subseteq 1 .. made /\ strokes \in 0 .. MaxStrokes
  BY <1>1 DEF EditorTypes
<1>5. ASSUME NEW e \in Screen
      PROVE  /\ screens[e].tab \in {"journey", "messages"} /\ screens[e].sync \in Sync \cup {NoSync}
             /\ screens[e].fetch \in {"none", "asked", "answered"}
             /\ screens[e].mood \in {"edited", "saving", "landed", "settled"}
             /\ screens[e].sync # NoSync => syncs[screens[e].sync].by = e
  BY ViewIs DEF View
<1>6. ASSUME NEW s \in Sync PROVE syncs[s].by \in Screen \cup {NoScreen}
  BY SyncIs
<1> QED BY <1>2, <1>3, <1>4, <1>5, <1>6 DEF TabTypeOK

LEMMA CalmSavesLand == EditorInv => CalmSaveLands
<1> SUFFICES ASSUME EditorInv, NEW s \in Sync, syncs[s].by # NoScreen, syncs[s].calm
             PROVE  IF syncs[s].todo = <<>>
                    THEN /\ Gist(InOrder(lines)) = syncs[s].goal
                         /\ {r.place : r \in lines} = DOMAIN syncs[s].goal
                    ELSE LET ask == Head(syncs[s].todo)
                         IN  Denied(ask) => ask.op # "DELETE" /\ ask.says \in Unsendable
  BY DEF CalmSaveLands
<1>1. PICK todo \in Seq(Ask), goal \in Seq(Promised) :
          todo = syncs[s].todo /\ goal = syncs[s].goal /\ AsksFit(todo) /\ CalmPlan(todo, goal)
  <2>1. syncs[s].goal \in Seq(Promised)
    BY SyncIs DEF Save
  <2> QED BY <2>1, SyncIs
<1>2. EditorTypes /\ RowsFit
  BY DEF EditorInv
<1>3. ASSUME todo # <<>> PROVE LET ask == Head(todo) IN Denied(ask) => ask.op # "DELETE" /\ ask.says \in Unsendable
  BY <1>1, <1>2, <1>3, CalmIsGranted
<1>4. ASSUME todo = <<>> PROVE Gist(InOrder(lines)) = goal /\ {r.place : r \in lines} = DOMAIN goal
  <2>1. \A id : ~Awaits(todo, id) /\ ~Fills(todo, id)
    BY <1>4 DEF Awaits, Fills
  <2>2. \A r \in lines : r.place \in DOMAIN goal /\ goal[r.place] = [says |-> r.says, on |-> r.on]
    BY <2>1, <1>1 DEF CalmPlan
  <2>3. \A place \in DOMAIN goal : \E r \in lines : r.place = place
    BY <2>1, <1>1, SMTT(30) DEF CalmPlan
  <2>4. {r.place : r \in lines} = DOMAIN goal
    <3>1. {r.place : r \in lines} \subseteq DOMAIN goal
      BY <2>2
    <3>2. DOMAIN goal \subseteq {r.place : r \in lines}
      BY <2>3
    <3> QED BY <3>1, <3>2
  <2>5. PICK list \in Seq(Line) : /\ list = InOrder(lines) /\ Ascending(list)
                                  /\ \A i \in DOMAIN list : list[i] \in lines
                                  /\ \A r \in lines : \E i \in DOMAIN list : list[i] = r
    BY <1>2, LinesInOrder
  <2>6. PICK n \in Nat : DOMAIN list = 1 .. n
    BY LengthIs
  <2>7. PICK m \in Nat : DOMAIN goal = 1 .. m
    BY LengthIs
  <2>8. PICK at : at = [i \in 1 .. n |-> list[i].place]
    OBVIOUS
  <2>9. Ranks(at, n, 1 .. m)
    <3>1. at \in [1 .. n -> 1 .. m]
      BY <2>2, <2>5, <2>6, <2>7, <2>8
    <3>2. \A i, j \in 1 .. n : i < j => at[i] < at[j]
      BY <2>5, <2>6, <2>8 DEF Ascending
    <3>3. ASSUME NEW p \in 1 .. m PROVE \E i \in 1 .. n : at[i] = p
      <4>1. PICK r \in lines : r.place = p
        BY <2>3, <2>7
      <4>2. PICK i \in 1 .. n : list[i] = r
        BY <2>5, <2>6
      <4> QED BY <4>1, <4>2, <2>8
    <3> QED BY <3>1, <3>2, <3>3 DEF Ranks
  <2>10. n = m /\ \A i \in 1 .. n : at[i] = i
    BY <2>9, ClimbsOnto
  <2>11. ASSUME NEW i \in 1 .. n PROVE [says |-> list[i].says, on |-> list[i].on] = goal[i]
    <3>1. list[i] \in lines /\ list[i].place = i
      BY <2>5, <2>6, <2>8, <2>10
    <3> QED BY <3>1, <2>2
  <2>12. Gist(list) = [i \in 1 .. n |-> goal[i]]
    BY <2>6, <2>11 DEF Gist
  <2>13. goal = [i \in 1 .. n |-> goal[i]]
    <3>1. goal \in [1 .. n -> Promised]
      BY <2>7, <2>10, LengthIs
    <3> QED BY <3>1
  <2> QED BY <2>4, <2>5, <2>12, <2>13
<1> QED BY <1>1, <1>3, <1>4

\* What leaves the button lit.
QuietBut(steps, gone) ==
    /\ gone # <<>> \/ \E i \in DOMAIN steps : BodyOf[steps[i].says] # steps[i].says
    /\ \A i \in DOMAIN gone : ~gone[i].on /\ gone[i].id \in inQueue
    /\ \A i \in DOMAIN steps : \E r \in lines :
          r.id = steps[i].id /\ r.says = BodyOf[steps[i].says] /\ r.on = steps[i].on

LEMMA ButtonsGoQuiet == EditorInv => ButtonGoesQuiet
<1> SUFFICES ASSUME EditorInv, NEW e \in Screen, screens[e].mood = "settled"
             PROVE  /\ screens[e].list = InOrder(lines)
                    /\ Dirty(e) => QuietBut(screens[e].steps, Removed(screens[e].steps, screens[e].list))
  BY DEF ButtonGoesQuiet, QuietBut
<1>1. PICK list \in Seq(Line), steps \in Seq(Shown) :
          list = screens[e].list /\ steps = screens[e].steps /\ StepsFit(steps, list)
  BY ViewIs
<1>2. list = InOrder(lines) /\ (Dirty(e) => UnderWay(steps, list, <<>>))
  BY <1>1, ViewIs DEF MoodFits
<1>3. EditorTypes /\ RowsFit
  BY DEF EditorInv
<1>4. /\ Ascending(list) /\ \A i \in DOMAIN list : list[i] \in lines
      /\ \A r \in lines : \E i \in DOMAIN list : list[i] = r
  BY <1>2, <1>3, LinesInOrder
<1>5. ASSUME Dirty(e)
      PROVE  QuietBut(steps, Removed(steps, list))
  <2>0. PICK drawn : drawn = Drawn(list)
    OBVIOUS
  <2>1. /\ drawn \in Seq(Shown) /\ drawn = Drawn(list) /\ DOMAIN drawn = DOMAIN list
        /\ \A i \in DOMAIN list : drawn[i].id = list[i].id /\ drawn[i].on = list[i].on
    <3>1. drawn \in Seq(Shown) /\ DOMAIN drawn = DOMAIN list
      BY <2>0, DrawnIs
    <3>2. ASSUME NEW i \in DOMAIN list PROVE drawn[i].id = list[i].id /\ drawn[i].on = list[i].on
      <4>1. drawn[i] = [name |-> <<"row", list[i].id>>, id |-> list[i].id, says |-> list[i].says, on |-> list[i].on]
        BY <2>0, DrawnIs
      <4> QED BY <4>1
    <3> QED BY <2>0, <3>1, <3>2
  <2>2. PICK places \in SUBSET DOMAIN drawn : places = {k \in DOMAIN list : \A i \in DOMAIN steps : steps[i].id # list[k].id}
    BY <2>1
  <2>3. PICK gone : gone = Removed(steps, list)
    OBVIOUS
  <2>4. gone = Kept(drawn, places)
    BY <2>1, <2>2, <2>3 DEF Removed
  <2>5. gone \in Seq(Shown)
    BY <2>1, <2>4, KeptIs
  <2>6. PICK n \in Nat : n = Len(gone) /\ DOMAIN gone = 1 .. n
    BY <2>5, LengthIs
  <2>7. PICK at : Ranks(at, n, places) /\ \A i \in 1 .. n : gone[i] = drawn[at[i]]
    BY <2>1, <2>4, <2>6, KeptIs
  <2>8. \A k \in places : ~Has(steps, list[k].id)
    BY <2>2 DEF Has
  <2>9. UnderWay(steps, list, <<>>)
    BY <1>2, <1>5
  <2>10. \A k \in places : ~list[k].on /\ list[k].id \in inQueue
    <3>1. \A k \in DOMAIN list : ~Has(steps, list[k].id) =>
              \A r \in lines : r.id = list[k].id => ~r.on /\ r.id \in inQueue
      BY <2>9 DEF UnderWay
    <3> QED BY <3>1, <2>2, <2>8, <1>4
  <2>11. ASSUME NEW i \in DOMAIN gone PROVE ~gone[i].on /\ gone[i].id \in inQueue
    <3>1. PICK k \in places : k = at[i]
      BY <2>6, <2>7 DEF Ranks
    <3>2. gone[i] = drawn[k] /\ k \in DOMAIN list
      BY <3>1, <2>2, <2>6, <2>7
    <3> QED BY <3>2, <2>1, <2>10
  <2>12. \A i \in DOMAIN steps :
            /\ steps[i].id # NoId
            /\ \E r \in lines : r.id = steps[i].id /\ r.says = BodyOf[steps[i].says] /\ r.on = steps[i].on
    <3>1. \A r \in lines : Has(list, r.id)
      BY <1>4 DEF Has
    <3>2. \A i \in DOMAIN steps :
              IF steps[i].id = NoId THEN \E r \in lines : ~Has(list, r.id)
              ELSE \E r \in lines : r.id = steps[i].id /\ r.says = BodyOf[steps[i].says] /\ r.on = steps[i].on
      BY <2>9 DEF UnderWay
    <3> QED BY <3>1, <3>2
  <2>13. ASSUME gone = <<>>, \A i \in DOMAIN steps : BodyOf[steps[i].says] = steps[i].says PROVE FALSE
    <3>1. n = 0
      BY <2>6, <2>13
    <3>2. places = {}
      BY <3>1, <2>7 DEF Ranks
    <3>3. \A k \in DOMAIN list : Has(steps, list[k].id)
      BY <3>2, <2>2 DEF Has
    <3>4. \A i \in DOMAIN steps : /\ steps[i].id # NoId
                                  /\ \E k \in DOMAIN list : /\ list[k].id = steps[i].id /\ list[k].says = steps[i].says
                                                            /\ list[k].on = steps[i].on
      BY <2>12, <2>13, <1>4
    <3>5. steps = Drawn(list)
      BY <3>3, <3>4, <1>1, <1>4, AllStepsAreDrawn
    <3> QED BY <3>5, <1>1, <1>5 DEF Dirty
  <2> QED BY <2>3, <2>11, <2>12, <2>13 DEF QuietBut
<1> QED BY <1>1, <1>2, <1>5

-----------------------------------------------------------------------------
(* The graph of a canvas                                                   *)

Slot == RowName \X {"delay", "condition", "send"}

LEMMA OneIs ==
    ASSUME NEW U, NEW u \in U
    PROVE  <<u>> \in Seq(U) /\ Len(<<u>>) = 1 /\ <<u>>[1] = u
<1>1. PICK s : s = [i \in 1 .. 1 |-> u]
  OBVIOUS
<1>2. s = <<u>>
  BY <1>1
<1>3. s \in [1 .. 1 -> U] /\ s[1] = u
  BY <1>1
<1>4. s \in Seq(U) /\ Len(s) = 1
  BY <1>3, LenIs
<1> QED BY <1>2, <1>3, <1>4

\* The slots of one step: its send is the last, its condition the one before.
LEMMA SlotsOfStep ==
    ASSUME NEW step \in Shown, NEW own, own = SlotsOf(step)
    PROVE  /\ own \in Seq(Slot) /\ 1 \in DOMAIN own
           /\ \A q \in DOMAIN own :
                 /\ own[q][1] = step.name /\ own[q] = <<own[q][1], own[q][2]>>
                 /\ own[q][2] = "send" => q = Len(own)
                 /\ own[q][2] = "condition" => q + 1 \in DOMAIN own /\ own[q + 1] = <<step.name, "send">>
<1>1. PICK name \in RowName : name = step.name
  BY DEF Shown
<1>2. PICK wait, ask, send : wait = <<name, "delay">> /\ ask = <<name, "condition">> /\ send = <<name, "send">>
  OBVIOUS
<1>3. wait \in Slot /\ ask \in Slot /\ send \in Slot
  BY <1>2 DEF Slot
<1>4. /\ wait[1] = name /\ wait[2] = "delay" /\ ask[1] = name /\ ask[2] = "condition"
      /\ send[1] = name /\ send[2] = "send"
  BY <1>2
<1>5. PICK A \in Seq(Slot) : /\ A = IF step.says \in Delayed THEN <<wait>> ELSE <<>>
                             /\ Len(A) \in {0, 1} /\ \A i \in 1 .. Len(A) : A[i] = wait
  <2>1. CASE step.says \in Delayed
    <3>1. PICK s : s = <<wait>> /\ s \in Seq(Slot) /\ Len(s) = 1 /\ s[1] = wait
      BY <1>3, OneIs
    <3>2. \A i \in 1 .. Len(s) : s[i] = wait
      <4>1. \A i \in 1 .. Len(s) : i = 1
        BY <3>1
      <4> QED BY <3>1, <4>1
    <3>3. s = IF step.says \in Delayed THEN <<wait>> ELSE <<>>
      BY <2>1, <3>1
    <3>4. Len(s) \in {0, 1}
      BY <3>1
    <3> QED BY <3>1, <3>2, <3>3, <3>4
  <2>2. CASE step.says \notin Delayed
    <3>1. PICK s : s = <<>> /\ s \in Seq(Slot) /\ Len(s) = 0
      BY EmptySeq
    <3>2. \A i \in 1 .. Len(s) : s[i] = wait
      BY <3>1
    <3>3. s = IF step.says \in Delayed THEN <<wait>> ELSE <<>>
      BY <2>2, <3>1
    <3>4. Len(s) \in {0, 1}
      BY <3>1
    <3> QED BY <3>1, <3>2, <3>3, <3>4
  <2> QED BY <2>1, <2>2
<1>6. PICK B \in Seq(Slot) : /\ B = IF step.says \in Guarded THEN <<ask>> ELSE <<>>
                             /\ Len(B) \in {0, 1} /\ \A i \in 1 .. Len(B) : B[i] = ask
  <2>1. CASE step.says \in Guarded
    <3>1. PICK s : s = <<ask>> /\ s \in Seq(Slot) /\ Len(s) = 1 /\ s[1] = ask
      BY <1>3, OneIs
    <3>2. \A i \in 1 .. Len(s) : s[i] = ask
      <4>1. \A i \in 1 .. Len(s) : i = 1
        BY <3>1
      <4> QED BY <3>1, <4>1
    <3>3. s = IF step.says \in Guarded THEN <<ask>> ELSE <<>>
      BY <2>1, <3>1
    <3>4. Len(s) \in {0, 1}
      BY <3>1
    <3> QED BY <3>1, <3>2, <3>3, <3>4
  <2>2. CASE step.says \notin Guarded
    <3>1. PICK s : s = <<>> /\ s \in Seq(Slot) /\ Len(s) = 0
      BY EmptySeq
    <3>2. \A i \in 1 .. Len(s) : s[i] = ask
      BY <3>1
    <3>3. s = IF step.says \in Guarded THEN <<ask>> ELSE <<>>
      BY <2>2, <3>1
    <3>4. Len(s) \in {0, 1}
      BY <3>1
    <3> QED BY <3>1, <3>2, <3>3, <3>4
  <2> QED BY <2>1, <2>2
<1>7. PICK C \in Seq(Slot) : C = <<send>> /\ Len(C) = 1 /\ C[1] = send
  BY <1>3, OneIs
<1>8. own = A \o B \o C
  BY <1>1, <1>2, <1>5, <1>6, <1>7 DEF SlotsOf
<1>9. PICK a \in {0, 1}, b \in {0, 1} : a = Len(A) /\ b = Len(B)
  BY <1>5, <1>6
<1>10. /\ own \in Seq(Slot) /\ Len(own) = a + b + 1
       /\ \A i \in 1 .. a : own[i] = wait
       /\ \A i \in 1 .. b : own[a + i] = ask
       /\ own[a + b + 1] = send
  <2>1. own \in Seq(Slot) /\ Len(own) = a + b + 1
    BY <1>7, <1>8, <1>9, ThreeParts
  <2>2. ASSUME NEW i \in 1 .. a PROVE own[i] = wait
    BY <2>2, <1>5, <1>8, <1>9, ThreeParts
  <2>3. ASSUME NEW i \in 1 .. b PROVE own[a + i] = ask
    <3>1. i \in 1 .. Len(B) /\ B[i] = ask
      BY <2>3, <1>6, <1>9
    <3>2. (A \o B \o C)[Len(A) + i] = B[i]
      BY <3>1, <1>7, ThreeParts
    <3> QED BY <3>1, <3>2, <1>8, <1>9
  <2>4. own[a + b + 1] = send
    <3>1. 1 \in 1 .. Len(C)
      BY <1>7
    <3> QED BY <3>1, <1>7, <1>8, <1>9, ThreeParts
  <2> QED BY <2>1, <2>2, <2>3, <2>4
<1>11. DOMAIN own = 1 .. a + b + 1
  BY <1>10, LengthIs
<1>12. ASSUME NEW q \in DOMAIN own
       PROVE  \/ own[q] = wait
              \/ b = 1 /\ q = a + 1 /\ own[q] = ask
              \/ q = a + b + 1 /\ own[q] = send
  <2>1. q \in Int /\ (q \in 1 .. a \/ (b = 1 /\ q = a + 1) \/ q = a + b + 1)
    BY <1>11
  <2>2. CASE q \in 1 .. a
    BY <2>2, <1>10
  <2>3. CASE b = 1 /\ q = a + 1
    <3>1. 1 \in 1 .. b
      BY <2>3
    <3> QED BY <2>3, <3>1, <1>10
  <2>4. CASE q = a + b + 1
    BY <2>4, <1>10
  <2> QED BY <2>1, <2>2, <2>3, <2>4
<1>13. ASSUME NEW q \in DOMAIN own
       PROVE  /\ own[q][1] = step.name /\ own[q] = <<own[q][1], own[q][2]>>
              /\ own[q][2] = "send" => q = Len(own)
              /\ own[q][2] = "condition" => q + 1 \in DOMAIN own /\ own[q + 1] = <<step.name, "send">>
  <2>1. CASE own[q] = wait
    BY <2>1, <1>1, <1>2, <1>4
  <2>2. CASE b = 1 /\ q = a + 1 /\ own[q] = ask
    <3>1. q + 1 = a + b + 1 /\ q + 1 \in DOMAIN own
      BY <2>2, <1>11
    <3> QED BY <2>2, <3>1, <1>1, <1>2, <1>4, <1>10
  <2>3. CASE q = a + b + 1 /\ own[q] = send
    BY <2>3, <1>1, <1>2, <1>4, <1>10
  <2> QED BY <2>1, <2>2, <2>3, <1>12
<1>14. 1 \in DOMAIN own
  BY <1>11
<1> QED BY <1>10, <1>13, <1>14

(***************************************************************************)
(* The slots of the first n steps: after the send of one comes the first   *)
(* slot of the next, and after a condition its own send.                   *)
(***************************************************************************)
Threads(slots, steps, n) ==
    /\ \A p \in DOMAIN slots :
          slots[p] = <<slots[p][1], slots[p][2]>> /\ \E k \in 1 .. n : slots[p][1] = steps[k].name
    /\ \A p \in DOMAIN slots, k \in 1 .. n : slots[p][1] = steps[k].name =>
          /\ slots[p][2] = "send" => IF k = n THEN p = Len(slots)
                                     ELSE p + 1 \in DOMAIN slots /\ slots[p + 1] = SlotsOf(steps[k + 1])[1]
          /\ slots[p][2] = "condition" => p + 1 \in DOMAIN slots /\ slots[p + 1] = <<steps[k].name, "send">>
    /\ n > 0 => 1 \in DOMAIN slots /\ slots[1] = SlotsOf(steps[1])[1]
    /\ n = 0 => slots = <<>>

LEMMA OneMoreStep ==
    ASSUME NEW steps \in Seq(Shown), \A i, j \in DOMAIN steps : steps[i].name = steps[j].name => i = j,
           NEW n \in Nat, n + 1 \in DOMAIN steps, NEW slots \in Seq(Slot), Threads(slots, steps, n),
           NEW more, more = slots \o SlotsOf(steps[n + 1])
    PROVE  more \in Seq(Slot) /\ Threads(more, steps, n + 1)
<1>1. PICK step \in Shown : step = steps[n + 1]
  BY LengthIs
<1>2. PICK own : own = SlotsOf(step)
  OBVIOUS
<1>3. /\ own \in Seq(Slot) /\ 1 \in DOMAIN own
      /\ \A q \in DOMAIN own :
            /\ own[q][1] = step.name /\ own[q] = <<own[q][1], own[q][2]>>
            /\ own[q][2] = "send" => q = Len(own)
            /\ own[q][2] = "condition" => q + 1 \in DOMAIN own /\ own[q + 1] = <<step.name, "send">>
  BY <1>2, SlotsOfStep
<1>4. PICK a \in Nat : a = Len(slots) /\ DOMAIN slots = 1 .. a
  BY LengthIs
<1>5. PICK b \in Nat : b = Len(own) /\ DOMAIN own = 1 .. b
  BY <1>3, LengthIs
<1>6. /\ more \in Seq(Slot) /\ Len(more) = a + b /\ DOMAIN more = 1 .. a + b
      /\ \A p \in 1 .. a + b : more[p] = IF p <= a THEN slots[p] ELSE own[p - a]
  <2>1. more = slots \o own
    BY <1>1, <1>2
  <2>2. /\ more \in Seq(Slot) /\ Len(more) = a + b
        /\ \A p \in 1 .. a + b : more[p] = IF p <= a THEN slots[p] ELSE own[p - a]
    BY <2>1, <1>3, <1>4, <1>5, ConcatProperties
  <2> QED BY <2>2, LengthIs
<1>7. ASSUME NEW p \in 1 .. a + b
      PROVE  \/ p \in 1 .. a /\ more[p] = slots[p]
             \/ p - a \in 1 .. b /\ more[p] = own[p - a] /\ ~(p <= a)
  BY <1>6, SMTT(30)
<1>8. \A k \in 1 .. n : k \in DOMAIN steps /\ k # n + 1 /\ k \in 1 .. n + 1
  <2>1. PICK m \in Nat : DOMAIN steps = 1 .. m
    BY LengthIs
  <2> QED BY <2>1
<1>9. ASSUME NEW k \in 1 .. n PROVE steps[k].name # step.name
  BY <1>1, <1>8
<1>10. 1 \in 1 .. b /\ a + 1 \in 1 .. a + b /\ more[a + 1] = own[1]
  <2>1. b >= 1 /\ a + 1 \in 1 .. a + b
    BY <1>3, <1>5
  <2>2. more[a + 1] = own[a + 1 - a]
    BY <2>1, <1>6
  <2>3. a + 1 - a = 1
    OBVIOUS
  <2> QED BY <2>1, <2>2, <2>3
<1>11. ASSUME NEW p \in 1 .. a + b
       PROVE  more[p] = <<more[p][1], more[p][2]>> /\ \E k \in 1 .. n + 1 : more[p][1] = steps[k].name
  <2>1. CASE p \in 1 .. a /\ more[p] = slots[p]
    <3>1. slots[p] = <<slots[p][1], slots[p][2]>> /\ \E k \in 1 .. n : slots[p][1] = steps[k].name
      BY <2>1, <1>4 DEF Threads
    <3> QED BY <2>1, <3>1, <1>8
  <2>2. CASE p - a \in 1 .. b /\ more[p] = own[p - a]
    <3>1. own[p - a][1] = step.name /\ own[p - a] = <<own[p - a][1], own[p - a][2]>>
      BY <2>2, <1>3, <1>5
    <3>2. n + 1 \in 1 .. n + 1
      OBVIOUS
    <3> QED BY <2>2, <3>1, <3>2, <1>1
  <2> QED BY <2>1, <2>2, <1>7
<1>12. ASSUME NEW p \in 1 .. a + b, NEW k \in 1 .. n + 1, more[p][1] = steps[k].name
       PROVE  /\ more[p][2] = "send" => IF k = n + 1 THEN p = Len(more)
                                        ELSE p + 1 \in DOMAIN more /\ more[p + 1] = SlotsOf(steps[k + 1])[1]
              /\ more[p][2] = "condition" => p + 1 \in DOMAIN more /\ more[p + 1] = <<steps[k].name, "send">>
  <2>1. CASE p \in 1 .. a /\ more[p] = slots[p]
    <3>1. PICK j \in 1 .. n : slots[p][1] = steps[j].name
      BY <2>1, <1>4 DEF Threads
    <3>2. j = k
      BY <2>1, <3>1, <1>8, <1>12
    <3>3. /\ slots[p][2] = "send" => IF k = n THEN p = Len(slots)
                                     ELSE p + 1 \in DOMAIN slots /\ slots[p + 1] = SlotsOf(steps[k + 1])[1]
          /\ slots[p][2] = "condition" => p + 1 \in DOMAIN slots /\ slots[p + 1] = <<steps[k].name, "send">>
      BY <2>1, <3>1, <3>2, <1>4 DEF Threads
    <3>4. ASSUME p + 1 \in DOMAIN slots PROVE p + 1 \in DOMAIN more /\ more[p + 1] = slots[p + 1]
      BY <3>4, <1>4, <1>6
    <3>5. k # n + 1
      BY <3>2
    <3>6. CASE more[p][2] = "send" /\ k = n
      <4>1. p = a
        BY <2>1, <3>3, <3>6, <1>4
      <4>2. more[p + 1] = SlotsOf(steps[k + 1])[1] /\ p + 1 \in DOMAIN more
        BY <4>1, <3>6, <1>1, <1>2, <1>6, <1>10
      <4> QED BY <4>2, <3>5, <3>6
    <3>7. CASE more[p][2] = "send" /\ k # n
      BY <2>1, <3>3, <3>4, <3>5, <3>7
    <3>8. CASE more[p][2] = "condition"
      BY <2>1, <3>3, <3>4, <3>8
    <3> QED BY <3>6, <3>7, <3>8
  <2>2. CASE p - a \in 1 .. b /\ more[p] = own[p - a] /\ ~(p <= a)
    <3>1. PICK q \in DOMAIN own : q = p - a /\ q \in Int /\ p = a + q
      BY <2>2, <1>4, <1>5
    <3>2. /\ own[q][1] = step.name
          /\ own[q][2] = "send" => q = Len(own)
          /\ own[q][2] = "condition" => q + 1 \in DOMAIN own /\ own[q + 1] = <<step.name, "send">>
      BY <1>3
    <3>3. k = n + 1
      <4>1. steps[k].name = steps[n + 1].name
        BY <2>2, <3>1, <3>2, <1>1, <1>12
      <4>2. k \in 1 .. n \/ k = n + 1
        OBVIOUS
      <4> QED BY <4>1, <4>2, <1>1, <1>9
    <3>4. own[q][2] = "send" => p = Len(more)
      BY <3>1, <3>2, <1>5, <1>6
    <3>5. ASSUME q + 1 \in DOMAIN own PROVE p + 1 \in DOMAIN more /\ more[p + 1] = own[q + 1]
      <4>1. p + 1 \in 1 .. a + b /\ ~(p + 1 <= a) /\ p + 1 - a = q + 1
        BY <2>2, <3>1, <3>5, <1>5, SMTT(30)
      <4>2. more[p + 1] = own[p + 1 - a]
        BY <4>1, <1>6
      <4> QED BY <4>1, <4>2, <1>6
    <3> QED BY <2>2, <3>1, <3>2, <3>3, <3>4, <3>5, <1>1
  <2> QED BY <2>1, <2>2, <1>7
<1>13. 1 \in DOMAIN more /\ more[1] = SlotsOf(steps[1])[1]
  <2>1. CASE n = 0
    <3>1. a = 0
      BY <2>1, <1>4, EmptySeq DEF Threads
    <3> QED BY <2>1, <3>1, <1>1, <1>2, <1>6, <1>10
  <2>2. CASE n > 0
    <3>1. 1 \in DOMAIN slots /\ slots[1] = SlotsOf(steps[1])[1]
      BY <2>2 DEF Threads
    <3> QED BY <3>1, <1>4, <1>6
  <2> QED BY <2>1, <2>2
<1>14. \A p \in DOMAIN more :
           more[p] = <<more[p][1], more[p][2]>> /\ \E k \in 1 .. n + 1 : more[p][1] = steps[k].name
  BY <1>6, <1>11
<1>15. \A p \in DOMAIN more, k \in 1 .. n + 1 : more[p][1] = steps[k].name =>
          /\ more[p][2] = "send" => IF k = n + 1 THEN p = Len(more)
                                    ELSE p + 1 \in DOMAIN more /\ more[p + 1] = SlotsOf(steps[k + 1])[1]
          /\ more[p][2] = "condition" => p + 1 \in DOMAIN more /\ more[p + 1] = <<steps[k].name, "send">>
  BY <1>6, <1>12
<1>16. n + 1 # 0
  OBVIOUS
<1>17. Threads(more, steps, n + 1)
  BY <1>13, <1>14, <1>15, <1>16, Zenon DEF Threads
<1> QED BY <1>6, <1>17

\* The lists that Slots builds up exist.
LEMMA SlotsExist ==
    ASSUME NEW steps \in Seq(Shown)
    PROVE  \E upTo : upTo = [n \in 0 .. Len(steps) |-> IF n = 0 THEN <<>> ELSE upTo[n - 1] \o SlotsOf(steps[n])]
<1> DEFINE Built(m) == \E f : /\ DOMAIN f = 0 .. m /\ f = [n \in 0 .. m |-> f[n]] /\ f[0] = <<>>
                              /\ \A n \in 1 .. m : f[n] = f[n - 1] \o SlotsOf(steps[n])
<1>0. Len(steps) \in Nat
  BY LengthIs
<1>1. Built(0)
  <2>1. PICK f : f = [n \in 0 .. 0 |-> <<>>]
    OBVIOUS
  <2>2. DOMAIN f = 0 .. 0 /\ f[0] = <<>> /\ f = [n \in 0 .. 0 |-> f[n]] /\ \A n \in 1 .. 0 : FALSE
    BY <2>1
  <2> QED BY <2>2
<1>2. ASSUME NEW m \in Nat, Built(m) PROVE Built(m + 1)
  <2>1. PICK f : /\ DOMAIN f = 0 .. m /\ f[0] = <<>>
                 /\ \A n \in 1 .. m : f[n] = f[n - 1] \o SlotsOf(steps[n])
    BY <1>2
  <2>2. PICK next : next = f[m] \o SlotsOf(steps[m + 1])
    OBVIOUS
  <2>3. PICK g : g = [n \in 0 .. m + 1 |-> IF n = m + 1 THEN next ELSE f[n]]
    OBVIOUS
  <2>4. DOMAIN g = 0 .. m + 1 /\ g[0] = <<>> /\ g = [n \in 0 .. m + 1 |-> g[n]]
    BY <2>1, <2>3
  <2>5. ASSUME NEW n \in 1 .. m + 1 PROVE g[n] = g[n - 1] \o SlotsOf(steps[n])
    <3>1. CASE n = m + 1
      <4>1. g[n] = next /\ g[n - 1] = f[m]
        BY <2>3, <3>1
      <4> QED BY <4>1, <2>2, <3>1
    <3>2. CASE n \in 1 .. m
      <4>1. g[n] = f[n] /\ g[n - 1] = f[n - 1]
        BY <2>3, <3>2
      <4> QED BY <4>1, <2>1, <3>2
    <3>3. n = m + 1 \/ n \in 1 .. m
      OBVIOUS
    <3> QED BY <3>1, <3>2, <3>3
  <2> QED BY <2>4, <2>5
<1> HIDE DEF Built
<1>3. Built(Len(steps))
  <2> SUFFICES ASSUME ~Built(Len(steps)) PROVE FALSE
    OBVIOUS
  <2>1. PICK m \in Nat : ~Built(m) /\ \A k \in Nat : ~Built(k) => m <= k
    <3>1. PICK S \in SUBSET Nat : S = {m \in Nat : ~Built(m)}
      OBVIOUS
    <3>2. S # {}
      BY <3>1, <1>0
    <3> QED BY <3>1, <3>2, LeastOf
  <2>2. m # 0 /\ m - 1 \in Nat /\ m - 1 < m /\ m - 1 + 1 = m
    BY <1>1, <2>1
  <2>3. Built(m - 1)
    BY <2>1, <2>2
  <2>4. Built(m - 1 + 1)
    BY <2>2, <2>3, <1>2
  <2> QED BY <2>1, <2>2, <2>4
<1>4. PICK f : /\ f = [n \in 0 .. Len(steps) |-> f[n]] /\ f[0] = <<>>
               /\ \A n \in 1 .. Len(steps) : f[n] = f[n - 1] \o SlotsOf(steps[n])
  BY <1>3 DEF Built
<1>5. \A n \in 0 .. Len(steps) : n # 0 => n \in 1 .. Len(steps)
  BY <1>0
<1>6. \A n \in 0 .. Len(steps) : f[n] = IF n = 0 THEN <<>> ELSE f[n - 1] \o SlotsOf(steps[n])
  BY <1>4, <1>5
<1>7. f = [n \in 0 .. Len(steps) |-> IF n = 0 THEN <<>> ELSE f[n - 1] \o SlotsOf(steps[n])]
  BY <1>4, <1>6
<1> QED BY <1>7

LEMMA SlotsThread ==
    ASSUME NEW steps \in Seq(Shown), \A i, j \in DOMAIN steps : steps[i].name = steps[j].name => i = j
    PROVE  Slots(steps) \in Seq(Slot) /\ Threads(Slots(steps), steps, Len(steps))
<1>0. Len(steps) \in Nat /\ DOMAIN steps = 1 .. Len(steps)
  BY LengthIs
<1>1. PICK upTo : /\ upTo = [n \in 0 .. Len(steps) |-> IF n = 0 THEN <<>> ELSE upTo[n - 1] \o SlotsOf(steps[n])]
                  /\ Slots(steps) = upTo[Len(steps)]
  <2>1. PICK f : f = CHOOSE upTo : upTo = [n \in 0 .. Len(steps) |->
                                              IF n = 0 THEN <<>> ELSE upTo[n - 1] \o SlotsOf(steps[n])]
    OBVIOUS
  <2>2. f = [n \in 0 .. Len(steps) |-> IF n = 0 THEN <<>> ELSE f[n - 1] \o SlotsOf(steps[n])]
    BY <2>1, SlotsExist, Zenon
  <2>3. Slots(steps) = f[Len(steps)]
    BY <2>1 DEF Slots
  <2> QED BY <2>2, <2>3
<1>2. upTo[0] = <<>> /\ \A n \in 1 .. Len(steps) : upTo[n] = upTo[n - 1] \o SlotsOf(steps[n])
  <2>1. 0 \in 0 .. Len(steps) /\ \A n \in 1 .. Len(steps) : n \in 0 .. Len(steps) /\ n # 0
    BY <1>0
  <2> QED BY <1>1, <2>1
<1> DEFINE Good(n) == upTo[n] \in Seq(Slot) /\ Threads(upTo[n], steps, n)
<1>3. Good(0)
  <2>0. PICK none : none = <<>> /\ none \in Seq(Slot) /\ Len(none) = 0
    BY EmptySeq
  <2>1. none = <<>> /\ none \in Seq(Slot) /\ DOMAIN none = {}
    BY <2>0, LengthIs
  <2>2. Threads(none, steps, 0)
    BY <2>1 DEF Threads
  <2> QED BY <2>1, <2>2, <1>2
<1>4. ASSUME NEW n \in Nat, n + 1 \in DOMAIN steps, Good(n) PROVE Good(n + 1)
  <2>1. upTo[n + 1] = upTo[n] \o SlotsOf(steps[n + 1])
    <3>1. PICK k \in 1 .. Len(steps) : k = n + 1 /\ k - 1 = n
      BY <1>0, <1>4
    <3>2. upTo[k] = upTo[k - 1] \o SlotsOf(steps[k])
      BY <1>2
    <3> QED BY <3>1, <3>2
  <2>2. PICK slots \in Seq(Slot) : slots = upTo[n] /\ Threads(slots, steps, n)
    BY <1>4
  <2>3. PICK more : more = upTo[n + 1] /\ more = slots \o SlotsOf(steps[n + 1])
    BY <2>1, <2>2
  <2>4. more \in Seq(Slot) /\ Threads(more, steps, n + 1)
    BY <2>2, <2>3, <1>4, OneMoreStep
  <2> QED BY <2>3, <2>4
<1> HIDE DEF Good
<1>5. Good(Len(steps))
  <2> SUFFICES ASSUME ~Good(Len(steps)) PROVE FALSE
    OBVIOUS
  <2>1. PICK m \in Nat : /\ m <= Len(steps) /\ ~Good(m)
                         /\ \A k \in Nat : k <= Len(steps) /\ ~Good(k) => m <= k
    <3>1. PICK S \in SUBSET Nat : S = {m \in Nat : m <= Len(steps) /\ ~Good(m)}
      OBVIOUS
    <3>2. Len(steps) \in S
      BY <3>1, <1>0
    <3> QED BY <3>1, <3>2, LeastOf
  <2>2. m # 0 /\ m - 1 \in Nat /\ m - 1 < m /\ m - 1 + 1 = m /\ m \in DOMAIN steps /\ m - 1 <= Len(steps)
    BY <1>0, <1>3, <2>1
  <2>3. Good(m - 1)
    BY <2>1, <2>2
  <2>4. Good(m - 1 + 1)
    BY <2>2, <2>3, <1>4
  <2> QED BY <2>1, <2>2, <2>4
<1> QED BY <1>1, <1>5 DEF Good

LEMMA GraphsAreSequences == EditorInv => GraphIsTheSequence
<1> SUFFICES ASSUME EditorInv, NEW e \in Screen
             PROVE  LET steps == screens[e].steps
                        links == Links(Slots(steps))
                        Begin(i) == IF i > Len(steps) THEN <<NoName, "exit">> ELSE SlotsOf(steps[i])[1]
                    IN  /\ \A i \in DOMAIN steps : \A link \in links :
                              /\ link[1] = <<steps[i].name, "send">> => link[3] = Begin(i + 1)
                              /\ link[1] = <<steps[i].name, "condition">> =>
                                    link[3] = IF link[2] = "yes" THEN <<steps[i].name, "send">> ELSE Begin(i + 1)
                        /\ \A link \in links : link[1] = <<NoName, "trigger">> => link[3] = Begin(1)
  BY DEF GraphIsTheSequence
<1>1. PICK steps \in Seq(Shown) : steps = screens[e].steps /\ StepsFit(steps, screens[e].list)
  BY ViewIs
<1>2. \A i, j \in DOMAIN steps : steps[i].name = steps[j].name => i = j
  BY <1>1, SameStep
<1>3. PICK n \in Nat : n = Len(steps) /\ DOMAIN steps = 1 .. n
  BY LengthIs
<1>4. PICK slots \in Seq(Slot) : slots = Slots(steps) /\ Threads(slots, steps, n)
  BY <1>2, <1>3, SlotsThread
<1>5. PICK m \in Nat : m = Len(slots) /\ DOMAIN slots = 1 .. m
  BY LengthIs
<1> DEFINE Start(i) == IF i > n THEN <<NoName, "exit">> ELSE SlotsOf(steps[i])[1]
<1>6. ASSUME NEW i \in 1 .. n, NEW p \in 1 .. m, slots[p] = <<steps[i].name, "send">>
      PROVE  SlotAt(slots, p + 1) = Start(i + 1)
  <2>1. slots[p][1] = steps[i].name /\ slots[p][2] = "send"
    BY <1>6
  <2>2. IF i = n THEN p = m ELSE p + 1 \in DOMAIN slots /\ slots[p + 1] = SlotsOf(steps[i + 1])[1]
    BY <2>1, <1>4, <1>5 DEF Threads
  <2>3. CASE i = n
    <3>1. p + 1 \notin DOMAIN slots /\ i + 1 > n
      BY <2>2, <2>3, <1>5
    <3> QED BY <3>1 DEF SlotAt
  <2>4. CASE i # n
    <3>1. ~(i + 1 > n)
      BY <2>4
    <3> QED BY <2>2, <2>4, <3>1 DEF SlotAt
  <2> QED BY <2>3, <2>4
<1>7. ASSUME NEW i \in 1 .. n, NEW p \in 1 .. m, slots[p] = <<steps[i].name, "condition">>
      PROVE  SlotAt(slots, p + 1) = <<steps[i].name, "send">> /\ SlotAt(slots, p + 2) = Start(i + 1)
  <2>1. slots[p][1] = steps[i].name /\ slots[p][2] = "condition"
    BY <1>7
  <2>2. p + 1 \in DOMAIN slots /\ slots[p + 1] = <<steps[i].name, "send">>
    BY <2>1, <1>4, <1>5 DEF Threads
  <2>3. SlotAt(slots, p + 1) = <<steps[i].name, "send">>
    BY <2>2 DEF SlotAt
  <2>4. SlotAt(slots, p + 1 + 1) = Start(i + 1)
    BY <2>2, <1>5, <1>6
  <2>5. p + 1 + 1 = p + 2
    OBVIOUS
  <2> QED BY <2>3, <2>4, <2>5
<1>8. SlotAt(slots, 1) = Start(1)
  <2>1. CASE n = 0
    <3>1. 1 \notin DOMAIN slots
      BY <2>1, <1>4, EmptySeq DEF Threads
    <3> QED BY <2>1, <3>1 DEF SlotAt
  <2>2. CASE n > 0
    <3>1. 1 \in DOMAIN slots /\ slots[1] = SlotsOf(steps[1])[1] /\ ~(1 > n)
      BY <2>2, <1>4 DEF Threads
    <3> QED BY <3>1 DEF SlotAt
  <2> QED BY <2>1, <2>2
<1>9. ASSUME NEW p \in 1 .. m PROVE slots[p] = <<slots[p][1], slots[p][2]>> /\ slots[p][2] \in {"delay", "condition", "send"}
  <2>1. slots[p] \in Slot
    BY <1>5, LengthIs
  <2> QED BY <2>1 DEF Slot
<1> HIDE DEF Start
<1>10. ASSUME NEW link \in Links(slots)
       PROVE  /\ \A i \in 1 .. n :
                    /\ link[1] = <<steps[i].name, "send">> => link[3] = Start(i + 1)
                    /\ link[1] = <<steps[i].name, "condition">> =>
                          link[3] = IF link[2] = "yes" THEN <<steps[i].name, "send">> ELSE Start(i + 1)
              /\ link[1] = <<NoName, "trigger">> => link[3] = Start(1)
  <2>1. \/ link = <<<<NoName, "trigger">>, "on", SlotAt(slots, 1)>>
        \/ \E p \in DOMAIN slots :
              link = <<slots[p], IF slots[p][2] = "condition" THEN "yes" ELSE "on", SlotAt(slots, p + 1)>>
        \/ \E p \in DOMAIN slots : slots[p][2] = "condition" /\ link = <<slots[p], "no", SlotAt(slots, p + 2)>>
    BY DEF Links
  <2>2. CASE link = <<<<NoName, "trigger">>, "on", SlotAt(slots, 1)>>
    <3>1. link[1] = <<NoName, "trigger">> /\ link[3] = SlotAt(slots, 1)
      BY <2>2
    <3>2. \A name : <<NoName, "trigger">> # <<name, "send">> /\ <<NoName, "trigger">> # <<name, "condition">>
      OBVIOUS
    <3> QED BY <3>1, <3>2, <1>8
  <2>3. ASSUME NEW p \in DOMAIN slots,
               link = <<slots[p], IF slots[p][2] = "condition" THEN "yes" ELSE "on", SlotAt(slots, p + 1)>>
        PROVE  /\ \A i \in 1 .. n :
                    /\ link[1] = <<steps[i].name, "send">> => link[3] = Start(i + 1)
                    /\ link[1] = <<steps[i].name, "condition">> =>
                          link[3] = IF link[2] = "yes" THEN <<steps[i].name, "send">> ELSE Start(i + 1)
               /\ link[1] = <<NoName, "trigger">> => link[3] = Start(1)
    <3>1. /\ link[1] = slots[p] /\ link[2] = IF slots[p][2] = "condition" THEN "yes" ELSE "on"
          /\ link[3] = SlotAt(slots, p + 1)
      BY <2>3
    <3>2. ASSUME NEW i \in 1 .. n, slots[p] = <<steps[i].name, "send">> PROVE link[3] = Start(i + 1)
      BY <3>1, <3>2, <1>5, <1>6
    <3>3. ASSUME NEW i \in 1 .. n, slots[p] = <<steps[i].name, "condition">>
          PROVE  link[3] = <<steps[i].name, "send">> /\ link[2] = "yes"
      <4>1. slots[p][2] = "condition"
        BY <3>3
      <4> QED BY <3>1, <3>3, <4>1, <1>5, <1>7
    <3>4. slots[p] # <<NoName, "trigger">>
      BY <1>5, <1>9
    <3> QED BY <3>1, <3>2, <3>3, <3>4
  <2>4. ASSUME NEW p \in DOMAIN slots, slots[p][2] = "condition", link = <<slots[p], "no", SlotAt(slots, p + 2)>>
        PROVE  /\ \A i \in 1 .. n :
                    /\ link[1] = <<steps[i].name, "send">> => link[3] = Start(i + 1)
                    /\ link[1] = <<steps[i].name, "condition">> =>
                          link[3] = IF link[2] = "yes" THEN <<steps[i].name, "send">> ELSE Start(i + 1)
               /\ link[1] = <<NoName, "trigger">> => link[3] = Start(1)
    <3>1. link[1] = slots[p] /\ link[2] = "no" /\ link[3] = SlotAt(slots, p + 2)
      BY <2>4
    <3>2. ASSUME NEW i \in 1 .. n PROVE slots[p] # <<steps[i].name, "send">>
      BY <2>4
    <3>3. ASSUME NEW i \in 1 .. n, slots[p] = <<steps[i].name, "condition">> PROVE link[3] = Start(i + 1)
      BY <3>1, <3>3, <1>5, <1>7
    <3>4. slots[p] # <<NoName, "trigger">>
      BY <1>5, <1>9
    <3> QED BY <3>1, <3>2, <3>3, <3>4
  <2> QED BY <2>1, <2>2, <2>3, <2>4
<1>11. \A i \in DOMAIN steps : \A link \in Links(slots) :
          /\ link[1] = <<steps[i].name, "send">> => link[3] = Start(i + 1)
          /\ link[1] = <<steps[i].name, "condition">> =>
                link[3] = IF link[2] = "yes" THEN <<steps[i].name, "send">> ELSE Start(i + 1)
  BY <1>3, <1>10
<1>12. \A link \in Links(slots) : link[1] = <<NoName, "trigger">> => link[3] = Start(1)
  BY <1>10
<1> QED BY <1>1, <1>3, <1>4, <1>11, <1>12 DEF Start

(***************************************************************************)
(* For any number of screens, saves, drafts and rows: a save of the canvas *)
(* that nobody disturbs is stopped by nothing but a draft the server will  *)
(* not send and leaves what was on the screen, numbered from 1; the button *)
(* then goes quiet; and the graph that is drawn is the sequence of the     *)
(* messages (CampaignEditor.tsx, campaign/Journey.tsx, campaign/           *)
(* Messages.tsx).                                                          *)
(***************************************************************************)
THEOREM EditorKeepsItsPromise == ServicesSpec => []EditorHolds
<1>1. ServicesInit => EditorInv
  BY EditorStart DEF ServicesInit
<1>2. EditorInv /\ [ServicesNext]_servicesVars => EditorInv'
  <2>1. [ServicesNext]_servicesVars => [TabNext]_tabVars
    BY DEF ServicesNext, servicesVars
  <2> QED BY <2>1, EditorStep
<1>3. EditorInv => EditorHolds
  BY EditorTyped, CalmSavesLand, ButtonsGoQuiet, GraphsAreSequences DEF EditorHolds
<1> QED BY <1>1, <1>2, <1>3, PTL DEF ServicesSpec
-----------------------------------------------------------------------------
(* The journey canvas                                                      *)

\* A property of the naturals that starts at 0 and goes on.
Grows(S) == 0 \in S /\ \A n \in S : n + 1 \in S

LEMMA AllNaturals ==
    ASSUME NEW S, Grows(S)
    PROVE  \A n \in Nat : n \in S
<1> SUFFICES ASSUME \E n \in Nat : n \notin S PROVE FALSE
  OBVIOUS
<1>1. PICK T \in SUBSET Nat : T = {n \in Nat : n \notin S}
  OBVIOUS
<1>2. PICK n \in T : \A m \in T : n <= m
  BY <1>1, LeastOf
<1>3. n # 0 /\ n - 1 \in Nat /\ n - 1 \in S
  BY <1>1, <1>2 DEF Grows
<1>4. n - 1 + 1 \in S
  BY <1>3 DEF Grows
<1> QED BY <1>1, <1>2, <1>3, <1>4

\* How many of some things come no later than one of them.
Rating(S, place, e) == Cardinality({f \in S : place[f] <= place[e]})

\* Things with a place of their own can be numbered.
LEMMA Rated ==
    ASSUME NEW S, IsFiniteSet(S), NEW place \in [S -> Int], \A e, f \in S : place[e] = place[f] => e = f
    PROVE  /\ Cardinality(S) \in Nat
           /\ \A e \in S : Rating(S, place, e) \in 1 .. Cardinality(S)
           /\ \A e, f \in S : place[e] < place[f] => Rating(S, place, e) < Rating(S, place, f)
           /\ \A e, f \in S : Rating(S, place, e) = Rating(S, place, f) => e = f
           /\ \A i \in 1 .. Cardinality(S) : \E e \in S : Rating(S, place, e) = i
<1> DEFINE Upto(e) == {f \in S : place[f] <= place[e]}
<1>1. PICK n \in Nat : n = Cardinality(S)
  BY FS_CardinalityType
<1>2. ASSUME NEW e \in S PROVE /\ IsFiniteSet(Upto(e)) /\ Rating(S, place, e) = Cardinality(Upto(e))
                               /\ Rating(S, place, e) \in 1 .. n
  <2>1. Upto(e) \in SUBSET S /\ e \in Upto(e)
    OBVIOUS
  <2>2. IsFiniteSet(Upto(e)) /\ Cardinality(Upto(e)) <= n
    BY <2>1, <1>1, FS_Subset
  <2>3. Cardinality(Upto(e)) \in Nat /\ Cardinality(Upto(e)) # 0
    BY <2>1, <2>2, FS_CardinalityType, FS_EmptySet
  <2>4. Cardinality(Upto(e)) \in 1 .. n
    BY <2>2, <2>3
  <2> QED BY <2>2, <2>4 DEF Rating
<1>3. ASSUME NEW e \in S, NEW f \in S, place[e] < place[f]
      PROVE  Rating(S, place, e) < Rating(S, place, f)
  <2>1. Upto(e) \in SUBSET Upto(f) /\ f \in Upto(f) /\ f \notin Upto(e)
    BY <1>3
  <2>2. Upto(e) # Upto(f)
    BY <2>1
  <2>3. Cardinality(Upto(e)) <= Cardinality(Upto(f)) /\ Cardinality(Upto(e)) # Cardinality(Upto(f))
    BY <2>1, <2>2, <1>2, FS_Subset
  <2>4. /\ Rating(S, place, e) = Cardinality(Upto(e)) /\ Rating(S, place, f) = Cardinality(Upto(f))
        /\ Rating(S, place, e) \in 1 .. n /\ Rating(S, place, f) \in 1 .. n
    BY <1>2
  <2>5. Rating(S, place, e) <= Rating(S, place, f) /\ Rating(S, place, e) # Rating(S, place, f)
    BY <2>3, <2>4
  <2> QED BY <2>4, <2>5
<1>4. ASSUME NEW e \in S, NEW f \in S, Rating(S, place, e) = Rating(S, place, f) PROVE e = f
  <2>1. Rating(S, place, e) \in Nat /\ Rating(S, place, f) \in Nat
    <3>1. Rating(S, place, e) \in 1 .. n /\ Rating(S, place, f) \in 1 .. n
      BY <1>2
    <3> QED BY <3>1, <1>1
  <2>2. ~(place[e] < place[f])
    <3>1. place[e] < place[f] => Rating(S, place, e) < Rating(S, place, f)
      BY <1>3
    <3> QED BY <3>1, <2>1, <1>4
  <2>3. ~(place[f] < place[e])
    <3>1. place[f] < place[e] => Rating(S, place, f) < Rating(S, place, e)
      BY <1>3
    <3> QED BY <3>1, <2>1, <1>4
  <2>4. place[e] \in Int /\ place[f] \in Int
    OBVIOUS
  <2> QED BY <2>2, <2>3, <2>4
<1>5. PICK rate : rate = [e \in S |-> Rating(S, place, e)]
  OBVIOUS
<1>6. rate \in Injection(S, 1 .. n)
  <2>1. rate \in [S -> 1 .. n]
    BY <1>2, <1>5
  <2>2. \A e, f \in S : rate[e] = rate[f] => e = f
    BY <1>4, <1>5
  <2> QED BY <2>1, <2>2 DEF Injection, IsInjective
<1>7. rate \in Surjection(S, 1 .. n)
  <2>1. IsFiniteSet(1 .. n) /\ Cardinality(1 .. n) = n
    BY FS_Interval
  <2> QED BY <2>1, <1>1, <1>6, FS_Injection
<1>8. \A i \in 1 .. n : \E e \in S : rate[e] = i
  BY <1>7 DEF Surjection
<1> QED BY <1>1, <1>2, <1>3, <1>4, <1>5, <1>8

\* A part of a list, from some place on.
Segment(whole, piece, o) == \A j \in DOMAIN piece : o + j \in DOMAIN whole /\ whole[o + j] = piece[j]

LEMMA SegmentsNest ==
    ASSUME NEW U, NEW a \in Seq(U), NEW b \in Seq(U), NEW c \in Seq(U), NEW o \in Nat, NEW q \in Nat,
           Segment(a, b, o), Segment(b, c, q)
    PROVE  Segment(a, c, o + q)
<1> SUFFICES ASSUME NEW j \in DOMAIN c PROVE o + q + j \in DOMAIN a /\ a[o + q + j] = c[j]
  BY DEF Segment
<1>1. j \in Nat /\ q + j \in DOMAIN b /\ b[q + j] = c[j]
  BY LengthIs DEF Segment
<1>2. o + (q + j) \in DOMAIN a /\ a[o + (q + j)] = b[q + j]
  BY <1>1 DEF Segment
<1>3. o + (q + j) = o + q + j
  BY <1>1
<1> QED BY <1>1, <1>2, <1>3

LEMMA SegmentsOfConcat ==
    ASSUME NEW U, NEW a \in Seq(U), NEW b \in Seq(U)
    PROVE  /\ a \o b \in Seq(U) /\ Len(a) \in Nat
           /\ Segment(a \o b, a, 0) /\ Segment(a \o b, b, Len(a))
           /\ \A p \in DOMAIN (a \o b) : p \in DOMAIN a \/ p - Len(a) \in DOMAIN b
<1>1. PICK m \in Nat, n \in Nat : m = Len(a) /\ n = Len(b) /\ DOMAIN a = 1 .. m /\ DOMAIN b = 1 .. n
  BY LengthIs
<1>2. PICK c \in Seq(U) : /\ c = a \o b /\ Len(c) = m + n
                          /\ \A i \in 1 .. m + n : c[i] = IF i <= m THEN a[i] ELSE b[i - m]
  <2>1. PICK c : c = a \o b
    OBVIOUS
  <2>2. c \in Seq(U) /\ Len(c) = m + n
    BY <2>1, <1>1, ConcatProperties
  <2>3. \A i \in 1 .. m + n : c[i] = IF i <= m THEN a[i] ELSE b[i - m]
    BY <2>1, <1>1, ConcatProperties
  <2> QED BY <2>1, <2>2, <2>3
<1>3. DOMAIN c = 1 .. m + n
  BY <1>2, LengthIs
<1>4. Segment(c, a, 0)
  <2> SUFFICES ASSUME NEW j \in 1 .. m PROVE 0 + j \in 1 .. m + n /\ c[0 + j] = a[j]
    BY <1>1, <1>3 DEF Segment
  <2>1. 0 + j = j /\ j \in 1 .. m + n /\ j <= m
    OBVIOUS
  <2> QED BY <2>1, <1>2
<1>5. Segment(c, b, m)
  <2> SUFFICES ASSUME NEW j \in 1 .. n PROVE m + j \in 1 .. m + n /\ c[m + j] = b[j]
    BY <1>1, <1>3 DEF Segment
  <2>1. m + j - m = j /\ m + j \in 1 .. m + n /\ ~(m + j <= m)
    OBVIOUS
  <2> QED BY <2>1, <1>2
<1>6. ASSUME NEW p \in 1 .. m + n PROVE p \in 1 .. m \/ p - m \in 1 .. n
  OBVIOUS
<1> QED BY <1>1, <1>2, <1>3, <1>4, <1>5, <1>6

\* What FlattenSeq makes of a list: it starts with the first part and goes on with one
\* after the other.
Flattens(f, m, parts, U) ==
    /\ f \in [1 .. m -> Seq(U)] /\ f[1] = parts[1]
    /\ \A n \in 2 .. m : f[n] = f[n - 1] \o parts[n]

LEMMA FlattenExists ==
    ASSUME NEW U, NEW parts \in Seq(Seq(U)), parts # <<>>
    PROVE  /\ Len(parts) \in Nat \ {0} /\ DOMAIN parts = 1 .. Len(parts)
           /\ \E f : Flattens(f, Len(parts), parts, U) /\ FlattenSeq(parts) = f[Len(parts)]
<1>1. PICK n \in Nat \ {0} : n = Len(parts) /\ DOMAIN parts = 1 .. n
  BY LengthIs, EmptySeq
<1>2. \A i \in 1 .. n : parts[i] \in Seq(U)
  BY <1>1, LengthIs
<1>3. PICK T : T = {m \in Nat : m + 1 <= n => \E f : Flattens(f, m + 1, parts, U)}
  OBVIOUS
<1>4. 0 \in T
  <2>1. PICK f : f = [k \in 1 .. 1 |-> parts[1]]
    OBVIOUS
  <2>2. f \in [1 .. 1 -> Seq(U)] /\ f[1] = parts[1] /\ \A k \in 2 .. 1 : FALSE
    BY <1>1, <1>2, <2>1
  <2>3. Flattens(f, 1, parts, U)
    BY <2>2 DEF Flattens
  <2>4. 0 + 1 = 1
    OBVIOUS
  <2> QED BY <2>3, <2>4, <1>3
<1>5. ASSUME NEW m \in T, m + 1 + 1 <= n PROVE \E f : Flattens(f, m + 1 + 1, parts, U)
  <2>1. PICK k \in Nat : k = m + 1 /\ k > 0 /\ k + 1 <= n /\ k + 1 \in 1 .. n
    BY <1>1, <1>3, <1>5
  <2>2. PICK f : Flattens(f, k, parts, U)
    BY <1>3, <2>1
  <2>3. f \in [1 .. k -> Seq(U)] /\ f[k] \in Seq(U) /\ parts[k + 1] \in Seq(U)
    BY <2>1, <2>2, <1>2 DEF Flattens
  <2>4. PICK next \in Seq(U) : next = f[k] \o parts[k + 1]
    BY <2>3, ConcatProperties
  <2>5. PICK g : g = [i \in 1 .. k + 1 |-> IF i = k + 1 THEN next ELSE f[i]]
    OBVIOUS
  <2>6. g \in [1 .. k + 1 -> Seq(U)]
    <3>1. \A i \in 1 .. k + 1 : i = k + 1 \/ i \in 1 .. k
      BY <2>1
    <3> QED BY <3>1, <2>3, <2>4, <2>5
  <2>7. g[k + 1] = next /\ \A i \in 1 .. k : g[i] = f[i]
    BY <2>1, <2>5
  <2>8. g[1] = parts[1]
    BY <2>1, <2>2, <2>7 DEF Flattens
  <2>9. ASSUME NEW i \in 2 .. k + 1 PROVE g[i] = g[i - 1] \o parts[i]
    <3>1. CASE i = k + 1
      <4>1. i - 1 = k /\ k \in 1 .. k
        BY <2>1, <3>1
      <4> QED BY <4>1, <3>1, <2>4, <2>7
    <3>2. CASE i # k + 1
      <4>1. i \in 2 .. k /\ i \in 1 .. k /\ i - 1 \in 1 .. k
        BY <2>1, <3>2
      <4>2. f[i] = f[i - 1] \o parts[i]
        BY <4>1, <2>2 DEF Flattens
      <4> QED BY <4>1, <4>2, <2>7
    <3> QED BY <3>1, <3>2
  <2>10. Flattens(g, k + 1, parts, U)
    BY <2>6, <2>8, <2>9 DEF Flattens
  <2> QED BY <2>1, <2>10
<1>6. Grows(T)
  <2>1. ASSUME NEW m \in T PROVE m + 1 \in T
    <3>1. m + 1 \in Nat
      BY <1>3
    <3> QED BY <3>1, <1>3, <1>5
  <2> QED BY <2>1, <1>4 DEF Grows
<1>7. PICK f : Flattens(f, n, parts, U)
  <2>1. n - 1 \in T /\ n - 1 + 1 = n
    BY <1>1, <1>6, AllNaturals
  <2> QED BY <2>1, <1>3
<1>8. f = [i \in 1 .. n |-> IF i = 1 THEN parts[i] ELSE f[i - 1] \o parts[i]]
  <2>1. f \in [1 .. n -> Seq(U)] /\ f[1] = parts[1] /\ \A i \in 2 .. n : f[i] = f[i - 1] \o parts[i]
    BY <1>7 DEF Flattens
  <2>2. \A i \in 1 .. n : f[i] = IF i = 1 THEN parts[i] ELSE f[i - 1] \o parts[i]
    <3> SUFFICES ASSUME NEW i \in 1 .. n PROVE f[i] = IF i = 1 THEN parts[i] ELSE f[i - 1] \o parts[i]
      OBVIOUS
    <3>1. i = 1 \/ i \in 2 .. n
      BY <1>1
    <3> QED BY <3>1, <2>1
  <2> QED BY <2>1, <2>2
<1>9. PICK g : /\ g = [i \in 1 .. n |-> IF i = 1 THEN parts[i] ELSE g[i - 1] \o parts[i]]
               /\ FlattenSeq(parts) = g[n]
  <2>1. PICK g : g = CHOOSE h : h = [i \in 1 .. n |-> IF i = 1 THEN parts[i] ELSE h[i - 1] \o parts[i]]
    OBVIOUS
  <2>2. g = [i \in 1 .. n |-> IF i = 1 THEN parts[i] ELSE g[i - 1] \o parts[i]]
    BY <1>8, <2>1, Zenon
  <2>3. FlattenSeq(parts) = g[n]
    BY <1>1, <2>1 DEF FlattenSeq
  <2> QED BY <2>2, <2>3
<1>10. PICK S : S = {m \in Nat : m + 1 <= n => g[m + 1] = f[m + 1]}
  OBVIOUS
<1>11. Grows(S)
  <2>1. 0 \in S
    <3>1. 0 + 1 = 1 /\ 1 \in 1 .. n
      BY <1>1
    <3>2. g[1] = IF 1 = 1 THEN parts[1] ELSE g[1 - 1] \o parts[1]
      BY <3>1, <1>9, Zenon
    <3>3. g[1] = parts[1] /\ f[1] = parts[1]
      BY <3>2, <1>7 DEF Flattens
    <3> QED BY <3>1, <3>3, <1>10
  <2>2. ASSUME NEW m \in S, m + 1 + 1 <= n PROVE g[m + 1 + 1] = f[m + 1 + 1]
    <3>1. PICK k \in Nat : k = m + 1 /\ k + 1 \in 2 .. n /\ k + 1 \in 1 .. n /\ k + 1 - 1 = k /\ k + 1 # 1
      BY <1>1, <1>10, <2>2
    <3>2. g[k] = f[k]
      BY <1>10, <3>1
    <3>3. PICK j \in 2 .. n : j = k + 1 /\ j \in 1 .. n /\ j - 1 = k /\ j # 1
      BY <3>1
    <3>4. g[j] = g[j - 1] \o parts[j]
      BY <1>9, <3>3
    <3>5. f[j] = f[j - 1] \o parts[j]
      BY <1>7, <3>3 DEF Flattens
    <3>6. g[j] = f[j]
      BY <3>2, <3>3, <3>4, <3>5
    <3> QED BY <3>1, <3>3, <3>6
  <2>3. ASSUME NEW m \in S PROVE m + 1 \in S
    <3>1. m + 1 \in Nat
      BY <1>10
    <3> QED BY <3>1, <1>10, <2>2
  <2> QED BY <2>1, <2>3 DEF Grows
<1>12. g[n] = f[n]
  <2>1. n - 1 \in S /\ n - 1 + 1 = n
    BY <1>1, <1>11, AllNaturals
  <2> QED BY <2>1, <1>10
<1> QED BY <1>1, <1>7, <1>9, <1>12

\* FlattenSeq has its parts one after the other, and nothing else.
LEMMA FlattenIs ==
    ASSUME NEW U, NEW parts \in Seq(Seq(U))
    PROVE  /\ FlattenSeq(parts) \in Seq(U)
           /\ \A i \in DOMAIN parts : \E o \in Nat : Segment(FlattenSeq(parts), parts[i], o)
           /\ \A p \in DOMAIN FlattenSeq(parts) : \E i \in DOMAIN parts, o \in Nat :
                 Segment(FlattenSeq(parts), parts[i], o) /\ p - o \in DOMAIN parts[i]
<1>1. CASE parts = <<>>
  <2>1. FlattenSeq(parts) = <<>> /\ DOMAIN parts = {}
    <3>1. Len(parts) = 0
      BY <1>1
    <3> QED BY <1>1, <3>1 DEF FlattenSeq
  <2>2. FlattenSeq(parts) \in Seq(U) /\ DOMAIN FlattenSeq(parts) = {}
    BY <2>1, EmptySeq
  <2> QED BY <2>1, <2>2
<1>2. CASE parts # <<>>
  <2>1. PICK n \in Nat \ {0} : n = Len(parts) /\ DOMAIN parts = 1 .. n
    BY <1>2, FlattenExists
  <2>2. PICK f : Flattens(f, n, parts, U) /\ FlattenSeq(parts) = f[n]
    BY <1>2, <2>1, FlattenExists
  <2>3. \A i \in 1 .. n : parts[i] \in Seq(U) /\ f[i] \in Seq(U)
    BY <2>1, <2>2, LengthIs DEF Flattens
  <2> DEFINE AllIn(m) == \A i \in 1 .. m : \E o \in Nat : Segment(f[m], parts[i], o)
  <2> DEFINE NothingElse(m) == \A p \in DOMAIN f[m] : \E i \in 1 .. m, o \in Nat :
                             Segment(f[m], parts[i], o) /\ p - o \in DOMAIN parts[i]
  <2>4. PICK S : S = {m \in Nat : m + 1 <= n => AllIn(m + 1) /\ NothingElse(m + 1)}
    OBVIOUS
  <2>5. AllIn(1) /\ NothingElse(1)
    <3>1. f[1] = parts[1] /\ 1 \in 1 .. n
      BY <2>1, <2>2 DEF Flattens
    <3>2. Segment(f[1], parts[1], 0) /\ \A p \in DOMAIN parts[1] : p - 0 = p
      <4>1. DOMAIN parts[1] = 1 .. Len(parts[1]) /\ Len(parts[1]) \in Nat
        BY <2>3, <3>1, LengthIs
      <4>2. \A j \in DOMAIN parts[1] : 0 + j = j /\ j - 0 = j
        BY <4>1
      <4> QED BY <3>1, <4>2 DEF Segment
    <3>3. \A i \in 1 .. 1 : i = 1
      OBVIOUS
    <3> QED BY <3>1, <3>2, <3>3
  <2>6. ASSUME NEW k \in Nat, k > 0, k + 1 <= n, AllIn(k), NothingElse(k) PROVE AllIn(k + 1) /\ NothingElse(k + 1)
    <3>1. k \in 1 .. n /\ k + 1 \in 1 .. n /\ k + 1 \in 2 .. n /\ k + 1 - 1 = k
      BY <2>1, <2>6
    <3>2. f[k + 1] = f[k] \o parts[k + 1]
      <4>1. PICK j \in 2 .. n : j = k + 1 /\ j - 1 = k
        BY <3>1
      <4>2. f[j] = f[j - 1] \o parts[j]
        BY <2>2, <4>1 DEF Flattens
      <4> QED BY <4>1, <4>2
    <3>3. PICK a \in Seq(U), b \in Seq(U) : a = f[k] /\ b = parts[k + 1]
      BY <2>3, <3>1
    <3>4. /\ Segment(a \o b, a, 0) /\ Segment(a \o b, b, Len(a)) /\ Len(a) \in Nat /\ a \o b \in Seq(U)
          /\ \A p \in DOMAIN (a \o b) : p \in DOMAIN a \/ p - Len(a) \in DOMAIN b
      BY SegmentsOfConcat
    <3>5. PICK c \in Seq(U) : c = a \o b /\ c = f[k + 1]
      BY <3>2, <3>3, <3>4
    <3>6. ASSUME NEW i \in 1 .. k, NEW o \in Nat, Segment(a, parts[i], o) PROVE Segment(c, parts[i], o)
      <4>1. i \in 1 .. n /\ parts[i] \in Seq(U)
        BY <2>3, <3>1
      <4>2. Segment(c, parts[i], 0 + o)
        BY <3>4, <3>5, <3>6, <4>1, SegmentsNest
      <4>3. 0 + o = o
        OBVIOUS
      <4> QED BY <4>2, <4>3
    <3>7. \A i \in 1 .. k + 1 : i \in 1 .. k \/ i = k + 1
      OBVIOUS
    <3>8. AllIn(k + 1)
      <4> SUFFICES ASSUME NEW i \in 1 .. k + 1 PROVE \E o \in Nat : Segment(c, parts[i], o)
        BY <3>5
      <4>1. CASE i \in 1 .. k
        <5>1. PICK o \in Nat : Segment(a, parts[i], o)
          BY <4>1, <2>6, <3>3
        <5> QED BY <5>1, <4>1, <3>6
      <4>2. CASE i = k + 1
        BY <4>2, <3>3, <3>4, <3>5
      <4> QED BY <4>1, <4>2, <3>7
    <3>9. NothingElse(k + 1)
      <4> SUFFICES ASSUME NEW p \in DOMAIN c
                   PROVE  \E i \in 1 .. k + 1, o \in Nat : Segment(c, parts[i], o) /\ p - o \in DOMAIN parts[i]
        BY <3>5
      <4>1. CASE p \in DOMAIN a
        <5>1. PICK i \in 1 .. k, o \in Nat : Segment(a, parts[i], o) /\ p - o \in DOMAIN parts[i]
          BY <4>1, <2>6, <3>3
        <5>2. i \in 1 .. k + 1
          OBVIOUS
        <5> QED BY <5>1, <5>2, <3>6
      <4>2. CASE p - Len(a) \in DOMAIN b
        <5>1. k + 1 \in 1 .. k + 1 /\ Segment(c, parts[k + 1], Len(a)) /\ p - Len(a) \in DOMAIN parts[k + 1]
          BY <4>2, <3>3, <3>4, <3>5
        <5> QED BY <5>1, <3>4
      <4> QED BY <4>1, <4>2, <3>4, <3>5
    <3> QED BY <3>8, <3>9
  <2> HIDE DEF AllIn, NothingElse
  <2>7. Grows(S)
    <3>1. 0 \in S
      <4>1. 0 + 1 = 1
        OBVIOUS
      <4> QED BY <4>1, <2>4, <2>5
    <3>2. ASSUME NEW m \in S PROVE m + 1 \in S
      <4>1. m \in Nat /\ m + 1 \in Nat
        BY <2>4
      <4>2. ASSUME m + 1 + 1 <= n PROVE AllIn(m + 1 + 1) /\ NothingElse(m + 1 + 1)
        <5>1. m + 1 <= n /\ m + 1 > 0
          BY <4>1, <4>2, <2>1
        <5>2. AllIn(m + 1) /\ NothingElse(m + 1)
          BY <5>1, <2>4
        <5> QED BY <4>1, <4>2, <5>1, <5>2, <2>6
      <4> QED BY <4>1, <4>2, <2>4
    <3> QED BY <3>1, <3>2 DEF Grows
  <2>8. AllIn(n) /\ NothingElse(n)
    <3>1. n - 1 \in S /\ n - 1 + 1 = n
      BY <2>1, <2>7, AllNaturals
    <3> QED BY <3>1, <2>1, <2>4
  <2>9. f[n] \in Seq(U)
    BY <2>1, <2>3
  <2> QED BY <2>1, <2>2, <2>8, <2>9 DEF AllIn, NothingElse
<1> QED BY <1>1, <1>2

\* What validateFlow lets through to the walk.
Sound(graph) ==
    /\ graph.nodes \subseteq Box /\ graph.edges \subseteq Edge /\ IsFiniteSet(graph.edges)
    /\ \E t \in graph.nodes : Triggers(graph) = {t}
    /\ \A e \in graph.edges : e[1] \in graph.nodes /\ e[3] \in graph.nodes

Leaving(graph, b) == {e \in graph.edges : e[1] = b}

\* The messages a walk emits.
Meeting == [box : Send, delay : Nat, branch : {"none"} \cup Handle, condition : Condition]

LEMMA EdgeIs ==
    ASSUME NEW e \in Edge
    PROVE  /\ e[1] \in Box /\ e[2] \in Handle /\ e[3] \in Box
           /\ Kind[e[1]] # "exit" /\ (Kind[e[1]] # "condition" => e[2] = "yes")
BY DEF Edge

\* From has the edges that leave a box, and only those.
LEMMA FromIs ==
    ASSUME NEW graph, Sound(graph), NEW b
    PROVE  /\ From(graph, b) \in Seq(Leaving(graph, b))
           /\ \A i \in DOMAIN From(graph, b) : From(graph, b)[i] \in graph.edges /\ From(graph, b)[i][1] = b
           /\ \A e \in Leaving(graph, b) : \E i \in DOMAIN From(graph, b) : From(graph, b)[i] = e
<1>1. PICK out : out = Leaving(graph, b)
  OBVIOUS
<1>2. out \in SUBSET graph.edges /\ IsFiniteSet(graph.edges) /\ graph.edges \subseteq Edge
  BY <1>1 DEF Leaving, Sound
<1>3. IsFiniteSet(out) /\ out \subseteq Edge
  BY <1>2, FS_Subset
<1>4. PICK place : place = [e \in out |-> Rank[e]]
  OBVIOUS
<1>5. place \in [out -> Int] /\ \A e, f \in out : place[e] = place[f] => e = f
  BY <1>3, <1>4, CanvasConstants DEF CanvasConstants
<1>6. PICK n \in Nat : /\ n = Cardinality(out)
                       /\ \A e \in out : Rating(out, place, e) \in 1 .. n
                       /\ \A e, f \in out : Rating(out, place, e) = Rating(out, place, f) => e = f
                       /\ \A i \in 1 .. n : \E e \in out : Rating(out, place, e) = i
  BY <1>3, <1>5, Rated
<1>7. \A e \in out : Cardinality({f \in out : Rank[f] <= Rank[e]}) = Rating(out, place, e)
  <2> SUFFICES ASSUME NEW e \in out
               PROVE  Cardinality({f \in out : Rank[f] <= Rank[e]}) = Cardinality({f \in out : place[f] <= place[e]})
    BY DEF Rating
  <2>1. {f \in out : Rank[f] <= Rank[e]} = {f \in out : place[f] <= place[e]}
    BY <1>4
  <2> QED BY <2>1
<1>8. PICK list : list = From(graph, b)
  OBVIOUS
<1>9. list = [i \in 1 .. n |-> CHOOSE e \in out : Cardinality({f \in out : Rank[f] <= Rank[e]}) = i]
  BY <1>1, <1>6, <1>8 DEF From, Leaving
<1>10. ASSUME NEW i \in 1 .. n PROVE list[i] \in out /\ Rating(out, place, list[i]) = i
  <2>1. PICK e \in out : Cardinality({f \in out : Rank[f] <= Rank[e]}) = i
    BY <1>6, <1>7
  <2>2. list[i] = CHOOSE d \in out : Cardinality({f \in out : Rank[f] <= Rank[d]}) = i
    BY <1>9
  <2>3. list[i] \in out /\ Cardinality({f \in out : Rank[f] <= Rank[list[i]]}) = i
    BY <2>1, <2>2, Zenon
  <2> QED BY <2>3, <1>7
<1>11. list \in [1 .. n -> out]
  BY <1>9, <1>10
<1>12. list \in Seq(out) /\ DOMAIN list = 1 .. n
  BY <1>11, LenIs
<1>13. ASSUME NEW e \in out PROVE \E i \in 1 .. n : list[i] = e
  <2>1. PICK i \in 1 .. n : i = Rating(out, place, e)
    BY <1>6
  <2> QED BY <2>1, <1>6, <1>10
<1>14. \A i \in 1 .. n : list[i] \in graph.edges /\ list[i][1] = b
  BY <1>1, <1>10 DEF Leaving
<1> QED BY <1>1, <1>8, <1>12, <1>13, <1>14

LEMMA NegateFits ==
    ASSUME NEW condition \in Condition
    PROVE  Negate(condition) \in Condition
<1>1. CASE condition = Always
  BY <1>1 DEF Negate, Condition, Always
<1>2. CASE condition \in {"is", "not"} \X Question
  <2>1. PICK sign \in {"is", "not"}, ask \in Question : condition = <<sign, ask>>
    BY <1>2
  <2>2. CASE sign = "is"
    <3>1. Negate(condition) = <<"not", ask>>
      BY <2>1, <2>2 DEF Negate
    <3> QED BY <2>1, <2>2, <3>1 DEF Condition
  <2>3. CASE sign = "not"
    <3>1. Negate(condition) = <<"is", ask>>
      BY <2>1, <2>3 DEF Negate
    <3> QED BY <2>1, <2>3, <3>1 DEF Condition
  <2> QED BY <2>2, <2>3
<1> QED BY <1>1, <1>2 DEF Condition

LEMMA ChosenFits ==
    ASSUME NEW b \in Box, NEW handle \in Handle
    PROVE  Chosen(b, handle) \in Condition
BY NegateFits, CanvasConstants DEF Chosen, CanvasConstants

\* By which branch, and under which condition, somebody goes on who leaves b by e.
LedOn(b, e, branch) == IF Kind[b] = "condition" THEN e[2] ELSE branch
AskedOn(b, e, condition) ==
    CASE Kind[b] = "condition" -> Chosen(b, e[2])
      [] Kind[b] = "trigger" -> Always
      [] OTHER -> condition

LEMMA AskedOnFits ==
    ASSUME NEW b \in Box, NEW e \in Edge, NEW branch \in {"none"} \cup Handle, NEW condition \in Condition
    PROVE  LedOn(b, e, branch) \in {"none"} \cup Handle /\ AskedOn(b, e, condition) \in Condition
<1>1. e[2] \in Handle
  BY EdgeIs
<1>2. CASE Kind[b] = "condition"
  BY <1>1, <1>2, ChosenFits DEF LedOn, AskedOn
<1>3. CASE Kind[b] = "trigger"
  <2>1. AskedOn(b, e, condition) = Always
    BY <1>3 DEF AskedOn
  <2> QED BY <2>1, <1>3 DEF LedOn, Condition
<1>4. CASE Kind[b] # "condition" /\ Kind[b] # "trigger"
  BY <1>4 DEF LedOn, AskedOn
<1> QED BY <1>2, <1>3, <1>4

LEMMA VisitIs ==
    ASSUME NEW visit \in Visit
    PROVE  /\ visit.box \in Box /\ visit.delay \in Nat /\ visit.branch \in {"none"} \cup Handle
           /\ visit.condition \in Condition /\ visit.depth \in Nat
BY DEF Visit

LEMMA GoOnFits ==
    ASSUME NEW visit \in Visit, NEW e \in Edge
    PROVE  /\ GoOn(visit, e) \in Visit
           /\ GoOn(visit, e).box = e[3] /\ GoOn(visit, e).depth = visit.depth + 1
           /\ GoOn(visit, e).delay = visit.delay + (IF Kind[visit.box] \in {"delay", "condition"}
                                                      THEN Wait[visit.box] ELSE 0)
           /\ GoOn(visit, e).branch = LedOn(visit.box, e, visit.branch)
           /\ GoOn(visit, e).condition = AskedOn(visit.box, e, visit.condition)
<1>1. /\ visit.box \in Box /\ visit.delay \in Nat /\ visit.branch \in {"none"} \cup Handle
      /\ visit.condition \in Condition /\ visit.depth \in Nat
  BY VisitIs
<1>2. e[3] \in Box
  BY EdgeIs
<1>3. PICK next : next = GoOn(visit, e)
  OBVIOUS
<1>4. PICK condition \in Condition : condition = AskedOn(visit.box, e, visit.condition)
  BY <1>1, AskedOnFits
<1>5. PICK branch \in {"none"} \cup Handle : branch = LedOn(visit.box, e, visit.branch)
  BY <1>1, AskedOnFits
<1>6. PICK delay : delay = IF Kind[visit.box] \in {"delay", "condition"} THEN visit.delay + Wait[visit.box]
                           ELSE visit.delay
  OBVIOUS
<1>7. /\ delay \in Nat
      /\ delay = visit.delay + (IF Kind[visit.box] \in {"delay", "condition"} THEN Wait[visit.box] ELSE 0)
  <2>1. Wait[visit.box] \in Nat
    BY <1>1, CanvasConstants DEF CanvasConstants
  <2>2. CASE Kind[visit.box] \in {"delay", "condition"}
    BY <2>1, <2>2, <1>1, <1>6
  <2>3. CASE ~(Kind[visit.box] \in {"delay", "condition"})
    BY <2>3, <1>1, <1>6
  <2> QED BY <2>2, <2>3
<1>8. next = [box |-> e[3], depth |-> visit.depth + 1, delay |-> delay, branch |-> branch, condition |-> condition]
  BY <1>3, <1>4, <1>5, <1>6 DEF GoOn, LedOn, AskedOn
<1>9. next \in Visit
  BY <1>1, <1>2, <1>7, <1>8 DEF Visit
<1>10. /\ next.box = e[3] /\ next.depth = visit.depth + 1 /\ next.delay = delay
       /\ next.branch = branch /\ next.condition = condition
  BY <1>8
<1> QED BY <1>3, <1>4, <1>5, <1>7, <1>9, <1>10

LEMMA MetIs ==
    ASSUME NEW visit \in Visit
    PROVE  /\ Met(visit) \in Seq(Meeting)
           /\ IF Kind[visit.box] = "send"
              THEN Len(Met(visit)) = 1
                   /\ Met(visit)[1] = [box |-> visit.box, delay |-> visit.delay, branch |-> visit.branch,
                                       condition |-> visit.condition]
              ELSE Met(visit) = <<>>
<1>1. CASE Kind[visit.box] = "send"
  <2>1. PICK one : one = [box |-> visit.box, delay |-> visit.delay, branch |-> visit.branch,
                          condition |-> visit.condition]
    OBVIOUS
  <2>2. one \in Meeting
    BY <1>1, <2>1, VisitIs DEF Meeting, Send
  <2>3. Met(visit) = <<one>>
    BY <1>1, <2>1 DEF Met
  <2>4. <<one>> \in Seq(Meeting) /\ Len(<<one>>) = 1 /\ <<one>>[1] = one
    BY <2>2
  <2> QED BY <1>1, <2>1, <2>3, <2>4
<1>2. CASE Kind[visit.box] # "send"
  BY <1>2 DEF Met
<1> QED BY <1>1, <1>2

\* What a walk emits from a box on, if f is what it emits from the boxes behind it.
Parts(graph, f, visit) ==
    [i \in DOMAIN From(graph, visit.box) |-> f[GoOn(visit, From(graph, visit.box)[i])]]
Emitted(graph, f, visit) ==
    IF Halts(graph, visit) THEN <<>> ELSE Met(visit) \o FlattenSeq(Parts(graph, f, visit))

LEMMA PartsFit ==
    ASSUME NEW graph, Sound(graph), NEW f \in [Visit -> Seq(Meeting)], NEW visit \in Visit
    PROVE  /\ Parts(graph, f, visit) \in Seq(Seq(Meeting))
           /\ DOMAIN Parts(graph, f, visit) = DOMAIN From(graph, visit.box)
           /\ \A i \in DOMAIN From(graph, visit.box) :
                 /\ From(graph, visit.box)[i] \in Edge
                 /\ Parts(graph, f, visit)[i] = f[GoOn(visit, From(graph, visit.box)[i])]
<1>1. PICK list : list = From(graph, visit.box)
  OBVIOUS
<1>2. PICK n \in Nat : DOMAIN list = 1 .. n
  BY <1>1, FromIs, LengthIs
<1>3. \A i \in 1 .. n : list[i] \in Edge
  BY <1>1, <1>2, FromIs DEF Sound
<1>4. PICK parts : parts = [i \in 1 .. n |-> f[GoOn(visit, list[i])]]
  OBVIOUS
<1>5. parts = Parts(graph, f, visit)
  BY <1>1, <1>2, <1>4 DEF Parts
<1>6. \A i \in 1 .. n : f[GoOn(visit, list[i])] \in Seq(Meeting)
  BY <1>3, GoOnFits
<1>7. parts \in [1 .. n -> Seq(Meeting)]
  BY <1>4, <1>6
<1>8. parts \in Seq(Seq(Meeting))
  BY <1>7, LenIs
<1> QED BY <1>1, <1>2, <1>3, <1>4, <1>5, <1>8

LEMMA BodyFits ==
    ASSUME NEW graph, Sound(graph), NEW f \in [Visit -> Seq(Meeting)], NEW visit \in Visit
    PROVE  Emitted(graph, f, visit) \in Seq(Meeting)
<1>1. Met(visit) \in Seq(Meeting)
  BY MetIs
<1>2. FlattenSeq(Parts(graph, f, visit)) \in Seq(Meeting)
  BY PartsFit, FlattenIs
<1>3. Met(visit) \o FlattenSeq(Parts(graph, f, visit)) \in Seq(Meeting)
  BY <1>1, <1>2, ConcatProperties
<1>4. <<>> \in Seq(Meeting)
  BY EmptySeq
<1> QED BY <1>3, <1>4 DEF Emitted

\* What is emitted depends on the boxes one step further.
LEMMA SameEmitted ==
    ASSUME NEW graph, Sound(graph), NEW f, NEW g, NEW visit \in Visit,
           \A next \in Visit : next.depth = visit.depth + 1 => f[next] = g[next]
    PROVE  Emitted(graph, f, visit) = Emitted(graph, g, visit)
<1>1. ASSUME NEW i \in DOMAIN From(graph, visit.box)
      PROVE  f[GoOn(visit, From(graph, visit.box)[i])] = g[GoOn(visit, From(graph, visit.box)[i])]
  <2>1. PICK e \in Edge : e = From(graph, visit.box)[i]
    BY FromIs, <1>1 DEF Sound
  <2>2. GoOn(visit, e) \in Visit /\ GoOn(visit, e).depth = visit.depth + 1
    BY GoOnFits
  <2> QED BY <2>1, <2>2
<1>2. Parts(graph, f, visit) = Parts(graph, g, visit)
  BY <1>1 DEF Parts
<1> QED BY <1>2 DEF Emitted

\* The walk ends, whatever the canvas, because it counts its depth.
LEMMA WalkIs ==
    ASSUME NEW graph, Sound(graph)
    PROVE  /\ Walk(graph) \in [Visit -> Seq(Meeting)]
           /\ \A visit \in Visit : Walk(graph)[visit] = Emitted(graph, Walk(graph), visit)
<1> DEFINE Settled(f, k) == \A visit \in Visit : visit.depth + k > DepthBound => f[visit] = Emitted(graph, f, visit)
<1>0. DepthBound \in Nat
  BY CanvasConstants DEF CanvasConstants
<1>1. PICK T : T = {k \in Nat : \E f \in [Visit -> Seq(Meeting)] : Settled(f, k)}
  OBVIOUS
<1>2. 0 \in T
  <2>1. PICK f : f = [visit \in Visit |-> <<>>]
    OBVIOUS
  <2>2. f \in [Visit -> Seq(Meeting)]
    BY <2>1, EmptySeq
  <2>3. Settled(f, 0)
    <3> SUFFICES ASSUME NEW visit \in Visit, visit.depth + 0 > DepthBound PROVE f[visit] = Emitted(graph, f, visit)
      OBVIOUS
    <3>1. visit.depth > DepthBound
      BY <1>0, VisitIs
    <3> QED BY <2>1, <3>1 DEF Emitted, Halts
  <2> QED BY <1>1, <2>2, <2>3
<1>3. ASSUME NEW k \in Nat, NEW f \in [Visit -> Seq(Meeting)], Settled(f, k)
      PROVE  \E g \in [Visit -> Seq(Meeting)] : Settled(g, k + 1)
  <2>1. PICK g : g = [visit \in Visit |-> Emitted(graph, f, visit)]
    OBVIOUS
  <2>2. g \in [Visit -> Seq(Meeting)]
    BY <2>1, BodyFits
  <2>3. ASSUME NEW visit \in Visit, visit.depth + (k + 1) > DepthBound
        PROVE  g[visit] = Emitted(graph, g, visit)
    <3>1. ASSUME NEW next \in Visit, next.depth = visit.depth + 1 PROVE f[next] = g[next]
      <4>1. next.depth + k > DepthBound
        BY <3>1, <2>3, <1>0, <1>3, VisitIs
      <4> QED BY <4>1, <1>3, <2>1
    <3>2. Emitted(graph, f, visit) = Emitted(graph, g, visit)
      BY <3>1, SameEmitted
    <3> QED BY <3>2, <2>1
  <2> QED BY <2>2, <2>3
<1> HIDE DEF Settled
<1>4. Grows(T)
  <2>1. ASSUME NEW k \in T PROVE k + 1 \in T
    <3>1. k \in Nat /\ k + 1 \in Nat
      BY <1>1
    <3>2. PICK f \in [Visit -> Seq(Meeting)] : Settled(f, k)
      BY <1>1
    <3> QED BY <3>1, <3>2, <1>1, <1>3
  <2> QED BY <1>2, <2>1 DEF Grows
<1>5. PICK f \in [Visit -> Seq(Meeting)] : Settled(f, DepthBound + 1)
  <2>1. DepthBound + 1 \in T
    BY <1>0, <1>4, AllNaturals
  <2> QED BY <2>1, <1>1
<1>6. \A visit \in Visit : f[visit] = Emitted(graph, f, visit)
  <2>1. \A visit \in Visit : visit.depth + (DepthBound + 1) > DepthBound
    BY <1>0, VisitIs
  <2> QED BY <2>1, <1>5 DEF Settled
<1>7. f = [visit \in Visit |-> Emitted(graph, f, visit)]
  BY <1>6
<1>8. PICK w : w = CHOOSE h : h = [visit \in Visit |-> Emitted(graph, h, visit)]
  OBVIOUS
<1>9. w = [visit \in Visit |-> Emitted(graph, w, visit)]
  BY <1>7, <1>8, Zenon
<1>10. PICK S : S = {k \in Nat : \A visit \in Visit : visit.depth + k > DepthBound => w[visit] = f[visit]}
  OBVIOUS
<1>11. 0 \in S
  <2>1. ASSUME NEW visit \in Visit, visit.depth + 0 > DepthBound PROVE w[visit] = f[visit]
    <3>1. visit.depth > DepthBound
      BY <2>1, <1>0, VisitIs
    <3>2. Emitted(graph, w, visit) = <<>> /\ Emitted(graph, f, visit) = <<>>
      BY <3>1 DEF Emitted, Halts
    <3> QED BY <3>2, <1>6, <1>9
  <2> QED BY <2>1, <1>10
<1>12. ASSUME NEW k \in S PROVE k + 1 \in S
  <2>1. ASSUME NEW visit \in Visit, visit.depth + (k + 1) > DepthBound PROVE w[visit] = f[visit]
    <3>1. ASSUME NEW next \in Visit, next.depth = visit.depth + 1 PROVE w[next] = f[next]
      <4>1. next.depth + k > DepthBound /\ k \in Nat
        BY <3>1, <2>1, <1>0, <1>10, VisitIs
      <4> QED BY <4>1, <1>10
    <3>2. Emitted(graph, w, visit) = Emitted(graph, f, visit)
      BY <3>1, SameEmitted
    <3> QED BY <3>2, <1>6, <1>9
  <2>2. k + 1 \in Nat
    BY <1>10
  <2> QED BY <2>1, <2>2, <1>10
<1>13. \A visit \in Visit : w[visit] = f[visit]
  <2>1. DepthBound + 1 \in S
    BY <1>0, <1>11, <1>12, AllNaturals DEF Grows
  <2>2. \A visit \in Visit : visit.depth + (DepthBound + 1) > DepthBound
    BY <1>0, VisitIs
  <2> QED BY <2>1, <2>2, <1>10
<1>14. w = f
  BY <1>9, <1>13
<1>15. Walk(graph) = w
  BY <1>8 DEF Walk, Emitted, Parts
<1> QED BY <1>6, <1>14, <1>15

\* What a walk emits: the message of its box, and what the walks on from there emit.
LEMMA WalkHas ==
    ASSUME NEW graph, Sound(graph), NEW visit \in Visit, ~Halts(graph, visit), NEW walk, walk = Walk(graph)
    PROVE  /\ Kind[visit.box] = "send" =>
                 /\ 1 \in DOMAIN walk[visit]
                 /\ walk[visit][1] = [box |-> visit.box, delay |-> visit.delay, branch |-> visit.branch,
                                      condition |-> visit.condition]
           /\ \A e \in graph.edges : e[1] = visit.box =>
                 \E q \in Nat : Segment(walk[visit], walk[GoOn(visit, e)], q)
           /\ \A p \in DOMAIN walk[visit] :
                 \/ Kind[visit.box] = "send" /\ p = 1
                 \/ \E e \in graph.edges, q \in Nat :
                       /\ e[1] = visit.box /\ Segment(walk[visit], walk[GoOn(visit, e)], q)
                       /\ p - q \in DOMAIN walk[GoOn(visit, e)]
                       /\ Kind[visit.box] = "send" => q >= 1
<1>1. walk \in [Visit -> Seq(Meeting)] /\ walk[visit] = Emitted(graph, walk, visit)
  BY WalkIs
<1>2. PICK list : list = From(graph, visit.box)
  OBVIOUS
<1>3. PICK parts \in Seq(Seq(Meeting)) : parts = Parts(graph, walk, visit)
  BY <1>1, PartsFit
<1>4. /\ DOMAIN parts = DOMAIN list
      /\ \A i \in DOMAIN list : /\ list[i] \in graph.edges /\ list[i][1] = visit.box
                                /\ parts[i] = walk[GoOn(visit, list[i])]
  <2>1. /\ DOMAIN Parts(graph, walk, visit) = DOMAIN From(graph, visit.box)
        /\ \A i \in DOMAIN From(graph, visit.box) :
              Parts(graph, walk, visit)[i] = walk[GoOn(visit, From(graph, visit.box)[i])]
    BY <1>1, PartsFit
  <2>2. \A i \in DOMAIN From(graph, visit.box) :
           From(graph, visit.box)[i] \in graph.edges /\ From(graph, visit.box)[i][1] = visit.box
    BY FromIs
  <2> QED BY <2>1, <2>2, <1>2, <1>3
<1>5. \A e \in graph.edges : e[1] = visit.box => \E i \in DOMAIN list : list[i] = e
  <2>1. \A e \in Leaving(graph, visit.box) : \E i \in DOMAIN From(graph, visit.box) :
           From(graph, visit.box)[i] = e
    BY FromIs
  <2> QED BY <2>1, <1>2 DEF Leaving
<1>6. PICK a \in Seq(Meeting), b \in Seq(Meeting) : a = Met(visit) /\ b = FlattenSeq(parts)
  BY MetIs, FlattenIs
<1>7. walk[visit] = a \o b
  BY <1>1, <1>3, <1>6 DEF Emitted
<1>8. PICK m \in Nat : m = Len(a) /\ DOMAIN a = 1 .. m
  BY LengthIs
<1>9. /\ Kind[visit.box] = "send" =>
            m = 1 /\ a[1] = [box |-> visit.box, delay |-> visit.delay, branch |-> visit.branch,
                             condition |-> visit.condition]
      /\ Kind[visit.box] # "send" => m = 0
  <2>1. CASE Kind[visit.box] = "send"
    <3>1. Len(Met(visit)) = 1
          /\ Met(visit)[1] = [box |-> visit.box, delay |-> visit.delay, branch |-> visit.branch,
                              condition |-> visit.condition]
      BY <2>1, MetIs
    <3> QED BY <3>1, <2>1, <1>6, <1>8
  <2>2. CASE Kind[visit.box] # "send"
    <3>1. Met(visit) = <<>>
      BY <2>2, MetIs
    <3>2. Len(a) = 0
      BY <3>1, <1>6
    <3> QED BY <3>2, <2>2, <1>8
  <2> QED BY <2>1, <2>2
<1>10. PICK c \in Seq(Meeting) : /\ c = walk[visit] /\ Segment(c, a, 0) /\ Segment(c, b, m)
                                 /\ \A p \in DOMAIN c : p \in DOMAIN a \/ p - m \in DOMAIN b
  BY <1>7, <1>8, SegmentsOfConcat
<1>11. ASSUME NEW i \in DOMAIN list, NEW o \in Nat, Segment(b, parts[i], o)
       PROVE  Segment(c, walk[GoOn(visit, list[i])], m + o)
  <2>1. parts[i] \in Seq(Meeting)
    BY <1>3, <1>4, LengthIs
  <2>2. Segment(c, parts[i], m + o)
    BY <1>10, <1>11, <2>1, SegmentsNest
  <2> QED BY <2>2, <1>4
<1>12. ASSUME Kind[visit.box] = "send"
       PROVE  1 \in DOMAIN c /\ c[1] = [box |-> visit.box, delay |-> visit.delay, branch |-> visit.branch,
                                        condition |-> visit.condition]
  <2>0. m = 1
    BY <1>9, <1>12
  <2>1. 1 \in DOMAIN a /\ 0 + 1 = 1
    <3>1. DOMAIN a = 1 .. 1
      BY <2>0, <1>8
    <3> QED BY <3>1
  <2>2. 0 + 1 \in DOMAIN c /\ c[0 + 1] = a[1]
    BY <2>1, <1>10 DEF Segment
  <2> QED BY <2>1, <2>2, <1>9, <1>12
<1>13. ASSUME NEW e \in graph.edges, e[1] = visit.box
       PROVE  \E q \in Nat : Segment(c, walk[GoOn(visit, e)], q)
  <2>1. PICK i \in DOMAIN list : list[i] = e
    BY <1>5, <1>13
  <2>2. PICK o \in Nat : Segment(b, parts[i], o)
    BY <2>1, <1>3, <1>4, <1>6, FlattenIs
  <2>3. m + o \in Nat
    OBVIOUS
  <2> QED BY <2>1, <2>2, <2>3, <1>11
<1>14. ASSUME NEW p \in DOMAIN c, ~(Kind[visit.box] = "send" /\ p = 1)
       PROVE  \E e \in graph.edges, q \in Nat :
                 /\ e[1] = visit.box /\ Segment(c, walk[GoOn(visit, e)], q)
                 /\ p - q \in DOMAIN walk[GoOn(visit, e)]
                 /\ Kind[visit.box] = "send" => q >= 1
  <2>1. p \in Nat
    BY LengthIs
  <2>2. p \notin DOMAIN a
    BY <1>8, <1>9, <1>14
  <2>3. p - m \in DOMAIN b
    BY <2>2, <1>10
  <2>4. PICK i \in DOMAIN parts, o \in Nat : Segment(b, parts[i], o) /\ p - m - o \in DOMAIN parts[i]
    BY <2>3, <1>3, <1>6, FlattenIs
  <2>5. PICK e \in graph.edges : e = list[i] /\ e[1] = visit.box /\ parts[i] = walk[GoOn(visit, e)]
    BY <2>4, <1>4
  <2>6. PICK q \in Nat : q = m + o
    OBVIOUS
  <2>7. p - q = p - m - o /\ (Kind[visit.box] = "send" => q >= 1)
    <3>1. p - q = p - m - o
      BY <2>1, <2>6
    <3>2. Kind[visit.box] = "send" => m = 1
      BY <1>9
    <3>3. Kind[visit.box] = "send" => q >= 1
      BY <3>2, <2>6
    <3> QED BY <3>1, <3>3
  <2>8. Segment(c, walk[GoOn(visit, e)], q)
    BY <2>4, <2>5, <2>6, <1>4, <1>11
  <2> QED BY <2>4, <2>5, <2>7, <2>8
<1> QED BY <1>10, <1>12, <1>13, <1>14

-----------------------------------------------------------------------------
(* Ways                                                                    *)

Trip == [way : Seq(Box), waited : Nat, branch : {"none"} \cup Handle, condition : Condition]
Travelled(n) == {trip \in Trip : Len(trip.way) = n + 1}

StepOn(graph, trips) ==
    UNION {{Further(trip, e) : e \in {f \in graph.edges : f[1] = Last(trip.way)}} : trip \in trips}
Starts(graph) == {SetOut(t) : t \in Triggers(graph)}

LEMMA SetOutIs ==
    ASSUME NEW t \in Box
    PROVE  /\ SetOut(t) \in Travelled(0) /\ Last(SetOut(t).way) = t /\ Len(SetOut(t).way) = 1
           /\ SetOut(t).waited = 0 /\ SetOut(t).branch = "none" /\ SetOut(t).condition = Always
<1>1. <<t>> \in Seq(Box) /\ Len(<<t>>) = 1 /\ Last(<<t>>) = t
  BY DEF Last
<1>2. Always \in Condition
  BY DEF Condition
<1> QED BY <1>1, <1>2 DEF SetOut, Travelled, Trip

LEMMA FurtherFits ==
    ASSUME NEW n \in Nat, NEW trip \in Travelled(n), NEW e \in Edge
    PROVE  /\ Further(trip, e) \in Travelled(n + 1)
           /\ Last(Further(trip, e).way) = e[3] /\ Last(trip.way) = trip.way[n + 1]
           /\ Further(trip, e).way[n + 2] = e[3]
           /\ \A i \in 1 .. n + 1 : Further(trip, e).way[i] = trip.way[i]
           /\ Further(trip, e).waited = trip.waited + (IF Kind[e[1]] \in {"delay", "condition"}
                                                         THEN Wait[e[1]] ELSE 0)
           /\ Further(trip, e).branch = LedOn(e[1], e, trip.branch)
           /\ Further(trip, e).condition = AskedOn(e[1], e, trip.condition)
<1>1. /\ trip \in Trip /\ trip.way \in Seq(Box) /\ Len(trip.way) = n + 1 /\ trip.waited \in Nat
      /\ trip.branch \in {"none"} \cup Handle /\ trip.condition \in Condition
  BY DEF Travelled, Trip
<1>2. e[1] \in Box /\ e[3] \in Box
  BY EdgeIs
<1>3. PICK way \in Seq(Box) : /\ way = Append(trip.way, e[3]) /\ Len(way) = n + 2 /\ way[n + 2] = e[3]
                              /\ \A i \in 1 .. n + 1 : way[i] = trip.way[i]
  <2>1. PICK way : way = Append(trip.way, e[3])
    OBVIOUS
  <2>2. way \in Seq(Box) /\ Len(way) = n + 1 + 1 /\ way[n + 1 + 1] = e[3]
    BY <2>1, <1>1, <1>2, AppendProperties
  <2>3. \A i \in 1 .. n + 1 : way[i] = trip.way[i]
    BY <2>1, <1>1, <1>2, AppendProperties
  <2>4. n + 1 + 1 = n + 2
    OBVIOUS
  <2> QED BY <2>1, <2>2, <2>3, <2>4
<1>4. PICK waited \in Nat : waited = trip.waited + (IF Kind[e[1]] \in {"delay", "condition"}
                                                     THEN Wait[e[1]] ELSE 0)
  <2>1. Wait[e[1]] \in Nat
    BY <1>2, CanvasConstants DEF CanvasConstants
  <2> QED BY <2>1, <1>1
<1>5. PICK branch \in {"none"} \cup Handle : branch = LedOn(e[1], e, trip.branch)
  BY <1>1, <1>2, AskedOnFits
<1>6. PICK condition \in Condition : condition = AskedOn(e[1], e, trip.condition)
  BY <1>1, <1>2, AskedOnFits
<1>7. PICK new : new = [way |-> way, waited |-> waited, branch |-> branch, condition |-> condition]
  OBVIOUS
<1>8. Further(trip, e) = new
  BY <1>3, <1>4, <1>5, <1>6, <1>7 DEF Further, LedOn, AskedOn
<1>9. n + 1 + 1 = n + 2
  OBVIOUS
<1>10. /\ new \in Travelled(n + 1) /\ new.way = way /\ new.waited = waited
       /\ new.branch = branch /\ new.condition = condition
  BY <1>3, <1>7, <1>9 DEF Travelled, Trip
<1> QED BY <1>1, <1>3, <1>4, <1>5, <1>6, <1>8, <1>10 DEF Last

\* The trips, step by step.
LEMMA TripsAre ==
    ASSUME NEW graph, Sound(graph), NEW trips, trips = Trips(graph)
    PROVE  /\ trips[0] = Starts(graph)
           /\ \A n \in 1 .. DepthBound : trips[n] = StepOn(graph, trips[n - 1])
           /\ \A n \in 0 .. DepthBound : trips[n] \subseteq Travelled(n)
<1>0. DepthBound \in Nat /\ graph.edges \subseteq Edge
  BY CanvasConstants DEF CanvasConstants, Sound
<1> DEFINE Unrolls(f, k) == f = [n \in 0 .. k |-> IF n = 0 THEN Starts(graph) ELSE StepOn(graph, f[n - 1])]
<1>1. PICK T : T = {k \in Nat : \E f : Unrolls(f, k)}
  OBVIOUS
<1>2. 0 \in T
  <2>1. PICK f : f = [n \in 0 .. 0 |-> Starts(graph)]
    OBVIOUS
  <2>2. \A n \in 0 .. 0 : n = 0
    OBVIOUS
  <2>3. Unrolls(f, 0)
    BY <2>1, <2>2
  <2> QED BY <2>3, <1>1
<1>3. ASSUME NEW k \in Nat, NEW f, Unrolls(f, k) PROVE \E g : Unrolls(g, k + 1)
  <2>1. PICK g : g = [n \in 0 .. k + 1 |-> IF n = 0 THEN Starts(graph) ELSE StepOn(graph, f[n - 1])]
    OBVIOUS
  <2>2. ASSUME NEW n \in 0 .. k PROVE g[n] = f[n]
    <3>1. n \in 0 .. k + 1
      OBVIOUS
    <3>2. g[n] = IF n = 0 THEN Starts(graph) ELSE StepOn(graph, f[n - 1])
      BY <3>1, <2>1
    <3>3. f[n] = IF n = 0 THEN Starts(graph) ELSE StepOn(graph, f[n - 1])
      BY <1>3
    <3> QED BY <3>2, <3>3
  <2>3. ASSUME NEW n \in 0 .. k + 1
        PROVE  g[n] = IF n = 0 THEN Starts(graph) ELSE StepOn(graph, g[n - 1])
    <3>1. CASE n = 0
      BY <3>1, <2>1
    <3>2. CASE n # 0
      <4>1. n - 1 \in 0 .. k
        BY <3>2
      <4> QED BY <4>1, <3>2, <2>1, <2>2
    <3> QED BY <3>1, <3>2
  <2>4. Unrolls(g, k + 1)
    BY <2>1, <2>3
  <2> QED BY <2>4
<1> HIDE DEF Unrolls
<1>4. DepthBound \in T
  <2>1. ASSUME NEW k \in T PROVE k + 1 \in T
    <3>1. k \in Nat /\ k + 1 \in Nat
      BY <1>1
    <3>2. PICK f : Unrolls(f, k)
      BY <1>1
    <3> QED BY <3>1, <3>2, <1>1, <1>3
  <2> QED BY <2>1, <1>0, <1>2, AllNaturals DEF Grows
<1>5. PICK f : Unrolls(f, DepthBound)
  BY <1>1, <1>4
<1>6. trips = CHOOSE h : h = [n \in 0 .. DepthBound |-> IF n = 0 THEN Starts(graph) ELSE StepOn(graph, h[n - 1])]
  BY DEF Trips, Starts, StepOn
<1>7. trips = [n \in 0 .. DepthBound |-> IF n = 0 THEN Starts(graph) ELSE StepOn(graph, trips[n - 1])]
  BY <1>5, <1>6, Zenon DEF Unrolls
<1>8. trips[0] = Starts(graph) /\ \A n \in 1 .. DepthBound : trips[n] = StepOn(graph, trips[n - 1])
  <2>1. 0 \in 0 .. DepthBound
    BY <1>0
  <2>2. trips[0] = Starts(graph)
    BY <2>1, <1>7
  <2>3. ASSUME NEW n \in 1 .. DepthBound PROVE trips[n] = StepOn(graph, trips[n - 1])
    <3>1. n \in 0 .. DepthBound /\ n # 0
      BY <1>0
    <3> QED BY <3>1, <1>7
  <2> QED BY <2>2, <2>3
<1>9. PICK S : S = {n \in Nat : n <= DepthBound => trips[n] \subseteq Travelled(n)}
  OBVIOUS
<1>10. 0 \in S
  <2>1. ASSUME NEW t \in Triggers(graph) PROVE SetOut(t) \in Travelled(0)
    BY <2>1, SetOutIs DEF Triggers, Sound
  <2>2. Starts(graph) \subseteq Travelled(0)
    BY <2>1 DEF Starts
  <2> QED BY <2>2, <1>8, <1>9
<1>11. ASSUME NEW n \in S PROVE n + 1 \in S
  <2>1. n \in Nat /\ n + 1 \in Nat
    BY <1>9
  <2>2. ASSUME n + 1 <= DepthBound, NEW new \in trips[n + 1] PROVE new \in Travelled(n + 1)
    <3>1. n + 1 \in 1 .. DepthBound /\ n + 1 - 1 = n /\ n <= DepthBound
      BY <2>1, <2>2, <1>0
    <3>2. new \in StepOn(graph, trips[n])
      <4>1. PICK j \in 1 .. DepthBound : j = n + 1 /\ j - 1 = n
        BY <3>1, <2>1, <1>0
      <4>2. trips[j] = StepOn(graph, trips[j - 1])
        BY <1>8
      <4> QED BY <4>1, <4>2, <2>2
    <3>3. PICK trip \in trips[n], e \in graph.edges : new = Further(trip, e)
      BY <3>2 DEF StepOn
    <3>4. trip \in Travelled(n)
      BY <3>1, <3>3, <1>9
    <3> QED BY <3>3, <3>4, <2>1, <1>0, FurtherFits
  <2> QED BY <2>1, <2>2, <1>9
<1>12. \A n \in 0 .. DepthBound : trips[n] \subseteq Travelled(n)
  BY <1>0, <1>9, <1>10, <1>11, AllNaturals DEF Grows
<1> QED BY <1>8, <1>12

LEMMA StartIs ==
    ASSUME NEW graph, Sound(graph)
    PROVE  /\ AtTrigger(graph) \in Visit
           /\ AtTrigger(graph).depth = 0 /\ AtTrigger(graph).delay = 0 /\ AtTrigger(graph).condition = Always
           /\ AtTrigger(graph).branch = "none" /\ AtTrigger(graph).box \in Box
           /\ Kind[AtTrigger(graph).box] = "trigger"
           /\ Starts(graph) = {SetOut(AtTrigger(graph).box)}
           /\ Linearised(graph) \in Seq(Meeting)
<1>1. PICK t \in graph.nodes : Triggers(graph) = {t}
  BY DEF Sound
<1>2. t \in Box /\ Kind[t] = "trigger"
  BY <1>1 DEF Sound, Triggers
<1>3. (CHOOSE d \in Triggers(graph) : TRUE) = t
  BY <1>1
<1>4. PICK visit : visit = [box |-> t, delay |-> 0, branch |-> "none", condition |-> Always, depth |-> 0]
  OBVIOUS
<1>5. AtTrigger(graph) = visit
  BY <1>3, <1>4 DEF AtTrigger
<1>6. visit \in Visit
  BY <1>2, <1>4 DEF Visit, Condition
<1>7. Starts(graph) = {SetOut(t)}
  BY <1>1 DEF Starts
<1>8. Walk(graph)[visit] \in Seq(Meeting)
  BY <1>6, WalkIs
<1> QED BY <1>2, <1>4, <1>5, <1>6, <1>7, <1>8 DEF Linearised

\* A visit that goes the way of a trip.
Agrees(visit, trip) ==
    /\ visit.box = Last(trip.way) /\ visit.delay = trip.waited
    /\ visit.branch = trip.branch /\ visit.condition = trip.condition

LEMMA AgreeFurther ==
    ASSUME NEW n \in Nat, NEW visit \in Visit, NEW trip \in Travelled(n), NEW e \in Edge,
           Agrees(visit, trip), e[1] = Last(trip.way)
    PROVE  Agrees(GoOn(visit, e), Further(trip, e))
<1>1. /\ GoOn(visit, e).box = e[3]
      /\ GoOn(visit, e).delay = visit.delay + (IF Kind[visit.box] \in {"delay", "condition"}
                                                 THEN Wait[visit.box] ELSE 0)
      /\ GoOn(visit, e).branch = LedOn(visit.box, e, visit.branch)
      /\ GoOn(visit, e).condition = AskedOn(visit.box, e, visit.condition)
  BY GoOnFits
<1>2. /\ Last(Further(trip, e).way) = e[3]
      /\ Further(trip, e).waited = trip.waited + (IF Kind[e[1]] \in {"delay", "condition"}
                                                    THEN Wait[e[1]] ELSE 0)
      /\ Further(trip, e).branch = LedOn(e[1], e, trip.branch)
      /\ Further(trip, e).condition = AskedOn(e[1], e, trip.condition)
  BY FurtherFits
<1> QED BY <1>1, <1>2 DEF Agrees

\* The message of a box that is visited on the way of a trip.
MessageOf(trip) ==
    [box |-> Last(trip.way), delay |-> trip.waited, branch |-> trip.branch, condition |-> trip.condition]

\* Where a trip comes to, the walk has come, as it does.
Visited(graph, trip, n) ==
    \E visit \in Visit, o \in Nat :
        /\ Agrees(visit, trip) /\ visit.depth = n
        /\ Segment(Linearised(graph), Walk(graph)[visit], o)

LEMMA TripsAreVisited ==
    ASSUME NEW graph, Sound(graph)
    PROVE  \A n \in 0 .. DepthBound : \A trip \in Trips(graph)[n] : Visited(graph, trip, n)
<1>0. DepthBound \in Nat /\ graph.edges \subseteq Edge
  BY CanvasConstants DEF CanvasConstants, Sound
<1>1. PICK trips : trips = Trips(graph)
  OBVIOUS
<1>2. /\ trips[0] = Starts(graph)
      /\ \A n \in 1 .. DepthBound : trips[n] = StepOn(graph, trips[n - 1])
      /\ \A n \in 0 .. DepthBound : trips[n] \subseteq Travelled(n)
  BY <1>0, <1>1, TripsAre
<1>3. PICK walk : walk = Walk(graph)
  OBVIOUS
<1>4. walk \in [Visit -> Seq(Meeting)] /\ Linearised(graph) \in Seq(Meeting)
  BY <1>3, WalkIs, StartIs
<1>5. PICK S : S = {n \in Nat : n <= DepthBound => \A trip \in trips[n] : Visited(graph, trip, n)}
  OBVIOUS
<1>6. 0 \in S
  <2>1. PICK visit \in Visit : visit = AtTrigger(graph)
    BY StartIs
  <2>2. /\ visit.depth = 0 /\ visit.delay = 0 /\ visit.branch = "none" /\ visit.condition = Always
        /\ visit.box \in Box
    BY <2>1, StartIs
  <2>4. Segment(Linearised(graph), walk[visit], 0)
    <3>1. Linearised(graph) = walk[visit]
      BY <2>1, <1>3 DEF Linearised
    <3>2. \A j \in DOMAIN walk[visit] : 0 + j = j
      BY <1>4, LengthIs
    <3> QED BY <3>1, <3>2 DEF Segment
  <2>5. ASSUME NEW trip \in trips[0] PROVE Visited(graph, trip, 0)
    <3>1. trip = SetOut(visit.box)
      BY <2>1, <2>5, <1>2, StartIs
    <3>2. Agrees(visit, trip)
      BY <3>1, <2>2, SetOutIs DEF Agrees
    <3> QED BY <3>2, <2>2, <2>4, <1>3 DEF Visited
  <2> QED BY <2>5, <1>5
<1>7. ASSUME NEW n \in S PROVE n + 1 \in S
  <2>1. n \in Nat /\ n + 1 \in Nat
    BY <1>5
  <2>2. ASSUME n + 1 <= DepthBound, NEW new \in trips[n + 1] PROVE Visited(graph, new, n + 1)
    <3>1. n + 1 \in 1 .. DepthBound /\ n + 1 - 1 = n /\ n <= DepthBound /\ n \in 0 .. DepthBound
      BY <2>1, <2>2, <1>0
    <3>2. new \in StepOn(graph, trips[n])
      BY <3>1, <2>2, <1>2
    <3>3. PICK trip \in trips[n], e \in graph.edges : e[1] = Last(trip.way) /\ new = Further(trip, e)
      BY <3>2 DEF StepOn
    <3>4. trip \in Travelled(n) /\ e \in Edge
      BY <3>1, <3>3, <1>0, <1>2
    <3>5. PICK visit \in Visit, o \in Nat :
             Agrees(visit, trip) /\ visit.depth = n /\ Segment(Linearised(graph), walk[visit], o)
      BY <3>1, <3>3, <1>3, <1>5 DEF Visited
    <3>6. ~Halts(graph, visit)
      <4>1. visit.box \in graph.nodes /\ Kind[visit.box] # "exit"
        BY <3>3, <3>4, <3>5, EdgeIs DEF Sound, Agrees
      <4> QED BY <4>1, <3>1, <3>5, <2>1, <1>0 DEF Halts
    <3>7. PICK next \in Visit : next = GoOn(visit, e) /\ next.depth = n + 1
      BY <3>4, <3>5, GoOnFits
    <3>8. Agrees(next, new)
      BY <3>3, <3>4, <3>5, <3>7, <2>1, AgreeFurther
    <3>9. PICK q \in Nat : Segment(walk[visit], walk[next], q)
      <4>1. \A d \in graph.edges : d[1] = visit.box =>
               \E q \in Nat : Segment(walk[visit], walk[GoOn(visit, d)], q)
        BY <3>6, <1>3, WalkHas
      <4>2. e[1] = visit.box
        BY <3>3, <3>5 DEF Agrees
      <4> QED BY <4>1, <4>2, <3>4, <3>7
    <3>10. Segment(Linearised(graph), walk[next], o + q)
      BY <3>5, <3>9, <1>4, SegmentsNest
    <3>11. o + q \in Nat
      OBVIOUS
    <3> QED BY <3>7, <3>8, <3>10, <3>11, <1>3 DEF Visited
  <2> QED BY <2>1, <2>2, <1>5
<1> QED BY <1>0, <1>1, <1>5, <1>6, <1>7, AllNaturals DEF Grows

\* A trip that ends at a send box has its message among those that are emitted.
LEMMA WaysAreMet ==
    ASSUME NEW graph, Sound(graph), NEW trip \in Ways(graph), Last(trip.way) \in Send
    PROVE  \E p \in DOMAIN Linearised(graph) : Linearised(graph)[p] = MessageOf(trip)
<1>1. DepthBound \in Nat
  BY CanvasConstants DEF CanvasConstants
<1>2. PICK n \in 0 .. DepthBound : trip \in Trips(graph)[n]
  BY DEF Ways
<1>3. PICK visit \in Visit, o \in Nat :
         Agrees(visit, trip) /\ visit.depth = n /\ Segment(Linearised(graph), Walk(graph)[visit], o)
  BY <1>2, TripsAreVisited DEF Visited
<1>4. Kind[visit.box] = "send"
  BY <1>3 DEF Send, Agrees
<1>5. visit.box \in graph.nodes
  <2>1. CASE n = 0
    <3>1. trip \in Starts(graph)
      BY <2>1, <1>1, <1>2, TripsAre
    <3>2. PICK first \in Box : first = AtTrigger(graph).box /\ Kind[first] = "trigger"
      BY StartIs
    <3>3. trip = SetOut(first)
      BY <3>1, <3>2, StartIs
    <3>4. Last(trip.way) = first
      BY <3>3, SetOutIs
    <3> QED BY <3>2, <3>4, <1>3, <1>4 DEF Agrees
  <2>2. CASE n # 0
    <3>1. n \in 1 .. DepthBound /\ n - 1 \in 0 .. DepthBound /\ n - 1 \in Nat
      BY <2>2, <1>1
    <3>2. trip \in StepOn(graph, Trips(graph)[n - 1])
      BY <3>1, <1>2, TripsAre
    <3>3. PICK before \in Trips(graph)[n - 1], e \in graph.edges : trip = Further(before, e)
      BY <3>2 DEF StepOn
    <3>4. before \in Travelled(n - 1) /\ e \in Edge
      BY <3>1, <3>3, TripsAre DEF Sound
    <3>5. Last(trip.way) = e[3]
      BY <3>1, <3>3, <3>4, FurtherFits
    <3> QED BY <3>3, <3>5, <1>3 DEF Sound, Agrees
  <2> QED BY <2>1, <2>2
<1>6. ~Halts(graph, visit)
  <2>1. DepthBound \in Nat
    BY CanvasConstants DEF CanvasConstants
  <2> QED BY <2>1, <1>3, <1>4, <1>5 DEF Halts
<1>7. 1 \in DOMAIN Walk(graph)[visit]
      /\ Walk(graph)[visit][1] = [box |-> visit.box, delay |-> visit.delay, branch |-> visit.branch,
                                  condition |-> visit.condition]
  BY <1>4, <1>6, WalkHas
<1>8. o + 1 \in DOMAIN Linearised(graph) /\ Linearised(graph)[o + 1] = Walk(graph)[visit][1]
  BY <1>3, <1>7 DEF Segment
<1>9. Walk(graph)[visit][1] = MessageOf(trip)
  BY <1>3, <1>7 DEF MessageOf, Agrees
<1> QED BY <1>8, <1>9

\* The sends a way comes past before its end are emitted by some place of the list.
Preceded(graph, way, o) ==
    \A i \in 1 .. Len(way) - 1 : Kind[way[i]] = "send" =>
        \E q \in DOMAIN Linearised(graph) : q <= o /\ Linearised(graph)[q].box = way[i]

\* An emitted message is that of a trip, and the sends on its way are emitted before.
Traced(graph, p) ==
    \E trip \in Ways(graph) :
        /\ trip.way \in Seq(Box) /\ trip.way # <<>> /\ Linearised(graph)[p] = MessageOf(trip)
        /\ Preceded(graph, trip.way, p - 1)

LEMMA MessagesAreTraced ==
    ASSUME NEW graph, Sound(graph)
    PROVE  \A p \in DOMAIN Linearised(graph) : Traced(graph, p)
<1>0. DepthBound \in Nat /\ graph.edges \subseteq Edge
  BY CanvasConstants DEF CanvasConstants, Sound
<1>1. PICK trips : trips = Trips(graph)
  OBVIOUS
<1>2. /\ trips[0] = Starts(graph)
      /\ \A n \in 1 .. DepthBound : trips[n] = StepOn(graph, trips[n - 1])
      /\ \A n \in 0 .. DepthBound : trips[n] \subseteq Travelled(n)
  BY <1>0, <1>1, TripsAre
<1>3. PICK walk : walk = Walk(graph)
  OBVIOUS
<1>4. walk \in [Visit -> Seq(Meeting)] /\ Linearised(graph) \in Seq(Meeting)
  BY <1>3, WalkIs, StartIs
<1>5. \A n \in 0 .. DepthBound : trips[n] \subseteq Ways(graph)
  BY <1>1 DEF Ways
<1> DEFINE Comes(visit, o, trip) ==
               /\ visit.depth <= DepthBound /\ trip \in trips[visit.depth] /\ Agrees(visit, trip)
               /\ Segment(Linearised(graph), walk[visit], o) /\ Preceded(graph, trip.way, o)
<1> DEFINE Good(visit, o) == \A p \in DOMAIN walk[visit] : Traced(graph, o + p)
<1>6. PICK S : S = {k \in Nat : \A visit \in Visit, o \in Nat : visit.depth + k > DepthBound =>
                                   \A trip : Comes(visit, o, trip) => Good(visit, o)}
  OBVIOUS
<1>7. 0 \in S
  <2>1. ASSUME NEW visit \in Visit, visit.depth + 0 > DepthBound PROVE ~(visit.depth <= DepthBound)
    BY <2>1, <1>0, VisitIs
  <2> QED BY <2>1, <1>6
<1>8. ASSUME NEW k \in Nat, NEW visit \in Visit, NEW o \in Nat, visit.depth + (k + 1) > DepthBound,
             NEW trip, Comes(visit, o, trip),
             ASSUME NEW next \in Visit, NEW q \in Nat, NEW new, next.depth + k > DepthBound, Comes(next, q, new)
             PROVE  Good(next, q),
             NEW p \in DOMAIN walk[visit]
      PROVE  Traced(graph, o + p)
  <2>1. PICK n \in 0 .. DepthBound : n = visit.depth
    BY <1>0, <1>8, VisitIs
  <2>2. trip \in Travelled(n) /\ trip \in Ways(graph) /\ n \in Nat
    BY <2>1, <1>2, <1>5, <1>8
  <2>3. trip.way \in Seq(Box) /\ Len(trip.way) = n + 1 /\ trip.way # <<>>
    BY <2>2 DEF Travelled, Trip
  <2>4. walk[visit] \in Seq(Meeting) /\ p \in Nat /\ p >= 1
    BY <1>4, LengthIs
  <2>5. o + p \in DOMAIN Linearised(graph) /\ Linearised(graph)[o + p] = walk[visit][p]
    BY <1>8 DEF Segment
  <2>6. CASE Halts(graph, visit)
    <3>1. walk[visit] = <<>>
      BY <2>6, <1>3, WalkIs DEF Emitted
    <3> QED BY <3>1
  <2>7. CASE ~Halts(graph, visit) /\ Kind[visit.box] = "send" /\ p = 1
    <3>1. walk[visit][1] = [box |-> visit.box, delay |-> visit.delay, branch |-> visit.branch,
                            condition |-> visit.condition]
      BY <2>7, <1>3, WalkHas
    <3>2. Linearised(graph)[o + p] = MessageOf(trip)
      BY <3>1, <2>5, <2>7, <1>8 DEF MessageOf, Agrees
    <3>3. PICK r \in Nat : r = o + p /\ r - 1 = o
      BY <2>4, <2>7
    <3>4. Preceded(graph, trip.way, o)
      BY <1>8
    <3>5. Preceded(graph, trip.way, r - 1)
      BY <3>3, <3>4, Zenon
    <3>6. Linearised(graph)[r] = MessageOf(trip) /\ Preceded(graph, trip.way, r - 1)
      BY <3>2, <3>3, <3>5, Zenon
    <3>7. Traced(graph, r)
      BY <3>6, <2>2, <2>3, Zenon DEF Traced
    <3> QED BY <3>3, <3>7, Zenon
  <2>8. CASE ~Halts(graph, visit) /\ ~(Kind[visit.box] = "send" /\ p = 1)
    <3>1. PICK e \in graph.edges, q \in Nat :
             /\ e[1] = visit.box /\ Segment(walk[visit], walk[GoOn(visit, e)], q)
             /\ p - q \in DOMAIN walk[GoOn(visit, e)]
             /\ Kind[visit.box] = "send" => q >= 1
      BY <2>8, <1>3, WalkHas
    <3>2. PICK next \in Visit : next = GoOn(visit, e) /\ next.depth = n + 1 /\ next.box = e[3]
      BY <2>1, <3>1, <1>0, GoOnFits
    <3>3. PICK new : new = Further(trip, e)
      OBVIOUS
    <3>4. next.depth <= DepthBound
      <4>1. CASE next.depth > DepthBound
        <5>1. Halts(graph, next)
          BY <4>1 DEF Halts
        <5>2. walk[next] = <<>>
          BY <5>1, <1>3, WalkIs DEF Emitted
        <5> QED BY <5>2, <3>1, <3>2
      <4> QED BY <4>1, <3>2, <1>0, <2>2
    <3>5. n + 1 \in 1 .. DepthBound /\ n + 1 - 1 = n
      BY <3>2, <3>4, <2>1, <1>0
    <3>6. new \in trips[n + 1]
      <4>1. Last(trip.way) = e[1]
        BY <3>1, <1>8 DEF Agrees
      <4>2. trip \in trips[n]
        BY <2>1, <1>8
      <4>3. new \in StepOn(graph, trips[n])
        BY <4>1, <4>2, <3>1, <3>3 DEF StepOn
      <4> QED BY <4>3, <3>5, <1>2
    <3>7. /\ new.way \in Seq(Box) /\ Len(new.way) = n + 2 /\ Last(new.way) = e[3]
          /\ \A i \in 1 .. n + 1 : new.way[i] = trip.way[i]
          /\ trip.way[n + 1] = visit.box /\ Agrees(next, new)
      <4>1. e \in Edge
        BY <1>0
      <4>2. new \in Travelled(n + 1)
        BY <4>1, <2>2, <3>3, FurtherFits
      <4>3. n + 1 + 1 = n + 2
        BY <2>2
      <4>4. Last(trip.way) = visit.box /\ e[1] = Last(trip.way) /\ Agrees(visit, trip)
        BY <3>1, <1>8 DEF Agrees
      <4>5. Agrees(next, new)
        BY <4>1, <4>4, <2>2, <3>2, <3>3, AgreeFurther
      <4>6. /\ Last(new.way) = e[3] /\ trip.way[n + 1] = visit.box
            /\ \A i \in 1 .. n + 1 : new.way[i] = trip.way[i]
        BY <4>1, <4>4, <2>2, <3>3, FurtherFits
      <4> QED BY <4>2, <4>3, <4>5, <4>6 DEF Travelled, Trip
    <3>8. Segment(Linearised(graph), walk[next], o + q)
      BY <3>1, <3>2, <1>4, <1>8, SegmentsNest
    <3>9. Preceded(graph, new.way, o + q)
      <4> SUFFICES ASSUME NEW i \in 1 .. n + 1, Kind[new.way[i]] = "send"
                   PROVE  \E r \in DOMAIN Linearised(graph) : r <= o + q /\ Linearised(graph)[r].box = new.way[i]
        BY <3>7, <2>2 DEF Preceded
      <4>1. new.way[i] = trip.way[i]
        BY <3>7
      <4>2. CASE i = n + 1
        <5>1. new.way[i] = visit.box /\ Kind[visit.box] = "send" /\ q >= 1
          BY <4>1, <4>2, <3>1, <3>7
        <5>2. 1 \in DOMAIN walk[visit] /\ walk[visit][1].box = visit.box
          <6>1. 1 \in DOMAIN walk[visit] /\ walk[visit][1] = [box |-> visit.box, delay |-> visit.delay,
                                                            branch |-> visit.branch,
                                                            condition |-> visit.condition]
            BY <5>1, <2>8, <1>3, WalkHas
          <6> QED BY <6>1
        <5>3. o + 1 \in DOMAIN Linearised(graph) /\ Linearised(graph)[o + 1] = walk[visit][1] /\ o + 1 <= o + q
          BY <5>1, <5>2, <1>8 DEF Segment
        <5> QED BY <5>1, <5>2, <5>3
      <4>3. CASE i # n + 1
        <5>1. i \in 1 .. Len(trip.way) - 1
          BY <4>3, <2>2, <2>3
        <5>2. PICK r \in DOMAIN Linearised(graph) : r <= o /\ Linearised(graph)[r].box = trip.way[i]
          BY <5>1, <4>1, <1>8 DEF Preceded
        <5>3. r \in Nat /\ r <= o + q
          BY <5>2, <1>4, LengthIs
        <5> QED BY <5>2, <5>3, <4>1
      <4> QED BY <4>2, <4>3
    <3>10. Comes(next, o + q, new)
      BY <3>2, <3>4, <3>6, <3>7, <3>8, <3>9
    <3>11. next.depth + k > DepthBound /\ o + q \in Nat
      BY <2>1, <2>2, <3>2, <1>0, <1>8
    <3>12. Good(next, o + q)
      BY <3>10, <3>11, <1>8
    <3>13. Traced(graph, o + q + (p - q)) /\ o + q + (p - q) = o + p
      BY <3>1, <3>2, <3>12, <2>4
    <3> QED BY <3>13
  <2> QED BY <2>6, <2>7, <2>8
<1>9. ASSUME NEW k \in S PROVE k + 1 \in S
  <2>1. k \in Nat /\ k + 1 \in Nat
    BY <1>6
  <2>2. ASSUME NEW visit \in Visit, NEW o \in Nat, visit.depth + (k + 1) > DepthBound,
               NEW trip, Comes(visit, o, trip)
        PROVE  Good(visit, o)
    <3>1. ASSUME NEW next \in Visit, NEW q \in Nat, NEW new, next.depth + k > DepthBound, Comes(next, q, new)
          PROVE  Good(next, q)
      BY <3>1, <1>6
    <3> HIDE DEF Comes
    <3>2. ASSUME NEW p \in DOMAIN walk[visit] PROVE Traced(graph, o + p)
      BY <3>1, <3>2, <2>1, <2>2, <1>8
    <3> QED BY <3>2
  <2> QED BY <2>1, <2>2, <1>6
<1>10. PICK visit \in Visit : visit = AtTrigger(graph) /\ visit.depth = 0
  BY StartIs
<1>11. Linearised(graph) = walk[visit]
  BY <1>3, <1>10 DEF Linearised
<1>12. PICK trip : trip = SetOut(visit.box)
  OBVIOUS
<1>13. Comes(visit, 0, trip)
  <2>1. trip \in trips[visit.depth] /\ visit.depth <= DepthBound
    BY <1>0, <1>2, <1>10, <1>12, StartIs
  <2>2. Agrees(visit, trip) /\ Len(trip.way) = 1
    BY <1>10, <1>12, StartIs, SetOutIs DEF Agrees
  <2>3. Segment(Linearised(graph), walk[visit], 0)
    <3>1. \A j \in DOMAIN walk[visit] : 0 + j = j
      BY <1>4, LengthIs
    <3> QED BY <3>1, <1>11 DEF Segment
  <2>4. Preceded(graph, trip.way, 0)
    <3>1. \A i \in 1 .. 1 - 1 : FALSE
      OBVIOUS
    <3> QED BY <3>1, <2>2 DEF Preceded
  <2> QED BY <2>1, <2>2, <2>3, <2>4
<1>14. Good(visit, 0)
  <2>1. DepthBound + 1 \in S /\ DepthBound + 1 \in Nat
    BY <1>0, <1>7, <1>9, AllNaturals DEF Grows
  <2>2. visit.depth + (DepthBound + 1) > DepthBound
    BY <1>0, <1>10
  <2> HIDE DEF Comes, Good
  <2> QED BY <2>1, <2>2, <1>6, <1>13
<1>15. \A p \in DOMAIN walk[visit] : 0 + p = p
  BY <1>4, LengthIs
<1> QED BY <1>11, <1>14, <1>15

-----------------------------------------------------------------------------
(* The plan                                                                *)

LEMMA MinIs ==
    ASSUME NEW S \in SUBSET Nat, S # {}
    PROVE  Min(S) \in S /\ \A m \in S : Min(S) <= m
<1>1. PICK n \in S : \A m \in S : n <= m
  BY LeastOf
<1>2. Min(S) = CHOOSE x \in S : \A y \in S : x <= y
  BY DEF Min
<1> QED BY <1>1, <1>2, Zenon

MetBoxes(messages) == {messages[i].box : i \in DOMAIN messages}

\* Two meetings that came by the same branch of the same question.
Alike(messages, i, j) ==
    messages[j].condition = messages[i].condition /\ messages[j].branch = messages[i].branch

\* collapseRejoins keeps a row for every box that was met: it is due with the earliest
\* meeting and asks what they all ask; the numbers follow the first meetings.
LEMMA CollapseIs ==
    ASSUME NEW messages \in Seq(Meeting), NEW rows, rows = Collapse(messages)
    PROVE  /\ DOMAIN rows = MetBoxes(messages) /\ MetBoxes(messages) \subseteq Send /\ IsFiniteSet(MetBoxes(messages))
           /\ \A b \in MetBoxes(messages) :
                 /\ rows[b] \in [seq : 1 .. Cardinality(MetBoxes(messages)), delay : Nat, condition : Condition,
                                 enabled : BOOLEAN]
                 /\ rows[b].enabled
                 /\ \E i \in DOMAIN messages : messages[i].box = b /\ rows[b].delay = messages[i].delay
                 /\ \A i \in DOMAIN messages : messages[i].box = b =>
                       /\ rows[b].delay <= messages[i].delay
                       /\ rows[b].condition =
                             IF \A j \in DOMAIN messages : messages[j].box = b => Alike(messages, i, j)
                             THEN messages[i].condition ELSE Always
           /\ {rows[b].seq : b \in MetBoxes(messages)} = 1 .. Cardinality(MetBoxes(messages))
           /\ \A a, b \in MetBoxes(messages) :
                 (\A i \in DOMAIN messages : messages[i].box = b =>
                     \E j \in DOMAIN messages : j < i /\ messages[j].box = a)
                 => rows[a].seq < rows[b].seq
<1>1. PICK met : met = MetBoxes(messages)
  OBVIOUS
<1>2. PICK n \in Nat : DOMAIN messages = 1 .. n
  BY LengthIs
<1>3. \A i \in 1 .. n : /\ messages[i].box \in Send /\ messages[i].delay \in Nat
                        /\ messages[i].condition \in Condition
  <2>1. \A i \in 1 .. n : messages[i] \in Meeting
    BY <1>2, LengthIs
  <2> QED BY <2>1 DEF Meeting
<1>4. met \subseteq Send /\ \A b \in met : \E i \in 1 .. n : messages[i].box = b
  BY <1>1, <1>2, <1>3 DEF MetBoxes
<1>5. IsFiniteSet(met)
  <2>1. met \in SUBSET Box /\ IsFiniteSet(Box)
    BY <1>4, CanvasConstants DEF CanvasConstants, Send
  <2> QED BY <2>1, FS_Subset
<1>6. ASSUME NEW b \in met
      PROVE  /\ Meetings(messages, b) \in SUBSET Nat /\ Meetings(messages, b) # {}
             /\ \A i \in 1 .. n : i \in Meetings(messages, b) <=> messages[i].box = b
             /\ Meetings(messages, b) \subseteq 1 .. n
             /\ Min(Meetings(messages, b)) \in Meetings(messages, b)
             /\ \A i \in Meetings(messages, b) : Min(Meetings(messages, b)) <= i
  <2>1. PICK S : S = Meetings(messages, b)
    OBVIOUS
  <2>2. S = {i \in 1 .. n : messages[i].box = b}
    BY <2>1, <1>2 DEF Meetings
  <2>3. S \in SUBSET Nat /\ S # {}
    BY <2>2, <1>4, <1>6
  <2>4. Min(S) \in S /\ \A i \in S : Min(S) <= i
    BY <2>3, MinIs
  <2> QED BY <2>1, <2>2, <2>3, <2>4
<1>7. PICK place : place = [b \in met |-> Min(Meetings(messages, b))]
  OBVIOUS
<1>8. ASSUME NEW b \in met PROVE /\ place[b] \in 1 .. n /\ place[b] \in Int /\ messages[place[b]].box = b
                                 /\ place[b] = Min(Meetings(messages, b))
                                 /\ \A i \in 1 .. n : messages[i].box = b => place[b] <= i
  BY <1>6, <1>7, <1>8
<1>9. place \in [met -> Int] /\ \A a, b \in met : place[a] = place[b] => a = b
  <2>1. place \in [met -> Int]
    BY <1>7, <1>8
  <2> QED BY <2>1, <1>8
<1>10. PICK m \in Nat : /\ m = Cardinality(met)
                        /\ \A b \in met : Rating(met, place, b) \in 1 .. m
                        /\ \A a, b \in met : place[a] < place[b] => Rating(met, place, a) < Rating(met, place, b)
                        /\ \A i \in 1 .. m : \E b \in met : Rating(met, place, b) = i
  BY <1>5, <1>9, Rated
<1>11. ASSUME NEW b \in met
       PROVE  /\ rows[b].seq = Rating(met, place, b) /\ rows[b].enabled = TRUE
              /\ rows[b] \in [seq : 1 .. m, delay : Nat, condition : Condition, enabled : BOOLEAN]
              /\ \E i \in 1 .. n : messages[i].box = b /\ rows[b].delay = messages[i].delay
              /\ \A i \in 1 .. n : messages[i].box = b =>
                    /\ rows[b].delay <= messages[i].delay
                    /\ rows[b].condition = IF \A j \in 1 .. n : messages[j].box = b => Alike(messages, i, j)
                                           THEN messages[i].condition ELSE Always
  <2>1. PICK first \in 1 .. n : first = place[b] /\ messages[first].box = b
    BY <1>8
  <2>2. PICK agreed : agreed = \A i \in Meetings(messages, b) :
                                  /\ messages[i].condition = messages[first].condition
                                  /\ messages[i].branch = messages[first].branch
    OBVIOUS
  <2>3. PICK D : D = {messages[i].delay : i \in Meetings(messages, b)}
    OBVIOUS
  <2>4. D \in SUBSET Nat /\ D # {}
    BY <2>3, <1>3, <1>6
  <2>5. Min(D) \in Nat /\ Min(D) \in D /\ \A d \in D : Min(D) <= d
    BY <2>4, MinIs
  <2>6. rows[b] = [seq |-> Cardinality({c \in met : Min(Meetings(messages, c)) <= Min(Meetings(messages, b))}),
                   delay |-> Min({messages[i].delay : i \in Meetings(messages, b)}),
                   condition |->
                      IF \A i \in Meetings(messages, b) :
                            /\ messages[i].condition = messages[Min(Meetings(messages, b))].condition
                            /\ messages[i].branch = messages[Min(Meetings(messages, b))].branch
                      THEN messages[Min(Meetings(messages, b))].condition ELSE Always,
                   enabled |-> TRUE]
    BY <1>1, <1>11 DEF Collapse, MetBoxes
  <2>7. {c \in met : Min(Meetings(messages, c)) <= Min(Meetings(messages, b))} = {c \in met : place[c] <= place[b]}
    BY <1>7
  <2>8. PICK condition : condition = IF agreed THEN messages[first].condition ELSE Always
    OBVIOUS
  <2>9. rows[b] = [seq |-> Rating(met, place, b), delay |-> Min(D), condition |-> condition, enabled |-> TRUE]
    <3>1. Min(Meetings(messages, b)) = first
      BY <2>1, <1>8
    <3> QED BY <3>1, <2>2, <2>3, <2>6, <2>7, <2>8 DEF Rating
  <2>10. condition \in Condition
    BY <2>8, <1>3 DEF Condition
  <2>11. ASSUME NEW i \in 1 .. n, messages[i].box = b
         PROVE  /\ Min(D) <= messages[i].delay
                /\ condition = IF \A j \in 1 .. n : messages[j].box = b => Alike(messages, i, j)
                               THEN messages[i].condition ELSE Always
    <3>1. i \in Meetings(messages, b)
      BY <2>11, <1>6
    <3>2. messages[i].delay \in D
      BY <3>1, <2>3
    <3>3. agreed <=> \A j \in 1 .. n : messages[j].box = b => Alike(messages, i, j)
      <4>1. \A j \in 1 .. n : j \in Meetings(messages, b) <=> messages[j].box = b
        BY <1>6
      <4>2. Meetings(messages, b) \subseteq 1 .. n /\ first \in Meetings(messages, b)
        BY <1>6, <2>1
      <4>3. ASSUME agreed, NEW j \in 1 .. n, messages[j].box = b PROVE Alike(messages, i, j)
        BY <4>1, <4>3, <3>1, <2>2 DEF Alike
      <4>4. ASSUME \A j \in 1 .. n : messages[j].box = b => Alike(messages, i, j) PROVE agreed
        <5>1. Alike(messages, i, first)
          BY <4>4, <2>1
        <5>2. \A j \in Meetings(messages, b) : Alike(messages, i, j)
          BY <4>1, <4>2, <4>4
        <5> QED BY <5>1, <5>2, <2>2 DEF Alike
      <4> QED BY <4>3, <4>4
    <3>4. agreed => messages[i].condition = messages[first].condition
      BY <3>1, <2>2
    <3> QED BY <3>2, <3>3, <3>4, <2>5, <2>8
  <2>12. Rating(met, place, b) \in 1 .. m
    BY <1>10
  <2>13. \E i \in 1 .. n : messages[i].box = b /\ Min(D) = messages[i].delay
    <3>1. PICK i \in Meetings(messages, b) : Min(D) = messages[i].delay
      BY <2>3, <2>5
    <3> QED BY <3>1, <1>6
  <2> QED BY <2>5, <2>9, <2>10, <2>11, <2>12, <2>13
<1>12. DOMAIN rows = met
  BY <1>1 DEF Collapse, MetBoxes
<1>13. \A b \in met : rows[b].seq = Rating(met, place, b)
  BY <1>11
<1>14. {rows[b].seq : b \in met} = 1 .. m
  <2>1. \A b \in met : rows[b].seq \in 1 .. m
    BY <1>10, <1>13
  <2>2. \A i \in 1 .. m : \E b \in met : rows[b].seq = i
    BY <1>10, <1>13
  <2> QED BY <2>1, <2>2
<1>15. ASSUME NEW a \in met, NEW b \in met,
              \A i \in 1 .. n : messages[i].box = b => \E j \in 1 .. n : j < i /\ messages[j].box = a
       PROVE  rows[a].seq < rows[b].seq
  <2>1. PICK j \in 1 .. n : j < place[b] /\ messages[j].box = a
    BY <1>8, <1>15
  <2>2. place[a] <= j
    BY <2>1, <1>8
  <2>3. place[a] < place[b]
    BY <2>1, <2>2, <1>8
  <2> QED BY <2>3, <1>10, <1>13
<1>16. ASSUME NEW b \in met
       PROVE  /\ rows[b] \in [seq : 1 .. Cardinality(met), delay : Nat, condition : Condition, enabled : BOOLEAN]
              /\ rows[b].enabled
              /\ \E i \in DOMAIN messages : messages[i].box = b /\ rows[b].delay = messages[i].delay
              /\ \A i \in DOMAIN messages : messages[i].box = b =>
                    /\ rows[b].delay <= messages[i].delay
                    /\ rows[b].condition =
                          IF \A j \in DOMAIN messages : messages[j].box = b => Alike(messages, i, j)
                          THEN messages[i].condition ELSE Always
  <2>1. rows[b] \in [seq : 1 .. m, delay : Nat, condition : Condition, enabled : BOOLEAN] /\ rows[b].enabled
    BY <1>11
  <2>2. \E i \in DOMAIN messages : messages[i].box = b /\ rows[b].delay = messages[i].delay
    BY <1>2, <1>11
  <2>3. ASSUME NEW i \in DOMAIN messages, messages[i].box = b
        PROVE  /\ rows[b].delay <= messages[i].delay
               /\ rows[b].condition =
                     IF \A j \in DOMAIN messages : messages[j].box = b => Alike(messages, i, j)
                     THEN messages[i].condition ELSE Always
    BY <2>3, <1>2, <1>11
  <2> QED BY <2>1, <2>2, <2>3, <1>10
<1>17. \A a, b \in met :
          (\A i \in DOMAIN messages : messages[i].box = b => \E j \in DOMAIN messages : j < i /\ messages[j].box = a)
          => rows[a].seq < rows[b].seq
  BY <1>2, <1>15, Zenon
<1>18. {rows[b].seq : b \in met} = 1 .. Cardinality(met)
  BY <1>10, <1>14
<1> HIDE DEF MetBoxes
<1> QED BY <1>1, <1>4, <1>5, <1>12, <1>16, <1>17, <1>18, Zenon

-----------------------------------------------------------------------------
(* The invariant                                                           *)

CanvasInv ==
    /\ CanvasTypeOK /\ IsFiniteSet(edges)
    /\ RowsFollowWays /\ SequenceFollowsCanvas

LEMMA SendsAreFinite ==
    IsFiniteSet(Send) /\ Cardinality(Send) \in Nat /\ \A s \in Send : Cardinality(Send) > 0
<1>1. Send \in SUBSET Box /\ IsFiniteSet(Box)
  BY CanvasConstants DEF CanvasConstants, Send
<1>2. IsFiniteSet(Send) /\ Cardinality(Send) \in Nat
  BY <1>1, FS_Subset, FS_CardinalityType
<1>3. ASSUME NEW s \in Send PROVE Cardinality(Send) # 0
  BY <1>2, FS_EmptySet
<1> QED BY <1>2, <1>3

LEMMA CanvasStart == CanvasInit => CanvasInv
<1> SUFFICES ASSUME CanvasInit PROVE CanvasInv
  OBVIOUS
<1>1. CanvasTypeOK
  <2>1. \A s \in Send : 1 \in 1 .. Cardinality(Send)
    BY SendsAreFinite
  <2>2. Always \in Condition
    BY DEF Condition
  <2> QED BY <2>1, <2>2 DEF CanvasInit, CanvasTypeOK
<1>2. IsFiniteSet(edges)
  BY FS_EmptySet DEF CanvasInit
<1>3. RowsFollowWays /\ SequenceFollowsCanvas
  BY DEF CanvasInit, RowsFollowWays, SequenceFollowsCanvas
<1> QED BY <1>1, <1>2, <1>3 DEF CanvasInv

\* What validateFlow lets through can be walked.
LEMMA ValidIsSound ==
    ASSUME CanvasTypeOK, IsFiniteSet(edges), ValidFlow(Canvas)
    PROVE  Sound(Canvas)
<1>1. Canvas.nodes = boxes /\ Canvas.edges = edges /\ boxes \subseteq Box /\ edges \subseteq Edge
  BY DEF Canvas, CanvasTypeOK
<1>2. \E t \in Canvas.nodes : Triggers(Canvas) = {t}
  <2>1. Triggers(Canvas) \in SUBSET Box /\ IsFiniteSet(Box)
    BY <1>1, CanvasConstants DEF Triggers, CanvasConstants
  <2>2. IsFiniteSet(Triggers(Canvas)) /\ Cardinality(Triggers(Canvas)) = 1
    BY <2>1, FS_Subset DEF ValidFlow
  <2>3. PICK t : Triggers(Canvas) = {t}
    BY <2>2, FS_Singleton
  <2> QED BY <2>3 DEF Triggers
<1>3. \A e \in Canvas.edges : e[1] \in Canvas.nodes /\ e[3] \in Canvas.nodes
  BY DEF ValidFlow, Dangling
<1> QED BY <1>1, <1>2, <1>3 DEF Sound

\* The rows that a save leaves.
LEMMA SaveIs ==
    ASSUME CanvasInv, SaveJourney, NEW messages, messages = Linearised(Canvas),
           NEW rows, rows = Collapse(messages)
    PROVE  /\ messages \in Seq(Meeting) /\ MetBoxes(messages) \subseteq Send
           /\ stored' \in [Send -> [seq : 1 .. Cardinality(Send), delay : Nat, condition : Condition,
                                    enabled : BOOLEAN]]
           /\ \A s \in MetBoxes(messages) : stored'[s] = rows[s]
           /\ \A s \in Send : stored'[s].enabled <=> s \in MetBoxes(messages)
<1>1. Sound(Canvas) /\ CanvasTypeOK
  BY ValidIsSound DEF CanvasInv, SaveJourney
<1>2. messages \in Seq(Meeting)
  BY <1>1, StartIs
<1>3. PICK met : met = MetBoxes(messages)
  OBVIOUS
<1>4. /\ DOMAIN rows = met /\ met \subseteq Send /\ IsFiniteSet(met)
      /\ \A b \in met : /\ rows[b] \in [seq : 1 .. Cardinality(met), delay : Nat, condition : Condition,
                                        enabled : BOOLEAN]
                        /\ rows[b].enabled
  BY <1>2, <1>3, CollapseIs
<1>5. Cardinality(met) \in Nat /\ Cardinality(Send) \in Nat /\ Cardinality(met) <= Cardinality(Send)
  BY <1>4, SendsAreFinite, FS_Subset, FS_CardinalityType
<1>6. stored' = [s \in Send |-> IF s \in met THEN rows[s] ELSE [stored[s] EXCEPT !.enabled = FALSE]]
  BY <1>4 DEF SaveJourney, Planned
<1>7. ASSUME NEW s \in Send
      PROVE  /\ stored'[s] \in [seq : 1 .. Cardinality(Send), delay : Nat, condition : Condition,
                                enabled : BOOLEAN]
             /\ s \in met => stored'[s] = rows[s]
             /\ stored'[s].enabled <=> s \in met
  <2>1. CASE s \in met
    <3>1. stored'[s] = rows[s]
      BY <2>1, <1>6
    <3>2. rows[s].seq \in 1 .. Cardinality(Send)
      BY <2>1, <1>4, <1>5
    <3> QED BY <2>1, <3>1, <3>2, <1>4
  <2>2. CASE s \notin met
    <3>1. stored'[s] = [stored[s] EXCEPT !.enabled = FALSE]
      BY <2>2, <1>6
    <3>2. stored[s] \in [seq : 1 .. Cardinality(Send), delay : Nat, condition : Condition, enabled : BOOLEAN]
      BY <1>1 DEF CanvasTypeOK
    <3> QED BY <2>2, <3>1, <3>2
  <2> QED BY <2>1, <2>2
<1>8. stored' \in [Send -> [seq : 1 .. Cardinality(Send), delay : Nat, condition : Condition, enabled : BOOLEAN]]
  BY <1>6, <1>7
<1> QED BY <1>2, <1>3, <1>4, <1>7, <1>8

\* Every trip to a send box is a meeting of the list, and every meeting is a trip.
LEMMA MeetingsAreTrips ==
    ASSUME NEW graph, Sound(graph), NEW s \in Send, NEW messages, messages = Linearised(graph)
    PROVE  /\ \A trip \in WaysTo(graph, s) : \E p \in DOMAIN messages :
                 messages[p] = MessageOf(trip) /\ messages[p].box = s
           /\ \A p \in DOMAIN messages : messages[p].box = s =>
                 \E trip \in WaysTo(graph, s) : messages[p] = MessageOf(trip)
<1>1. ASSUME NEW trip \in WaysTo(graph, s)
      PROVE  \E p \in DOMAIN messages : messages[p] = MessageOf(trip) /\ messages[p].box = s
  <2>1. trip \in Ways(graph) /\ Last(trip.way) = s
    BY DEF WaysTo
  <2>2. PICK p \in DOMAIN messages : messages[p] = MessageOf(trip)
    BY <2>1, WaysAreMet
  <2> QED BY <2>1, <2>2 DEF MessageOf
<1>2. ASSUME NEW p \in DOMAIN messages, messages[p].box = s
      PROVE  \E trip \in WaysTo(graph, s) : messages[p] = MessageOf(trip)
  <2>1. PICK trip \in Ways(graph) : messages[p] = MessageOf(trip)
    BY MessagesAreTraced DEF Traced
  <2>2. Last(trip.way) = s
    BY <2>1, <1>2 DEF MessageOf
  <2> QED BY <2>1, <2>2 DEF WaysTo
<1> QED BY <1>1, <1>2

\* What a row of a save is, by the meetings and so by the ways (planMessageSync).
LEMMA SaveFollowsWays == CanvasInv /\ SaveJourney => RowsFollowWays'
<1> SUFFICES ASSUME CanvasInv, SaveJourney PROVE RowsFollowWays'
  OBVIOUS
<1>1. Sound(Canvas) /\ Canvas' = Canvas
  BY ValidIsSound DEF CanvasInv, SaveJourney, Canvas
<1>2. PICK messages : messages = Linearised(Canvas)
  OBVIOUS
<1>3. PICK rows : rows = Collapse(messages)
  OBVIOUS
<1>4. /\ messages \in Seq(Meeting)
      /\ \A s \in MetBoxes(messages) : stored'[s] = rows[s]
      /\ \A s \in Send : stored'[s].enabled <=> s \in MetBoxes(messages)
  BY <1>2, <1>3, SaveIs
<1>5. ASSUME NEW s \in Send, NEW trips, trips = WaysTo(Canvas, s)
      PROVE  /\ stored'[s].enabled <=> trips # {}
             /\ trips # {} => \E trip \in trips : stored'[s].delay = trip.waited
             /\ \A trip \in trips :
                   /\ stored'[s].delay <= trip.waited
                   /\ stored'[s].condition =
                         IF \A other \in trips : /\ other.condition = trip.condition
                                                 /\ other.branch = trip.branch
                         THEN trip.condition ELSE Always
  <2>1. /\ \A trip \in trips : \E p \in DOMAIN messages :
              messages[p] = MessageOf(trip) /\ messages[p].box = s
        /\ \A p \in DOMAIN messages : messages[p].box = s =>
              \E trip \in trips : messages[p] = MessageOf(trip)
    BY <1>1, <1>2, <1>5, MeetingsAreTrips
  <2>2. s \in MetBoxes(messages) <=> trips # {}
    BY <2>1 DEF MetBoxes
  <2>3. ASSUME s \in MetBoxes(messages)
        PROVE  /\ stored'[s] = rows[s]
               /\ \E i \in DOMAIN messages : messages[i].box = s /\ rows[s].delay = messages[i].delay
               /\ \A i \in DOMAIN messages : messages[i].box = s =>
                     /\ rows[s].delay <= messages[i].delay
                     /\ rows[s].condition =
                           IF \A j \in DOMAIN messages : messages[j].box = s => Alike(messages, i, j)
                           THEN messages[i].condition ELSE Always
    BY <2>3, <1>3, <1>4, CollapseIs
  <2>4. ASSUME trips # {} PROVE \E trip \in trips : stored'[s].delay = trip.waited
    <3>1. PICK i \in DOMAIN messages : messages[i].box = s /\ stored'[s].delay = messages[i].delay
      BY <2>2, <2>3, <2>4
    <3>2. PICK trip \in trips : messages[i] = MessageOf(trip)
      BY <3>1, <2>1
    <3> QED BY <3>1, <3>2 DEF MessageOf
  <2>5. ASSUME NEW trip \in trips
        PROVE  /\ stored'[s].delay <= trip.waited
               /\ stored'[s].condition =
                     IF \A other \in trips : other.condition = trip.condition /\ other.branch = trip.branch
                     THEN trip.condition ELSE Always
    <3>1. PICK p \in DOMAIN messages : messages[p] = MessageOf(trip) /\ messages[p].box = s
      BY <2>1
    <3>2. messages[p].delay = trip.waited /\ messages[p].condition = trip.condition
          /\ messages[p].branch = trip.branch
      BY <3>1 DEF MessageOf
    <3>3. (\A j \in DOMAIN messages : messages[j].box = s => Alike(messages, p, j))
          <=> \A other \in trips : other.condition = trip.condition /\ other.branch = trip.branch
      <4>1. ASSUME \A j \in DOMAIN messages : messages[j].box = s => Alike(messages, p, j),
                   NEW other \in trips
            PROVE  other.condition = trip.condition /\ other.branch = trip.branch
        <5>1. PICK j \in DOMAIN messages : messages[j] = MessageOf(other) /\ messages[j].box = s
          BY <2>1
        <5>2. messages[j].condition = other.condition /\ messages[j].branch = other.branch
          BY <5>1 DEF MessageOf
        <5> QED BY <4>1, <5>1, <5>2, <3>2 DEF Alike
      <4>2. ASSUME \A other \in trips : other.condition = trip.condition /\ other.branch = trip.branch,
                   NEW j \in DOMAIN messages, messages[j].box = s
            PROVE  Alike(messages, p, j)
        <5>1. PICK other \in trips : messages[j] = MessageOf(other)
          BY <2>1, <4>2
        <5>2. messages[j].condition = other.condition /\ messages[j].branch = other.branch
          BY <5>1 DEF MessageOf
        <5> QED BY <4>2, <5>1, <5>2, <3>2 DEF Alike
      <4> QED BY <4>1, <4>2
    <3>4. s \in MetBoxes(messages)
      BY <2>2, <2>5
    <3>5. /\ stored'[s].delay <= messages[p].delay
          /\ stored'[s].condition =
                IF \A j \in DOMAIN messages : messages[j].box = s => Alike(messages, p, j)
                THEN messages[p].condition ELSE Always
      BY <3>1, <3>4, <2>3
    <3> QED BY <3>2, <3>3, <3>5
  <2> QED BY <2>2, <2>4, <2>5, <1>4
<1>6. \A s \in Send : WaysTo(Canvas', s) = WaysTo(Canvas, s)
  BY <1>1
<1> QED BY <1>5, <1>6 DEF RowsFollowWays

\* The rows of a save are numbered in the order of the ways (collapseRejoins).
LEMMA SaveFollowsCanvas == CanvasInv /\ SaveJourney => SequenceFollowsCanvas'
<1> SUFFICES ASSUME CanvasInv, SaveJourney PROVE SequenceFollowsCanvas'
  OBVIOUS
<1>1. Sound(Canvas) /\ Canvas' = Canvas /\ edges' = edges /\ Canvas.edges = edges
  BY ValidIsSound DEF CanvasInv, SaveJourney, Canvas
<1>2. PICK messages : messages = Linearised(Canvas)
  OBVIOUS
<1>3. PICK rows : rows = Collapse(messages)
  OBVIOUS
<1>4. PICK live : live = {s \in Send : stored'[s].enabled}
  OBVIOUS
<1>5. /\ messages \in Seq(Meeting) /\ live = MetBoxes(messages)
      /\ \A s \in live : stored'[s] = rows[s]
  <2>1. /\ messages \in Seq(Meeting) /\ MetBoxes(messages) \subseteq Send
        /\ \A s \in MetBoxes(messages) : stored'[s] = rows[s]
        /\ \A s \in Send : stored'[s].enabled <=> s \in MetBoxes(messages)
    BY <1>2, <1>3, SaveIs
  <2>2. live = MetBoxes(messages)
    BY <2>1, <1>4
  <2> QED BY <2>1, <2>2
<1>6. {stored'[s].seq : s \in live} = 1 .. Cardinality(live)
  <2>1. {rows[s].seq : s \in live} = 1 .. Cardinality(live)
    BY <1>3, <1>5, CollapseIs
  <2>2. {stored'[s].seq : s \in live} = {rows[s].seq : s \in live}
    BY <1>5
  <2> QED BY <2>1, <2>2
<1>7. ASSUME NEW a \in live, NEW b \in live, a # b,
             \A way \in {trip.way : trip \in Ways(Canvas)} :
                Last(way) = b => \E i \in DOMAIN way : way[i] = a
      PROVE  stored'[a].seq < stored'[b].seq
  <2>1. ASSUME NEW p \in DOMAIN messages, messages[p].box = b
        PROVE  \E q \in DOMAIN messages : q < p /\ messages[q].box = a
    <3>1. PICK trip \in Ways(Canvas) :
             /\ trip.way \in Seq(Box) /\ trip.way # <<>> /\ Last(trip.way) = b
             /\ Preceded(Canvas, trip.way, p - 1)
      BY <2>1, <1>1, <1>2, MessagesAreTraced DEF Traced, MessageOf
    <3>2. PICK i \in DOMAIN trip.way : trip.way[i] = a
      BY <3>1, <1>7
    <3>3. PICK n \in Nat : n = Len(trip.way) /\ DOMAIN trip.way = 1 .. n
      BY <3>1, LengthIs
    <3>4. i \in 1 .. Len(trip.way) - 1
      <4>1. i # n
        BY <3>1, <3>2, <3>3, <1>7 DEF Last
      <4> QED BY <4>1, <3>2, <3>3
    <3>5. Kind[trip.way[i]] = "send"
      BY <3>2, <1>4 DEF Send
    <3>6. PICK q \in DOMAIN messages : q <= p - 1 /\ messages[q].box = a
      BY <3>1, <3>2, <3>4, <3>5, <1>2 DEF Preceded
    <3>7. p \in Nat /\ q \in Nat
      BY <2>1, <3>6, <1>5, LengthIs
    <3> QED BY <3>6, <3>7
  <2>2. rows[a].seq < rows[b].seq
    BY <2>1, <1>3, <1>5, CollapseIs
  <2> QED BY <2>2, <1>5
<1> QED BY <1>1, <1>4, <1>6, <1>7 DEF SequenceFollowsCanvas

LEMMA CanvasStep == CanvasInv /\ [CanvasNext]_canvasVars => CanvasInv'
<1> SUFFICES ASSUME CanvasInv, [CanvasNext]_canvasVars PROVE CanvasInv'
  OBVIOUS
<1>1. CASE UNCHANGED canvasVars
  <2>1. /\ boxes' = boxes /\ edges' = edges /\ stored' = stored /\ saved' = saved
        /\ Canvas' = Canvas
    BY <1>1 DEF canvasVars, Canvas
  <2>2. CanvasTypeOK' /\ IsFiniteSet(edges)'
    BY <2>1 DEF CanvasInv, CanvasTypeOK
  <2>3. RowsFollowWays'
    BY <2>1, Zenon DEF CanvasInv, RowsFollowWays
  <2>4. SequenceFollowsCanvas'
    BY <2>1, Zenon DEF CanvasInv, SequenceFollowsCanvas
  <2> QED BY <2>2, <2>3, <2>4 DEF CanvasInv
<1>2. ASSUME NEW e \in Edge, Connect(e) PROVE CanvasInv'
  <2>1. CanvasTypeOK' /\ saved' = FALSE
    BY <1>2, EdgeIs DEF CanvasInv, CanvasTypeOK, Connect
  <2>2. IsFiniteSet(edges')
    BY <1>2, FS_AddElement DEF CanvasInv, Connect
  <2> QED BY <2>1, <2>2 DEF CanvasInv, RowsFollowWays, SequenceFollowsCanvas
<1>3. ASSUME NEW b \in Box, DeleteBox(b) PROVE CanvasInv'
  <2>1. CanvasTypeOK' /\ saved' = FALSE /\ edges' = edges
    BY <1>3 DEF CanvasInv, CanvasTypeOK, DeleteBox
  <2> QED BY <2>1 DEF CanvasInv, RowsFollowWays, SequenceFollowsCanvas
<1>4. CASE SaveJourney
  <2>1. CanvasTypeOK' /\ IsFiniteSet(edges)'
    <3>1. stored' \in [Send -> [seq : 1 .. Cardinality(Send), delay : Nat, condition : Condition,
                                enabled : BOOLEAN]]
      BY <1>4, SaveIs
    <3> QED BY <3>1, <1>4 DEF CanvasInv, CanvasTypeOK, SaveJourney
  <2> QED BY <2>1, <1>4, SaveFollowsWays, SaveFollowsCanvas DEF CanvasInv
<1> QED BY <1>1, <1>2, <1>3, <1>4 DEF CanvasNext

\* For any boxes, waits, conditions and any order of the edges: the live rows of a saved
\* canvas are those of the send boxes that a way leads to, due after the least wait of the
\* ways and under the question they agree on, and they are numbered in the order in which
\* the canvas has them (flow.ts:308-451).  Who gets a message is decided when it is sent.
THEOREM CanvasKeepsItsPromise == ServicesSpec => []CanvasHolds
<1>1. ServicesInit => CanvasInv
  BY CanvasStart DEF ServicesInit
<1>2. CanvasInv /\ [ServicesNext]_servicesVars => CanvasInv'
  <2>1. [ServicesNext]_servicesVars => [CanvasNext]_canvasVars
    BY DEF ServicesNext, servicesVars
  <2> QED BY <2>1, CanvasStep
<1>3. CanvasInv => CanvasHolds
  BY DEF CanvasInv, CanvasHolds
<1> QED BY <1>1, <1>2, <1>3, PTL DEF ServicesSpec
=============================================================================
