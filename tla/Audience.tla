------------------------------ MODULE Audience ------------------------------
(***************************************************************************)
(* Segments (packages/core/src/audience): a definition of rules is         *)
(* compiled to one SQL predicate, which Postgres evaluates in three        *)
(* values; `matches` asks it for one contact and, on a no, explains itself *)
(* by a series of further statements, between which the contact may be     *)
(* edited and the clock moves.  Rules nest at most one level here.         *)
(***************************************************************************)
EXTENDS Integers, Sequences

CONSTANTS
    Definition,     \* audiences: the rules of the groups all, any and none
    Unset,          \* a column that is NULL, or an attribute nobody set
    Words,          \* the value of an attribute that is not a number
    Scores,         \* the values of attributes.score
    Visits,         \* the values of last_order_at, as days
    Tags,
    Substring,      \* pairs <<pattern, value>> for which ILIKE '%pattern%' holds
    LastDay         \* bound: the clock

Groups == {"all", "any", "none"}
Operators ==
    {"eq", "neq", "gt", "gte", "lt", "lte", "in", "not_in", "contains", "not_contains",
     "within_days", "not_within_days", "is_set", "is_not_set"}

\* A rule of the shared schema: a leaf, or a group of leaves.
IsLeaf(rule) ==
    /\ DOMAIN rule = {"op", "field", "value"} /\ rule.op \in Operators
    /\ rule.field \in {"score", "visit", "tags"} /\ rule.value # Unset
    /\ rule.op \in {"within_days", "not_within_days"} => rule.value \in Int
IsRule(rule) == IsLeaf(rule) \/ (rule.op \in Groups /\ \A leaf \in rule.rules : IsLeaf(leaf))

ASSUME AudienceConstants ==
    /\ LastDay \in Nat /\ Unset # Words /\ Visits \subseteq Int \cup {Unset}
    /\ \A audience \in Definition : \A group \in DOMAIN audience :
          /\ group \in Groups
          /\ audience[group] \in Seq({audience[group][i] : i \in DOMAIN audience[group]})
          /\ \A i \in DOMAIN audience[group] : IsRule(audience[group][i])

VARIABLES
    person,      \* the row of the contact
    dayNow,       \* the clock every compilation reads
    segment,     \* the audience that is asked about
    query,       \* how far matches has come, and what it answered
    moved        \* history: the row or the clock changed since matches began

audienceVars == <<person, dayNow, segment, query, moved>>

Person == [score : Scores, visit : Visits, tags : SUBSET Tags]

AudienceInit ==
    /\ person \in Person
    /\ dayNow = 0
    /\ segment \in Definition
    /\ query = [at |-> "idle", next |-> 1, answer |-> <<"nothing">>]
    /\ moved = FALSE

-----------------------------------------------------------------------------
(* compileLeaf: the SQL of one rule, by the value it has for a row *)

ToSql(b) == IF b THEN "true" ELSE "false"
Strict(v, b) == IF v = Unset THEN "null" ELSE ToSql(b)     \* an operator of SQL
Lenient(v, b) == ToSql(v = Unset \/ b)                     \* IS NULL OR ...

\* Mutant of Uncompilable: comparisons are left to Postgres.
UncompilableLater(leaf) ==
    \/ leaf.op \in {"within_days", "not_within_days"} /\ (leaf.field # "visit" \/ leaf.value < 0)
    \/ leaf.op \in {"contains", "not_contains"} /\ leaf.field = "visit"
    \/ leaf.op \in {"in", "not_in"} /\ leaf.value = {}

\* What compileLeaf refuses; the fields are an attribute, a time and an array.
Uncompilable(leaf) ==
    \/ leaf.op \in {"within_days", "not_within_days"} /\ (leaf.field # "visit" \/ leaf.value < 0)
    \/ leaf.op \in {"contains", "not_contains"} /\ leaf.field = "visit"
    \/ leaf.op \in {"in", "not_in"} /\ leaf.value = {}
    \/ leaf.op \in {"eq", "neq", "gt", "gte", "lt", "lte"} /\ leaf.field = "tags"

\* Mutant of Comparison: neq is SQL's <>.
ComparisonStrict(op, v, x) ==
    CASE op = "eq" -> Strict(v, v = x)
      [] op = "neq" -> Strict(v, v # x)
      [] op \in {"gt", "gte", "lt", "lte"} ->
            IF v = Unset THEN "null" ELSE IF v = Words THEN "false"
            ELSE ToSql(CASE op = "gt" -> v > x [] op = "gte" -> v >= x
                         [] op = "lt" -> v < x [] op = "lte" -> v <= x)

\* IS DISTINCT FROM counts an unknown value in; jsonb_typeof spares words the
\* cast to a number.
Comparison(op, v, x) ==
    CASE op = "eq" -> Strict(v, v = x)
      [] op = "neq" -> ToSql(v # x)
      [] op \in {"gt", "gte", "lt", "lte"} ->
            IF v = Unset THEN "null" ELSE IF v = Words THEN "false"
            ELSE ToSql(CASE op = "gt" -> v > x [] op = "gte" -> v >= x
                         [] op = "lt" -> v < x [] op = "lte" -> v <= x)

OfTags(op, v, x) ==
    CASE op = "is_set" -> ToSql(v # {})
      [] op = "is_not_set" -> ToSql(v = {})
      [] op = "contains" -> ToSql(x \in v)
      [] op = "not_contains" -> ToSql(x \notin v)
      [] op = "in" -> ToSql(x \cap v # {})
      [] op = "not_in" -> ToSql(x \cap v = {})
      [] OTHER -> "error"       \* what Postgres would make of it

OfColumn(op, v, x) ==
    CASE op = "is_set" -> ToSql(v # Unset)
      [] op = "is_not_set" -> ToSql(v = Unset)
      [] op = "within_days" -> IF v = Unset THEN "null" ELSE ToSql(v >= dayNow - x)
      [] op = "not_within_days" -> ToSql(IF v = Unset THEN TRUE ELSE v < dayNow - x)
      [] op = "contains" -> Strict(v, <<x, v>> \in Substring)
      [] op = "not_contains" -> Lenient(v, <<x, v>> \notin Substring)
      [] op = "in" -> Strict(v, v \in x)
      [] op = "not_in" -> Lenient(v, v \notin x)
      [] OTHER -> Comparison(op, v, x)

LeafSql(leaf) == IF leaf.field = "tags" THEN OfTags(leaf.op, person.tags, leaf.value)
                                        ELSE OfColumn(leaf.op, person[leaf.field], leaf.value)

-----------------------------------------------------------------------------
(* compileRule, combine, compileAudience *)

Not3(a) == CASE a = "true" -> "false" [] a = "false" -> "true" [] a = "null" -> "null"
And3(values) == IF "false" \in values THEN "false" ELSE IF "null" \in values THEN "null" ELSE "true"
Or3(values) == IF "true" \in values THEN "true" ELSE IF "null" \in values THEN "null" ELSE "false"

Combined(group, values) ==
    CASE group = "all" -> And3(values)
      [] group = "any" -> Or3(values)
      [] group = "none" -> Not3(Or3(values))

IsGroup(rule) == rule.op \in Groups
RuleSql(rule) == IF IsGroup(rule) THEN Combined(rule.op, {LeafSql(leaf) : leaf \in rule.rules})
                                  ELSE LeafSql(rule)
RulesOf(audience, group) == {audience[group][i] : i \in DOMAIN audience[group]}

LeavesOf(audience) ==
    UNION {IF IsGroup(rule) THEN rule.rules ELSE {rule} :
              rule \in UNION {RulesOf(audience, group) : group \in DOMAIN audience}}

Compiles == \A leaf \in LeavesOf(segment) : ~Uncompilable(leaf)

\* A definition without groups compiles to TRUE.
AudienceSql(audience) ==
    And3({Combined(group, {RuleSql(rule) : rule \in RulesOf(audience, group)}) : group \in DOMAIN audience})

\* The row is in the result when the WHERE clause is true, not when it is null.
Evaluate(audience) == AudienceSql(audience) = "true"

-----------------------------------------------------------------------------
(* matches and its explanation: one statement per action *)

Answers(what) == query' = [query EXCEPT !.at = "idle", !.answer = what]
AskNext(group, i) == query' = [query EXCEPT !.at = group, !.next = i]
Asked(group) == query.at = group
Of(group) == IF group \in DOMAIN segment THEN segment[group] ELSE <<>>

Matches ==
    /\ query.at = "idle" /\ query.answer = <<"nothing">>
    /\ IF ~Compiles THEN Answers(<<"uncompilable">>)
       ELSE IF Evaluate(segment) THEN Answers(<<"matched">>) ELSE AskNext("all", 1)
    /\ moved' = FALSE
    /\ UNCHANGED <<person, dayNow, segment>>

\* The first rule of `all` that does not hold is the reason.
ExplainAll ==
    /\ Asked("all")
    /\ IF query.next > Len(Of("all")) THEN AskNext("any", 1)
       ELSE IF ~Evaluate([all |-> <<Of("all")[query.next]>>]) THEN Answers(<<"failed", query.next>>)
       ELSE AskNext("all", query.next + 1)
    /\ UNCHANGED <<person, dayNow, segment, moved>>

\* Mutant of ExplainAny: each of the alternatives is held to account.
ExplainAnyEach ==
    /\ Asked("any")
    /\ IF query.next > Len(Of("any")) THEN AskNext("none", 1)
       ELSE IF ~Evaluate([any |-> <<Of("any")[query.next]>>]) THEN Answers(<<"no_alternative">>)
       ELSE AskNext("any", query.next + 1)
    /\ UNCHANGED <<person, dayNow, segment, moved>>

ExplainAny ==
    /\ Asked("any")
    /\ IF Of("any") # <<>> /\ ~Evaluate([any |-> Of("any")])
       THEN Answers(<<"no_alternative">>) ELSE AskNext("none", 1)
    /\ UNCHANGED <<person, dayNow, segment, moved>>

\* Mutant of ExplainNone: the rule is evaluated in its own group.
ExplainNoneNegated ==
    /\ Asked("none")
    /\ IF query.next > Len(Of("none")) THEN Answers(<<"changed">>)
       ELSE IF ~Evaluate([none |-> <<Of("none")[query.next]>>]) THEN Answers(<<"excluded", query.next>>)
       ELSE AskNext("none", query.next + 1)
    /\ UNCHANGED <<person, dayNow, segment, moved>>

\* A rule of `none` that holds is the reason; without one, the contact is said
\* to have changed.
ExplainNone ==
    /\ Asked("none")
    /\ IF query.next > Len(Of("none")) THEN Answers(<<"changed">>)
       ELSE IF Evaluate([all |-> <<Of("none")[query.next]>>]) THEN Answers(<<"excluded", query.next>>)
       ELSE AskNext("none", query.next + 1)
    /\ UNCHANGED <<person, dayNow, segment, moved>>

EditPerson(edited) ==
    /\ person # edited /\ query.at # "idle"
    /\ person' = edited
    /\ moved' = TRUE
    /\ UNCHANGED <<dayNow, segment, query>>

DayPasses ==
    /\ dayNow < LastDay /\ query.answer = <<"nothing">>
    /\ dayNow' = dayNow + 1
    /\ moved' = TRUE
    /\ UNCHANGED <<person, segment, query>>

AudienceNext ==
    \/ Matches \/ ExplainAll \/ ExplainAny \/ ExplainNone
    \/ DayPasses
    \/ \E edited \in Person : EditPerson(edited)

AudienceSpec == AudienceInit /\ [][AudienceNext]_audienceVars

-----------------------------------------------------------------------------
AudienceTypeOK ==
    /\ person \in Person /\ dayNow \in 0 .. LastDay /\ moved \in BOOLEAN
    /\ segment \in Definition
    /\ query.at \in {"idle"} \cup Groups /\ query.next \in Nat \ {0}
    /\ query.at \in Groups => query.next <= Len(Of(query.at)) + 1
    /\ query.answer[1] \in {"nothing", "uncompilable", "matched", "failed", "no_alternative", "excluded", "changed"}
    /\ Compiles =>
          \A group \in DOMAIN segment : \A rule \in RulesOf(segment, group) :
              RuleSql(rule) \in {"true", "false", "null"}

\* What the builder of the segment means: nobody knows a NULL, so that "is" is
\* false of an unset field and "is not" is true.
Opposite(op) ==
    CASE op = "neq" -> "eq" [] op = "not_contains" -> "contains" [] op = "not_in" -> "in"
      [] op = "is_not_set" -> "is_set" [] op = "not_within_days" -> "within_days"
Negative == {"neq", "not_contains", "not_in", "is_not_set", "not_within_days"}
LeafHolds(leaf) ==
    IF leaf.op \in Negative THEN LeafSql([leaf EXCEPT !.op = Opposite(@)]) # "true"
                            ELSE LeafSql(leaf) = "true"
GroupHolds(group, holds) ==
    CASE group = "all" -> holds \subseteq {TRUE}
      [] group = "any" -> TRUE \in holds
      [] group = "none" -> TRUE \notin holds
RuleHolds(rule) == IF IsGroup(rule) THEN GroupHolds(rule.op, {LeafHolds(leaf) : leaf \in rule.rules})
                                    ELSE LeafHolds(rule)
Meant(audience) ==
    \A group \in DOMAIN audience :
        GroupHolds(group, {RuleHolds(rule) : rule \in RulesOf(audience, group)})

\* A rule under a `none` reads a column of this contact that is not set.
UnknownUnderNone(audience) ==
    \E group \in DOMAIN audience : \E rule \in RulesOf(audience, group) :
        /\ group = "none" \/ rule.op = "none"
        /\ RuleSql(rule) = "null" \/ (IsGroup(rule) /\ \E leaf \in rule.rules : LeafSql(leaf) = "null")

(***************************************************************************)
(* The predicate selects whom the definition means: nobody it does not     *)
(* mean, in three values as in two, and everybody it does but for those a  *)
(* `none` cannot tell because a field is unset (NOT of NULL).              *)
(***************************************************************************)
SegmentSelectsTheMeant ==
    Compiles =>
        /\ Evaluate(segment) => Meant(segment)
        /\ Meant(segment) => Evaluate(segment) \/ UnknownUnderNone(segment)

(***************************************************************************)
(* The explanation is true: unless the row or the clock changed while it   *)
(* was put together, the rule it names keeps the contact out, and the      *)
(* excuse that the contact changed is left for what no single statement    *)
(* can show, an unset field under a `none` or a group without rules.       *)
(***************************************************************************)
ExplanationHolds ==
    query.at = "idle" /\ ~moved =>
        CASE query.answer[1] = "matched" -> Meant(segment)
          [] query.answer[1] = "failed" ->
                ~RuleHolds(Of("all")[query.answer[2]]) \/ UnknownUnderNone(segment)
          [] query.answer[1] = "no_alternative" ->
                (\A rule \in RulesOf(segment, "any") : ~RuleHolds(rule)) \/ UnknownUnderNone(segment)
          [] query.answer[1] = "excluded" -> RuleHolds(Of("none")[query.answer[2]])
          [] query.answer[1] = "changed" ->
                UnknownUnderNone(segment) \/ \E group \in DOMAIN segment : segment[group] = <<>>
          [] OTHER -> TRUE
=============================================================================
