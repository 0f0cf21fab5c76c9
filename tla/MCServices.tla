----------------------------- MODULE MCServices -----------------------------
(***************************************************************************)
(* The request handlers and the computations they rest on, for TLC:        *)
(* consent, campaigns, storefront, reply triage, the journey canvas, the   *)
(* sending windows, segments, tracking, the rate limit, providers, the     *)
(* migrations at boot, sessions and the editor in the browser share no row *)
(* that another one's properties depend on, so one behaviour exercises one *)
(* of them (part), the others resting in one of their initial states.      *)
(***************************************************************************)
EXTENDS ConsentLedger, CampaignLifecycle, Storefront, Triage, JourneyCanvas, QuietHours,
        Audience, Tracking, RateBucket, Providers, Migrations, Sessions, JourneyTab

VARIABLE part

CONSTANTS l1, l2, n1, n2, start, asks, pause, b1, b2, e1, e2, api1, api2, old, f1, f2, f3,
          plain, later, asksFirst, blank, spam, leftover

MCCategory == {"lifecycle", "promotional", "transactional"}
MCToggles == <<"lifecycle", "promotional">>
MCCategoryOf == [m \in Message |-> "promotional"]
MCFlows == {<<n1>>, <<n1, n2>>, <<n2>>}
MCBody == [r \in Reply |-> IF r = l1 THEN "stop" ELSE "question"]

\* A canvas of two sends, a condition and a delay.
MCKind == [b \in Box |-> CASE b = start -> "trigger" [] b = asks -> "condition"
                           [] b = pause -> "delay" [] OTHER -> "send"]
MCWait == [b \in Box |-> IF b = pause THEN 2 ELSE 0]
MCAsks == [b \in Box |-> <<"is", "clicked">>]
MCPlace == [b \in Box |-> CASE b = start -> 1 [] b = asks -> 2 [] b = pause -> 4
                            [] b = b1 -> 5 [] b = b2 -> 6]
MCRank == [e \in Edge |-> 100 * MCPlace[e[1]] + 10 * MCPlace[e[3]] + (IF e[2] = "yes" THEN 0 ELSE 1)]

\* A floor that opens at midnight; windows inside it, at its edge and outside.
MCFloor == <<0, 5>>
MCNarrowing == {<<>>, <<2, 3>>, <<0, 1>>, <<5, 6>>}
MCDays == {{1}, 0 .. 6}
MCShifts == {-2, 0, 1, 2}

\* Every operator on every kind of field, nested groups, groups without rules
\* and rules that do not compile.
Leaf(field, op, value) == [field |-> field, op |-> op, value |-> value]
Group(op, rules) == [op |-> op, rules |-> rules]
MCVip == Leaf("tags", "contains", "vip")
MCRules ==
    {Leaf("score", op, 2) : op \in {"eq", "neq", "gt", "lte", "contains", "not_contains"}}
    \cup {Leaf("score", op, {2}) : op \in {"in", "not_in"}}
    \cup {Leaf("visit", op, 0) : op \in {"within_days", "not_within_days", "is_set", "is_not_set"}}
    \cup {MCVip, Leaf("tags", "not_in", {"vip"})}
    \cup {Group("none", {Leaf("score", "eq", 2)}), Group("any", {Leaf("visit", "within_days", 0), MCVip})}
MCFew == {Leaf("score", "gt", 1), Leaf("visit", "not_within_days", 0)}
MCDefinition ==
    {[all |-> <<r>>] : r \in MCRules}
    \cup {[all |-> <<f>>, any |-> <<r, Leaf("score", "neq", 1)>>] : f \in MCFew, r \in MCRules}
    \cup {[any |-> <<f, MCVip>>, none |-> <<r>>] : f \in MCFew, r \in MCRules}
    \cup {[all |-> <<f, r>>, none |-> <<Leaf("score", "neq", 2), r>>] : f \in MCFew, r \in MCRules}
    \cup {[all |-> <<Leaf("score", "gt", 1), r>>] :
              r \in {Leaf("score", "within_days", 1), Leaf("tags", "eq", "vip"), Leaf("score", "in", {})}}
    \cup {[any |-> <<>>], [none |-> <<>>]}
MCScores == {Unset, Words, 1, 2}
MCVisits == {Unset, 0}
MCSubstring == {<<2, 2>>}

\* Two messages of one reader, the first with a link.
MCReaderOf == [e \in Mail |-> "p1"]
MCBatch == <<[about |-> "unknown", key |-> NoKey], [about |-> e2, key |-> <<"client", 1>>]>>

\* Deployments with and without what their credentials need.
Active(provider, from) == [provider |-> provider, from |-> from]
MCCredentials == {<<>>, <<Active("postmark", ""), Active("smtp", "a")>>, <<Active("postmark", "a")>>}
MCSettings ==
    {[mode |-> "live", channel |-> "email", configured |-> c] :
         c \in {{"smtp", "postmark"}, {"postmark", "twilio"}, {}}}
    \cup {[mode |-> "live", channel |-> "sms", configured |-> {"twilio"}],
          [mode |-> "mock", channel |-> "sms", configured |-> {}]}

\* Two replicas of successive builds, and a build with an edited file.
MCDirectory == [p \in Process |->
    CASE p = api1 -> << <<f1, "a">>, <<f2, "a">> >>
      [] p = api2 -> << <<f1, "a">>, <<f2, "a">>, <<f3, "a">> >>
      [] p = old -> << <<f1, "b">>, <<f2, "broken">> >>]

\* A message, and one that is switched off, with a gap between their numbers.
MCSeed == {{[id |-> 1, place |-> 1, name |-> NoName, says |-> plain, on |-> TRUE],
            [id |-> 2, place |-> 3, name |-> NoName, says |-> plain, on |-> FALSE]}}

\* An SMS that still has the subject it had as an e-mail.
MCBodyOf == [d \in Draft |-> IF d = leftover THEN plain ELSE d]

servicesVars == <<vars, campaignVars, shopVars, triageVars, canvasVars, quietVars, audienceVars,
                  trackingVars, bucketVars, providerVars, migrationVars, sessionVars, tabVars, part>>

ServicesInit ==
    /\ part \in {"consent", "campaign", "storefront", "triage", "canvas", "quiet", "audience",
                 "tracking", "bucket", "providers", "boot", "sessions", "editor"}
    /\ Init /\ CampaignInit /\ StoreInit /\ TriageInit /\ CanvasInit /\ TrackingInit /\ BucketInit
    /\ MigrationsInit /\ SessionsInit /\ ProvidersInit /\ TabInit
    /\ part # "providers" => credentials = <<>> /\ setting.mode = "mock"
    /\ part # "editor" => inQueue = {}
    /\ part # "campaign" =>
          /\ category = "transactional"
          /\ \A m \in Present : message[m].optOut
    /\ IF part = "quiet" THEN QuietInit
       ELSE QuietInit /\ change = 6 /\ shift = 0 /\ window = <<>> /\ sendDays = {1}
    /\ IF part = "audience" THEN AudienceInit
       ELSE AudienceInit /\ segment = [any |-> <<>>] /\ person = [score |-> Unset, visit |-> Unset, tags |-> {}]

ServicesNext ==
    /\ UNCHANGED part
    /\ \/ /\ part = "consent" /\ Request
          /\ UNCHANGED <<campaignVars, shopVars, triageVars, canvasVars, quietVars, audienceVars,
                        trackingVars, bucketVars, providerVars, migrationVars, sessionVars, tabVars>>
       \/ /\ part = "campaign" /\ CampaignNext
          /\ UNCHANGED <<vars, shopVars, triageVars, canvasVars, quietVars, audienceVars, trackingVars,
                        bucketVars, providerVars, migrationVars, sessionVars, tabVars>>
       \/ /\ part = "storefront" /\ StoreNext
          /\ UNCHANGED <<vars, campaignVars, triageVars, canvasVars, quietVars, audienceVars, trackingVars,
                        bucketVars, providerVars, migrationVars, sessionVars, tabVars>>
       \/ /\ part = "triage" /\ TriageNext
          /\ UNCHANGED <<vars, campaignVars, shopVars, canvasVars, quietVars, audienceVars, trackingVars,
                        bucketVars, providerVars, migrationVars, sessionVars, tabVars>>
       \/ /\ part = "canvas" /\ CanvasNext
          /\ UNCHANGED <<vars, campaignVars, shopVars, triageVars, quietVars, audienceVars, trackingVars,
                        bucketVars, providerVars, migrationVars, sessionVars, tabVars>>
       \/ /\ part = "quiet" /\ QuietNext
          /\ UNCHANGED <<vars, campaignVars, shopVars, triageVars, canvasVars, audienceVars, trackingVars,
                        bucketVars, providerVars, migrationVars, sessionVars, tabVars>>
       \/ /\ part = "audience" /\ AudienceNext
          /\ UNCHANGED <<vars, campaignVars, shopVars, triageVars, canvasVars, quietVars, trackingVars,
                        bucketVars, providerVars, migrationVars, sessionVars, tabVars>>
       \/ /\ part = "tracking" /\ TrackingNext
          /\ UNCHANGED <<vars, campaignVars, shopVars, triageVars, canvasVars, quietVars, audienceVars,
                        bucketVars, providerVars, migrationVars, sessionVars, tabVars>>
       \/ /\ part = "bucket" /\ BucketNext
          /\ UNCHANGED <<vars, campaignVars, shopVars, triageVars, canvasVars, quietVars, audienceVars,
                        trackingVars, providerVars, migrationVars, sessionVars, tabVars>>
       \/ /\ part = "providers" /\ ProvidersNext
          /\ UNCHANGED <<vars, campaignVars, shopVars, triageVars, canvasVars, quietVars, audienceVars,
                        trackingVars, bucketVars, migrationVars, sessionVars, tabVars>>
       \/ /\ part = "boot" /\ MigrationsNext
          /\ UNCHANGED <<vars, campaignVars, shopVars, triageVars, canvasVars, quietVars, audienceVars,
                        trackingVars, bucketVars, providerVars, sessionVars, tabVars>>
       \/ /\ part = "sessions" /\ SessionsNext
          /\ UNCHANGED <<vars, campaignVars, shopVars, triageVars, canvasVars, quietVars, audienceVars,
                        trackingVars, bucketVars, providerVars, migrationVars, tabVars>>
       \/ /\ part = "editor" /\ TabNext
          /\ UNCHANGED <<vars, campaignVars, shopVars, triageVars, canvasVars, quietVars, audienceVars,
                        trackingVars, bucketVars, providerVars, migrationVars, sessionVars>>

ServicesSpec == ServicesInit /\ [][ServicesNext]_servicesVars

(***************************************************************************)
(* What each part promises; evaluated in the behaviours of that part.      *)
(***************************************************************************)

\* Campaigns: a message about marketing always carries its opt-out link, the
\* version a campaign was activated with can be sent, and no two messages of a
\* campaign share a number, whatever edits, activations, deletions and saves of
\* the journey interleave.
CampaignHolds == part = "campaign" =>
    CampaignTypeOK /\ MarketingOptOut /\ ActiveVersionSendable /\ NumbersDistinct

\* Storefront: the cooldown of an address and the daily budget hold for every
\* order, except between checkouts that both passed the check before either
\* wrote its order.
ShopHolds == part = "storefront" => StoreTypeOK /\ CooldownUnlessRaced /\ BudgetUnlessRaced

\* Reply triage: the month's ledger accounts for the calls made and in flight,
\* and the cache answers a repeated message with its first answer.
TriageHolds == part = "triage" => TriageTypeOK /\ LedgerAccounts /\ CacheServesFirstAnswers

\* Journey canvas: a valid canvas is reduced to a row for every send box its ways lead
\* to, with the least wait of them and the question they agree on, in the order drawn.
CanvasHolds == part = "canvas" => CanvasTypeOK /\ RowsFollowWays /\ SequenceFollowsCanvas

\* Sending windows: a slot is permitted where and when it falls, no earlier
\* permitted slot is skipped, and a search that gives up had nothing to find,
\* through clock changes and edits of the settings.
WindowsHold == part = "quiet" =>
    QuietTypeOK /\ SlotsArePermitted /\ NoSlotSkipped /\ GivenUpForSettings

\* Segments: the SQL a segment compiles to selects the contacts the rules mean,
\* and the explanation of one contact agrees with the selection.
SegmentsHold == part = "audience" =>
    AudienceTypeOK /\ SegmentSelectsTheMeant /\ ExplanationHolds

\* Tracking: an event with a key is stored once, an event that was answered is
\* stored, and the rates of the analytics page are shares of one whole.
TrackingHolds == part = "tracking" =>
    TrackingTypeOK /\ KeyedOnce /\ AnsweredIsStored /\ RatesAreShares

\* Rate limit: no span of time lets more through than its allowance, and one
\* who waits as long as told is let through.
BucketHolds == part = "bucket" => BucketTypeOK /\ AllowanceHolds /\ WaitSuffices

\* Providers: a message reaches a provider once, save for answers that were
\* lost; who was refused for good is left alone, no code is met more often than
\* its ceiling, and retries move apart.
ProvidersHold == part = "providers" =>
    ProvidersTypeOK /\ EveryCopyAccounted /\ CeilingsHold /\ RetriesMoveApart

\* Boot: processes that migrate together never collide over a file, and who
\* serves has the schema of its build, as recorded.
BootHolds == part = "boot" => MigrationsTypeOK /\ NobodyCollides /\ ServesItsSchema

\* Sessions: a request made with a session that was over is answered with no
\* data, nobody is signed in to a tenant by chance, and guesses are limited.
SessionsHold == part = "sessions" =>
    SessionsTypeOK /\ InvalidSeesNothing /\ TenantNotGuessed /\ GuessesLimited

\* Campaign editor: a save of the canvas that nobody disturbs lands and leaves
\* what was on the screen, the screen then shows what is stored, and the graph it
\* draws is the sequence of the messages.
EditorHolds == part = "editor" =>
    TabTypeOK /\ CalmSaveLands /\ ButtonGoesQuiet /\ GraphIsTheSequence

=============================================================================
