---------------------------- MODULE MCServices ----------------------------
(***************************************************************************)
(* One instance of every component around the runs table, for TLC.  The    *)
(* components are independent of each other, so a behaviour belongs to one *)
(* of them, `which`, chosen at the start, and they share the variables     *)
(* v1, v2, ...: each module's INSTANCE says what a variable stands for.    *)
(* The bounds of each instance are the values given with it or with the    *)
(* constants of its module in the configuration.                           *)
(***************************************************************************)
EXTENDS Naturals, Sequences, FiniteSets, TLC

CONSTANTS Components,  \* the components that are checked
          m1, m2, m3   \* interchangeable requests, runs, callers or pollers

CONSTANTS
  Requests, AuthRequests, AssistantRequests, Users, StoreUsers, Ids,
  Callers, Storages, FailMax, Cooldown, MaxTime, MaxCalls,       \* CircuitBreaker
  Limit, MaxPasses,                                              \* RequestAuth
  Attributes, Configs, Sent, MaxOps, Labels, AttributeNames,     \* Store
  Kinds, SettleAttempts,                                         \* ThreadRequests
  Values, Keys, MaxWrites,                                       \* Assistants
  Instances, Options, Revisions, MaxBoots, MaxFaults,            \* Startup
  Crons, Pollers, Clients, Periods, Zones, Ends,                 \* CronScheduler
  ClaimDuration, MaxPerUser, BatchSize, MaxFire, MaxUpdates,
  EntryPoints,                                                   \* StatelessRuns
  Payloads, Descriptions,                                        \* HubSkills
  Patches,                                                       \* HubConnections
  FlowRuns, MaxRows, MaxFlows,                                   \* HubOAuth
  GraphRequests, GraphUsers, GraphKinds, GraphEdits,             \* GraphService
  Writers, Topics, Preferences, Blocked, Retention,              \* PreferenceMemory
  MaxDays, MaxSaves,
  Bodies, AssistantRows, ConfigUsers, MaxRuns, ConfigEdits,      \* RunConfig
  MaxAttempts,
  PageLimits, MaxCheckpoints,                                    \* ThreadState
  ModeSets, MessageIds, MaxEmits,                                \* GraphStreaming
  Servers, Deployments, Catalog, ToolRuns, ToolUsers, Urls,      \* McpLoader
  Allowlists, Ttl, ToolTime, ToolEdits,
  Solo, Team                                                     \* the agents

VARIABLES which,
          v1, v2, v3, v4, v5, v6, v7, v8, v9, v10, v11, v12, v13, v14, v15

vars == <<which, v1, v2, v3, v4, v5, v6, v7, v8, v9, v10, v11, v12, v13, v14, v15>>

\* The permutations of m1, m2 and m3 map behaviours of each component to
\* behaviours: they only occur in sets of requests, runs, callers or pollers.
Symmetry == Permutations({m1, m2, m3})

\* The servers of a graph: in the first deployment the environment's entry of s
\* is broken and the registry's is valid, in the second the other way round.
Tiers == {[env |-> [s |-> "broken", t |-> "none"], registry |-> [s |-> "valid", t |-> "valid"]],
          [env |-> [s |-> "valid", t |-> "none"], registry |-> [s |-> "broken", t |-> "broken"]]}

\* Two tools of s have the same legal form, and t's tool has the form that the
\* second of them is given.
Tools == [s |-> <<[raw |-> <<"s", "a">>, safe |-> <<"s", "a">>],
                 [raw |-> <<"s", "a.">>, safe |-> <<"s", "a">>]>>,
          t |-> <<[raw |-> <<"s", "a", "2">>, safe |-> <<"s", "a", 2>>]>>]
Declared == <<"s", "t">>
Restrictions == {{}, {<<"a">>}}

\* Request bodies: a plain one, and ones that set the keys the server pins, the
\* checkpoint, the durability or a command in every place they may be set.
Client(keys) == [x \in keys |-> "client"]
Theirs == {"user_id", "thread_id", "run_id", "k"}
Plain == [input |-> "some", command |-> "none",
          config |-> [top |-> Client({}), configurable |-> [x \in {"absent"} |-> "null"]],
          context |-> Client({}), checkpoint |-> [x \in {"absent"} |-> "null"],
          checkpoint_id |-> "none", durability |-> "none", checkpoint_during |-> "none"]
RunBodies == {
  Plain,
  [Plain EXCEPT !.config = [top |-> Client(Theirs), configurable |-> Client(Theirs)]],
  [Plain EXCEPT !.config.configurable = [x \in {"scalar"} |-> "null"]],
  [Plain EXCEPT !.context = Client(Theirs), !.durability = "sync", !.checkpoint_during = "no"],
  [Plain EXCEPT !.context = Client({"user_id"}), !.checkpoint_during = "no",
                !.config.configurable = Client({"k", "checkpoint_id"})],
  [Plain EXCEPT !.input = "none", !.checkpoint = Client(Theirs \cup {"checkpoint_id"}),
                !.checkpoint_id = "short"],
  [Plain EXCEPT !.input = "none", !.checkpoint_id = "short",
                !.checkpoint = [thread_id |-> "client", checkpoint_id |-> "null"]],
  [Plain EXCEPT !.input = "none", !.checkpoint_id = "short", !.durability = "exit",
                !.config.configurable = Client({"checkpoint_id"})],
  [Plain EXCEPT !.input = "none"],
  [Plain EXCEPT !.input = "empty", !.command = "resume",
                !.config.configurable = Client({"k", "thread_id"})],
  [Plain EXCEPT !.command = "resume"]}
Rows == {[top |-> [x \in keys |-> "assistant"], context |-> [x \in keys |-> "assistant"]] :
           keys \in {{}, Theirs}}

\* The store: u and v are of one organization and two teams, w of none.  The
\* second configuration tries to take over the users' scope and has an entry
\* without attributes.
Groups == [u |-> [org |-> "o", team |-> "1"], v |-> [org |-> "o", team |-> "2"],
           w |-> [org |-> "", team |-> "1"]]
ScopeConfigs == {[x \in {} |-> <<>>], [org |-> <<"org">>, users |-> <<"team">>, bad |-> <<>>],
                 [org |-> <<"org", "team">>]}
SentNamespaces == {<<>>, <<<<"a">>>>, <<<<"users">>, <<"v">>>>, <<<<"users", "u">>>>,
                   <<<<"org">>>>, <<<<"org">>, <<"o">>, <<"2">>>>}

\* The changes of a connection, and what clients ask to be streamed.
ConnectionPatches == [auth : {"keep", "none", "headers"}, headers : {"keep", "none", "some"},
                      enabled : {"keep", "no"}]
StreamModes == {{"values", "updates"}, {"messages", "updates"},
                {"messages-tuple", "values", "events"}, {"messages", "debug", "custom"},
                {"messages"}}

\* The agents: one session whose model calls two tools in a message, and two
\* sessions, of one staff user, with one call in a message.
OneSession ==
  [sessions |-> {"a"}, calls |-> 2,
   products |-> {m1, m2, m3}, quantities |-> {0, 2}, maxQuantity |-> 2, maxLines |-> 2,
   shopLimits |-> {6, 7}, maxItems |-> 5,
   staff |-> [s \in {"a"} |-> "u"], articles |-> {"k"}, firstPrice |-> 100,
   newPrices |-> {0, 80, 96}, caps |-> {10, 20}, maxAnalytics |-> 1, staffLimits |-> {4, 5},
   maxChanges |-> 2]
TwoSessions ==
  [sessions |-> {m1, m2}, calls |-> 1,
   products |-> {"x", "y"}, quantities |-> {1}, maxQuantity |-> 1, maxLines |-> 2,
   shopLimits |-> {7}, maxItems |-> 3,
   staff |-> [s \in {m1, m2} |-> "u"], articles |-> {"k"}, firstPrice |-> 100,
   newPrices |-> {80, 96}, caps |-> {20}, maxAnalytics |-> 0, staffLimits |-> {4},
   maxChanges |-> 2]

----------------------------------------------------------------------------
\* The components that are proved about have their constants from the
\* configuration; a variable stands for what the component at hand says.
Svc == INSTANCE ServiceTheorems WITH
    storage <- v7, now <- v5, failures <- v3, openUntil <- v6, expires <- v2, call <- v1,
    calls <- v4, streak <- v8, tripped <- v9, wired <- v5, passes <- v4, spent <- v2,
    hits <- v3, req <- v1, config <- v1, items <- v3, given <- v2, ops <- v4,
    row <- v3, run <- v2, naming <- v5, stale <- v6, versions <- v5, writes <- v6,
    reborn <- v4, behind <- v2, options <- v3, revision <- v5, seeded <- v6, proc <- v4,
    boots <- v1, faults <- v2, held <- v1, job <- v8, client <- v4, fired <- v7,
    twice <- v11, lapsed <- v9, raced <- v6, late <- v10

Exe == INSTANCE RunTheorems WITH
    kind <- v12, keep <- v10, remote <- v13, cancels <- v5, at <- v3, thread <- v14,
    run <- v2, exec <- v9, ckpt <- v6, ended <- v8, asked <- v1, cleaner <- v7,
    answer <- v4, why <- v15, killed <- v11, skill <- v3, files <- v2, req <- v1,
    conn <- v2, mixed <- v3, row <- v3, rows <- v10, tokens <- v13, client <- v4,
    pending <- v8, code <- v5, states <- v12, flow <- v7, shown <- v11, browser <- v1,
    purge <- v9, raced <- v6, file <- v4, base <- v2, factory <- v3, hook <- v5,
    stable <- v7, reload <- v6, now <- v5, item <- v1, writer <- v7, loaded <- v2,
    saves <- v4, noted <- v3, undone <- v6, assistant <- v2, edits <- v1, cron <- v3,
    runs <- v4, graph <- v4, checkpoints <- v3, head <- v5, held <- v1, pager <- v6,
    faults <- v2, modes <- v6, subgraphs <- v11, emitted <- v2, parts <- v9, whole <- v12,
    state <- v10, rooted <- v13, messages <- v5, out <- v7, output <- v8, interrupt <- v4

\* The agents as Solo and Team deploy them, and the tools of a graph.
One == INSTANCE AgentTheorems WITH
    Sessions <- Solo.sessions, CallsInMessage <- Solo.calls, Products <- Solo.products,
    Quantities <- Solo.quantities, MaxQuantity <- Solo.maxQuantity, MaxLines <- Solo.maxLines,
    ShopLimits <- Solo.shopLimits, MaxItems <- Solo.maxItems, Staff <- Solo.staff,
    Articles <- Solo.articles, FirstPrice <- Solo.firstPrice, NewPrices <- Solo.newPrices,
    Caps <- Solo.caps, MaxAnalytics <- Solo.maxAnalytics, StaffLimits <- Solo.staffLimits,
    MaxChanges <- Solo.maxChanges,
    cart <- v1, session <- v3, added <- v2, unanswered <- v5, unasked <- v4, price <- v1,
    changes <- v2, applied <- v4, approved <- v5, lost <- v6, deployed <- v1, authz <- v2, row <- v3, cache <- v4,
    now <- v5, edits <- v6, run <- v7

Many == INSTANCE AgentTheorems WITH
    Sessions <- Team.sessions, CallsInMessage <- Team.calls, Products <- Team.products,
    Quantities <- Team.quantities, MaxQuantity <- Team.maxQuantity, MaxLines <- Team.maxLines,
    ShopLimits <- Team.shopLimits, MaxItems <- Team.maxItems, Staff <- Team.staff,
    Articles <- Team.articles, FirstPrice <- Team.firstPrice, NewPrices <- Team.newPrices,
    Caps <- Team.caps, MaxAnalytics <- Team.maxAnalytics, StaffLimits <- Team.staffLimits,
    MaxChanges <- Team.maxChanges,
    cart <- v1, session <- v3, added <- v2, unanswered <- v5, unasked <- v4, price <- v1,
    changes <- v2, applied <- v4, approved <- v5, lost <- v6, deployed <- v1, authz <- v2, row <- v3, cache <- v4,
    now <- v5, edits <- v6, run <- v7

\* What the components are deployed with.
ASSUME ServiceBounds ==
  /\ FailMax \in Nat \ {0} /\ Cooldown \in Nat
  /\ {MaxRows, MaxFlows, GraphEdits, ConfigEdits, MaxRuns, MaxAttempts, MaxFaults, MaxEmits} \subseteq Nat
  /\ PageLimits \subseteq Nat \ {0}
  /\ "none" \notin Requests /\ IsFiniteSet(Requests)
  /\ Patches \subseteq Exe!ConnectionPatch
ASSUME ServiceDeployment ==
  Svc!CronDeployment /\ Svc!StoreDeployment /\ Exe!MemoryDeployment
ASSUME AgentDeployment ==
  /\ One!ToolDeployment
  /\ One!ShopDeployment /\ \A limit \in Solo.shopLimits : limit >= 4
  /\ One!DeskDeployment /\ \A limit \in Solo.staffLimits : limit >= 2
  /\ Many!ShopDeployment /\ Many!DeskDeployment

Session == INSTANCE EventSession WITH
    NRuns <- 2, MaxSessions <- 2, Capacity <- 3,
    Faults <- {"expire", "trim", "replay", "gap", "overtake"},
    Scripts <- {<<"interrupt", "interruptValues">>,
                <<"start.a", "start.b", "done.b">>},
    ChannelSets <- {{"values", "input", "lifecycle"}, {"input"}},
    script <- v1, log <- v2, status <- v3, gone <- v4, ses <- v5, client <- v6,
    faults <- v7

----------------------------------------------------------------------------
\* The variables from the n-th on, which a component with fewer does not use.
From15 == <<v15>>
From14 == <<v14, From15>>
From13 == <<v13, From14>>
From12 == <<v12, From13>>
From11 == <<v11, From12>>
From10 == <<v10, From11>>
From9 == <<v9, From10>>
From8 == <<v8, From9>>
From7 == <<v7, From8>>
From6 == <<v6, From7>>
From5 == <<v5, From6>>
From4 == <<v4, From5>>

Idle15 == v15 = "idle"
Idle14 == v14 = "idle" /\ Idle15
Idle13 == v13 = "idle" /\ Idle14
Idle12 == v12 = "idle" /\ Idle13
Idle11 == v11 = "idle" /\ Idle12
Idle10 == v10 = "idle" /\ Idle11
Idle9 == v9 = "idle" /\ Idle10
Idle8 == v8 = "idle" /\ Idle9
Idle7 == v7 = "idle" /\ Idle8
Idle6 == v6 = "idle" /\ Idle7
Idle5 == v5 = "idle" /\ Idle6
Idle4 == v4 = "idle" /\ Idle5

Init ==
  /\ which \in Components
  /\ \/ which = "cron" /\ Svc!Cron!Init /\ Idle12
     \/ which = "stateless" /\ Exe!Stateless!Init
     \/ which = "breaker" /\ Svc!Breaker!Init /\ Idle10
     \/ which = "assistants" /\ Svc!Assist!Init /\ Idle7
     \/ which = "session" /\ Session!Init /\ Idle8
     \/ which = "requests" /\ Svc!Request!Init /\ Idle7
     \/ which = "startup" /\ Svc!Server!Init /\ Idle7
     \/ which = "graphs" /\ Exe!Graph!Init /\ Idle8
     \/ which = "mcp" /\ One!Mcp!Init /\ Idle8
     \/ which = "oauth" /\ Exe!OAuth!Init /\ Idle14
     \/ which = "skills" /\ Exe!Skill!Init /\ Idle4
     \/ which = "connections" /\ Exe!Connection!Init /\ Idle4
     \/ which = "streaming" /\ Exe!Stream!Init /\ Idle14
     \/ which = "auth" /\ Svc!Auth!Init /\ Idle6
     \/ which = "config" /\ Exe!Config!Init /\ Idle5
     \/ which = "store" /\ Svc!Items!Init /\ Idle5
     \/ which = "state" /\ Exe!State!Init /\ Idle7
     \/ which = "merchant" /\ One!Desk!Init /\ Idle7
     \/ which = "merchants" /\ Many!Desk!Init /\ Idle7
     \/ which = "shop" /\ One!Shop!Init /\ Idle6
     \/ which = "shops" /\ Many!Shop!Init /\ Idle6
     \/ which = "memory" /\ Exe!Memory!Init /\ Idle8

CronStep == which = "cron" /\ Svc!Cron!Next /\ UNCHANGED <<which, From12>>
StatelessStep == which = "stateless" /\ Exe!Stateless!Next /\ UNCHANGED which
BreakerStep == which = "breaker" /\ Svc!Breaker!Next /\ UNCHANGED <<which, From10>>
AssistStep == which = "assistants" /\ Svc!Assist!Next /\ UNCHANGED <<which, From7>>
SessionStep == which = "session" /\ Session!Next /\ UNCHANGED <<which, From8>>
RequestStep == which = "requests" /\ Svc!Request!Next /\ UNCHANGED <<which, From7>>
BootStep == which = "startup" /\ Svc!Server!Next /\ UNCHANGED <<which, From7>>
GraphStep == which = "graphs" /\ Exe!Graph!Next /\ UNCHANGED <<which, From8>>
McpStep == which = "mcp" /\ One!Mcp!Next /\ UNCHANGED <<which, From8>>
OAuthStep == which = "oauth" /\ Exe!OAuth!Next /\ UNCHANGED <<which, From14>>
SkillStep == which = "skills" /\ Exe!Skill!Next /\ UNCHANGED <<which, From4>>
ConnectionStep == which = "connections" /\ Exe!Connection!Next /\ UNCHANGED <<which, From4>>
StreamStep == which = "streaming" /\ Exe!Stream!Next /\ UNCHANGED <<which, From14>>
AuthStep == which = "auth" /\ Svc!Auth!Next /\ UNCHANGED <<which, From6>>
ConfigStep == which = "config" /\ Exe!Config!Next /\ UNCHANGED <<which, From5>>
ItemsStep == which = "store" /\ Svc!Items!Next /\ UNCHANGED <<which, From5>>
StateStep == which = "state" /\ Exe!State!Next /\ UNCHANGED <<which, From7>>
MerchantStep == which = "merchant" /\ One!Desk!Next /\ UNCHANGED <<which, From7>>
MerchantsStep == which = "merchants" /\ Many!Desk!Next /\ UNCHANGED <<which, From7>>
ShopStep == which = "shop" /\ One!Shop!Next /\ UNCHANGED <<which, From6>>
ShopsStep == which = "shops" /\ Many!Shop!Next /\ UNCHANGED <<which, From6>>
MemoryStep == which = "memory" /\ Exe!Memory!Next /\ UNCHANGED <<which, From8>>

Next ==
  \/ CronStep \/ StatelessStep \/ BreakerStep \/ AssistStep \/ SessionStep
  \/ RequestStep \/ BootStep \/ GraphStep \/ McpStep \/ OAuthStep
  \/ SkillStep \/ ConnectionStep \/ StreamStep \/ AuthStep \/ ConfigStep
  \/ ItemsStep \/ StateStep \/ MerchantStep \/ MerchantsStep \/ ShopStep
  \/ ShopsStep \/ MemoryStep

Spec == Init /\ [][Next]_vars

\* A history is followed until an event session has a fault other than a buffer
\* that is cut, and until an OAuth flow overlaps with the deletion of its row:
\* the properties of the two components say nothing from there on.
Bounded == (which = "session" => v7 \subseteq {"trim"}) /\ (which = "oauth" => ~v6)

----------------------------------------------------------------------------
\* Type correctness of the component at hand.
TypeOK ==
  /\ which = "cron" => Svc!Cron!TypeOK
  /\ which = "stateless" => Exe!Stateless!TypeOK
  /\ which = "breaker" => Svc!Breaker!TypeOK
  /\ which = "assistants" => Svc!Assist!TypeOK
  /\ which = "session" => Session!TypeOK
  /\ which = "requests" => Svc!Request!TypeOK
  /\ which = "startup" => Svc!Server!TypeOK
  /\ which = "graphs" => Exe!Graph!TypeOK
  /\ which = "mcp" => One!Mcp!TypeOK
  /\ which = "oauth" => Exe!OAuth!TypeOK
  /\ which = "skills" => Exe!Skill!TypeOK
  /\ which = "connections" => Exe!Connection!TypeOK
  /\ which = "streaming" => Exe!Stream!TypeOK
  /\ which = "auth" => Svc!Auth!TypeOK
  /\ which = "config" => Exe!Config!TypeOK
  /\ which = "store" => Svc!Items!TypeOK
  /\ which = "state" => Exe!State!TypeOK
  /\ which = "merchant" => One!Desk!TypeOK
  /\ which = "merchants" => Many!Desk!TypeOK
  /\ which = "shop" => One!Shop!TypeOK
  /\ which = "shops" => Many!Shop!TypeOK
  /\ which = "memory" => Exe!Memory!TypeOK

\* CronScheduler: an occurrence is fired once, and at most one run follows the
\* end_time, unless a claim ran out or the cron was updated while it fired;
\* next_run_date follows the stored schedule; the cap holds up to the requests
\* that overlap.
CronFiresOnce ==
  which = "cron" =>
    /\ Svc!Cron!FiresOncePerSlot
    /\ Svc!Cron!OneRunAfterEnd
    /\ Svc!Cron!FollowsSchedule
    /\ Svc!Cron!CapOvershoot

\* StatelessRuns: an ephemeral thread is only left behind for a known reason,
\* an active run is only killed when waiting for it ended early, the output
\* that is returned is final, and no checkpoint outlives its thread, except
\* those written by a run of another instance that was asked to stop but not
\* awaited.
EphemeralThreadsSettle ==
  which = "stateless" =>
    /\ Exe!Stateless!NoSilentLeak
    /\ Exe!Stateless!ActiveRunSpared
    /\ Exe!Stateless!OutputIsFinal
    /\ Exe!Stateless!CheckpointsGoWithThread

\* CircuitBreaker: in memory, however calls overlap, fail_max failures without
\* a success open the breaker until a call succeeds.
BreakerTrips == which = "breaker" => Svc!Breaker!MemoryTrips

\* Assistants: the row is the copy of the version it names, context mirrors
\* config in every version, and an undisturbed assistant is at its newest one.
AssistantIsItsVersion ==
  which = "assistants" =>
    Svc!Assist!RowIsItsVersion /\ Svc!Assist!ContextMirrorsConfig /\ Svc!Assist!AtNewestVersion

\* EventSession: without faults a client that reconnects with its cursor and
\* any channels gets every event after it, and every subgraph closed before the
\* run's terminal status; and it gets no event and no interrupt twice, also when
\* the replay buffer is cut at its capacity.
SessionResumes ==
  which = "session" =>
    /\ Session!ResumesUnlessFaulted
    /\ Session!NoRepeatUnlessFaulted
    /\ Session!SubgraphsClosed
    /\ Session!InterruptAskedOnce

\* ThreadRequests: acknowledged metadata is not undone by overlapping requests,
\* a thread is named by one call, its ttl is its creator's, and a resume of a
\* thread that is not interrupted was overtaken by another.
RequestsKeepWrites ==
  which = "requests" =>
    /\ Svc!Request!WritesKept
    /\ Svc!Request!OneNamingCall
    /\ Svc!Request!TtlOfCreator
    /\ Svc!Request!ResumesOvertaken

\* Startup: in every stage of a boot, a failed boot and a shutdown, a service
\* runs only with what it uses running and over a migrated, seeded schema.
ServicesHaveDependencies ==
  which = "startup" => Svc!Server!DependenciesUp /\ Svc!Server!SchemaBeforeUse

\* GraphService: a request gets the graph of one version of the file, built for
\* its own user and run, and a reload takes effect for the requests after it.
GraphIsOwn == which = "graphs" => Exe!Graph!GraphIsOwn /\ Exe!Graph!ReloadTakesEffect

\* McpLoader: a run is given exactly the tools of the servers it resolved, as
\* restricted by its user's rows, none older than the cache's time to live, and
\* no two with one name.
ToolsAsResolved ==
  which = "mcp" => One!Mcp!ToolsAsResolved /\ One!Mcp!ToolsFresh /\ One!Mcp!NamesUnique

\* HubSkills and HubConnections: a skill is the files of one request, however
\* requests overlap, and a connection has headers exactly when its auth type
\* asks for them, unless two patches that are each valid overlapped.  HubOAuth:
\* a connection recreated under a deleted one's name starts clean.
HubRowsWhole ==
  /\ which = "skills" => Exe!Skill!SkillIsOneInstall
  /\ which = "connections" => Exe!Connection!CredentialShape
  /\ which = "oauth" => Exe!OAuth!StartsClean

\* Store: users are given only what they share by configuration, and find what
\* they put where they put it.
StoreScoped == which = "store" => Svc!Items!Isolated /\ Svc!Items!FindsOwn

\* GraphStreaming: an interrupt reaches the client in whatever modes it asked
\* for, messages are delivered whole, and the output is a state of the graph.
StreamTellsAll ==
  which = "streaming" => Exe!Stream!InterruptTold /\ Exe!Stream!MessagesWhole /\ Exe!Stream!OutputIsState

\* RequestAuth: a request presents its credential once and is authorized by one
\* decision for the operation it performs.
AuthorizedOnce == which = "auth" => Svc!Auth!AuthenticatesOnce /\ Svc!Auth!OneAuthorization

\* RunConfig: every call made for a run acts for the user, thread and run the
\* server chose and executes what was asked for.
ExecutesAsRequested == which = "config" => Exe!Config!ExecutesAsRequested

\* ThreadState: paging through a history that grows gives every checkpoint once.
HistoryComplete == which = "state" => Exe!State!HistoryComplete

\* MerchantAgent, two calls in a message, repeated after every interrupt, and
\* two sessions: each applied change took effect once, within the cap in force
\* when it was applied; what the only apply call of a message applied had been
\* approved as shown; every pending change whose id was told can still be
\* settled; no run dies on its step limit.  ShoppingAgent, likewise: the cart
\* keeps to its number of lines, holds what was answered of every addition that
\* was answered for, a handoff was agreed to over a cart that was shown, and a
\* tool call is followed up within the step limit.
AgentsWriteAsAgreed ==
  /\ which = "merchant" =>
       /\ One!Desk!CatalogueExplained /\ One!Desk!AppliedWithinCap /\ One!Desk!NeverOutOfSteps
       /\ One!Desk!EveryApplyApproved /\ One!Desk!PendingReachable
  /\ which = "merchants" =>
       /\ Many!Desk!CatalogueExplained
       /\ Many!Desk!EveryApplyApproved
       /\ Many!Desk!PendingReachable
  /\ which = "shop" =>
       /\ One!Shop!CartSize /\ One!Shop!HandoffApproved /\ One!Shop!ToolsFollowedUp
       /\ One!Shop!CartAsAnswered
  /\ which = "shops" => Many!Shop!CartAsAnswered /\ Many!Shop!HandoffApproved

\* What a step never does: enable a cron its owner disabled, change a version
\* of an assistant, rename a thread that has a name, or load a preference that
\* was not noted, was deleted or has expired, or miss one that was noted, unless
\* a writer that overlapped undid it.
NothingUndone ==
  [][/\ which = "cron" => Svc!Cron!KeepsDisabled
     /\ which = "assistants" => Svc!Assist!KeepsVersions
     /\ which = "requests" => Svc!Request!KeepsName
     /\ which = "memory" => Exe!Memory!LoadsWhatIsNoted]_vars
=============================================================================
