---------------------------- MODULE ResourceGraph ----------------------------
(***************************************************************************)
(* The resources that open_application_resources opens one after another,  *)
(* in an order fixed by the code, each pushing its close on an exit stack. *)
(* Which are enabled, and on which backend, is decided by the settings,    *)
(* which the validators of core/config check when they are loaded.         *)
(***************************************************************************)
EXTENDS Naturals, Sequences, SequencesExt

VARIABLES
    settings,                  \* the backend of each feature, or "off"
    next,                      \* the place in Order of the next opener
    live,                      \* features that are open
    stack                      \* those whose close is pending, last one last

graph == <<settings, next, live, stack>>

\* The backends a feature may be given.  "on" is a feature without a choice,
\* "broker" any queue that does not run on Redis or in the process.
Backend == [database    |-> {"off", "on"},
            redis       |-> {"off", "on"},
            queue       |-> {"off", "memory", "broker", "redis"},
            telemetry   |-> {"off", "on"},
            rate_limit  |-> {"off", "memory", "redis"},
            idempotency |-> {"off", "postgres"},
            cache       |-> {"off", "memory", "redis"},
            objects     |-> {"off", "memory", "s3"},
            mongo       |-> {"off", "on"},
            quota       |-> {"off", "memory", "postgres", "mongo"},
            outbox      |-> {"off", "postgres"},
            webhooks    |-> {"off", "on"},
            rag         |-> {"off", "on"},
            tasks       |-> {"off", "memory", "postgres", "redis"}]

Feature == DOMAIN Backend

\* TASKS_DISPATCH_BACKEND.
Dispatch == {"queue", "outbox"}

\* GRACEFUL_SHUTDOWN_ENABLED, with a timeout or with one of zero seconds.
Graceful == {"off", "on", "zero"}

\* RATE_LIMIT_IP_ENABLED of an enabled rate limit.
IpLimit == {"off", "on"}

\* Settings that are no resource: where tasks are announced, how the process
\* stops, and which middlewares are installed.
Option == [dispatch     |-> Dispatch,
           graceful     |-> Graceful,
           gzip         |-> {"off", "on"},      \* GZIP_ENABLED
           timeout      |-> {"off", "on"},      \* REQUEST_TIMEOUT_ENABLED
           ip_limit     |-> IpLimit]

IsSettings(s) ==
    /\ DOMAIN s = Feature \cup DOMAIN Option
    /\ \A f \in Feature : s[f] \in Backend[f]
    /\ \A o \in DOMAIN Option : s[o] \in Option[o]

On(s, f) == s[f] # "off"

\* validate_messaging_requirements.
MessagingValid(s) ==
    /\ s.queue = "redis" => On(s, "redis")
    /\ On(s, "tasks") =>
         /\ On(s, "queue")
         /\ s.tasks = "postgres" => On(s, "database")
         /\ s.tasks = "redis" => On(s, "redis")
         /\ s.dispatch = "outbox" => On(s, "outbox") /\ s.tasks = "postgres"
    /\ s.outbox = "postgres" => On(s, "database")

\* validate_backend_requirements.
PlatformValid(s) ==
    /\ s.rate_limit = "redis" => On(s, "redis")
    /\ s.cache = "redis" => On(s, "redis")
    /\ s.idempotency = "postgres" => On(s, "database")
    /\ s.quota = "postgres" => On(s, "database")
    /\ s.quota = "mongo" => On(s, "mongo")

Valid(s) == MessagingValid(s) /\ PlatformValid(s)

\* Mutant of Addons: the quota addon comes before the one of Mongo.
AddonsQuotaFirst ==
    <<"telemetry", "rate_limit", "idempotency", "cache", "objects",
      "quota", "mongo", "outbox", "webhooks", "rag">>

\* default_resource_addons.
Addons ==
    <<"telemetry", "rate_limit", "idempotency", "cache", "objects",
      "mongo", "quota", "outbox", "webhooks", "rag">>

\* The order of open_application_resources.
Order == <<"database", "redis", "queue">> \o Addons \o <<"tasks">>

\* What each opener asks for with opened(...); those of the services, and of
\* features that bring their own client, ask for nothing.
DatabaseNeeds == {}
RedisNeeds == {}
QueueNeeds(s) == IF s.queue = "redis" THEN {"redis"} ELSE {}
TelemetryNeeds == {}
RateLimitNeeds(s) == IF s.rate_limit = "redis" THEN {"redis"} ELSE {}
IdempotencyNeeds == {"database"}
CacheNeeds(s) == IF s.cache = "redis" THEN {"redis"} ELSE {}
ObjectsNeeds == {}
MongoNeeds == {}
QuotaNeeds(s) ==
    CASE s.quota = "postgres" -> {"database"}
      [] s.quota = "mongo"    -> {"mongo"}
      [] OTHER                -> {}
OutboxNeeds == {"database"}
WebhooksNeeds == {}
RagNeeds == {}
TasksNeeds(s) ==
    {"queue"} \cup (CASE s.tasks = "postgres" -> {"database"}
                      [] s.tasks = "redis"    -> {"redis"}
                      [] OTHER                -> {})
              \cup (IF s.dispatch = "outbox" THEN {"database"} ELSE {})

Needs(s, f) ==
    [database    |-> DatabaseNeeds,
     redis       |-> RedisNeeds,
     queue       |-> QueueNeeds(s),
     telemetry   |-> TelemetryNeeds,
     rate_limit  |-> RateLimitNeeds(s),
     idempotency |-> IdempotencyNeeds,
     cache       |-> CacheNeeds(s),
     objects     |-> ObjectsNeeds,
     mongo       |-> MongoNeeds,
     quota       |-> QuotaNeeds(s),
     outbox      |-> OutboxNeeds,
     webhooks    |-> WebhooksNeeds,
     rag         |-> RagNeeds,
     tasks       |-> TasksNeeds(s)][f]

\* The limiters and the retrieval service hold no connection of their own.
Unclosed == {"rate_limit", "rag"}

GraphTypeOK ==
    /\ IsSettings(settings)
    /\ next \in 1..(Len(Order) + 1)
    /\ live \subseteq Feature
    /\ stack \in Seq(Feature)

GraphInit(configurations) ==
    /\ settings \in {s \in configurations : IsSettings(s) /\ Valid(s)}
    /\ next = 1
    /\ live = {}
    /\ stack = <<>>

Opened == next > Len(Order)

Opening == Order[next]

\* The next opener runs, or its feature is disabled.
OpenNext ==
    /\ ~Opened
    /\ next' = next + 1
    /\ IF On(settings, Opening)
       THEN /\ Needs(settings, Opening) \subseteq live
            /\ live' = live \cup {Opening}
            /\ stack' = IF Opening \in Unclosed THEN stack ELSE Append(stack, Opening)
       ELSE UNCHANGED <<live, stack>>
    /\ UNCHANGED settings

\* The next opener raises: what it needs is not open, or its service cannot be
\* reached.  What was opened before is closed by the exit stack.
OpenFails == ~Opened /\ On(settings, Opening)

Missing == OpenFails /\ ~(Needs(settings, Opening) \subseteq live)

\* Mutant of CloseLast: the resources are closed in the order they were opened.
CloseFirst ==
    /\ stack # <<>>
    /\ stack' = Tail(stack)
    /\ live' = live \ {Head(stack)}
    /\ UNCHANGED <<settings, next>>

\* The exit stack calls the last close.  One that raises is popped all the same.
CloseLast ==
    /\ stack # <<>>
    /\ stack' = Front(stack)
    /\ live' = live \ {Last(stack)}
    /\ UNCHANGED <<settings, next>>

=============================================================================
