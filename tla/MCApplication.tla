---------------------------- MODULE MCApplication ----------------------------
(* Application on small instances. *)
EXTENDS Application

AllOff == [f \in Feature \cup DOMAIN Option |-> IF f = "dispatch" THEN "queue" ELSE "off"]

\* Any choice of the three services, with at most one feature built on them,
\* or with tasks, their queue and their outbox.
Services == {[AllOff EXCEPT !.database = d, !.redis = r, !.mongo = m] :
                d, r, m \in {"off", "on"}}
OneFeature == UNION {{[s EXCEPT ![f] = b] : b \in Backend[f]} :
                        s \in Services, f \in Feature}
WithTasks == {[s EXCEPT !.tasks = t, !.queue = q, !.dispatch = d, !.outbox = o] :
                s \in Services, t \in Backend.tasks, q \in Backend.queue,
                d \in Option.dispatch, o \in Backend.outbox}

\* Everything enabled, with every middleware, and with none.
Everything == [AllOff EXCEPT
    !.database = "on", !.redis = "on", !.mongo = "on", !.queue = "redis",
    !.telemetry = "on", !.rate_limit = "redis", !.idempotency = "postgres",
    !.cache = "redis", !.objects = "s3", !.quota = "mongo", !.outbox = "postgres",
    !.webhooks = "on", !.rag = "on", !.tasks = "postgres", !.dispatch = "outbox"]
Small == [AllOff EXCEPT !.redis = "on", !.rate_limit = "redis"]
MCLoaded == {[Small EXCEPT !.graceful = "on", !.gzip = "on", !.timeout = "on",
                           !.ip_limit = "on"],
             [Small EXCEPT !.graceful = "on", !.timeout = "on"],
             [Small EXCEPT !.graceful = "zero"]}
MCConfigurations == OneFeature \cup WithTasks \cup {Everything} \cup MCLoaded

=============================================================================
