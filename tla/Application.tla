----------------------------- MODULE Application -----------------------------
(***************************************************************************)
(* One API process: the lifespan opens the resources, requests pass the    *)
(* middlewares and reach the health, completion and stream endpoints, and  *)
(* a signal makes the server stop: it reports not ready for a while, then  *)
(* closes its listener, lets requests finish, and the lifespan drains and  *)
(* closes the resources.                                                   *)
(*                                                                         *)
(* The middlewares, from the outside: per-IP rate limit, request timeout,  *)
(* gzip, in-flight tracker, access log, body limit.  Which resources are   *)
(* open and what is closed when is ResourceGraph.                          *)
(***************************************************************************)
EXTENDS ResourceGraph, FiniteSets

CONSTANTS
    Request,
    Configurations,            \* the settings to start with
    Loaded                     \* bound: those whose requests are explored

ASSUME ApplicationAssumption == \A s \in Loaded : s \in Configurations

VARIABLES
    phase,                     \* of the server and its lifespan
    signals,                   \* exit signals handled: none, one, more
    timer,                     \* _exit_timer, from the call that arms it
    should_exit,               \* of uvicorn.Server
    health,                    \* app.state.health_service
    tracker,                   \* InFlightTracker
    gave_up,                   \* history: wait_idle timed out
    early,                     \* history: the first signal came during startup
    request

server == <<phase, signals, timer, should_exit, health, gave_up, early>>
vars == <<graph, server, tracker, request>>

Phase == {"opening", "serving", "stopping", "draining", "closing", "stopped", "failed"}

\* Where a request waits.  limiter: for the per-IP limiter.  entered: inside
\* the tracker, before its endpoint.  waiting and sending: a stream between
\* events, and with a frame under way.  unwinding: cancelled, cleaning up.
Tracked == {"entered", "checking", "handling", "answering", "priming", "waiting",
            "sending", "last", "unwinding"}
Running == Tracked \cup {"limiter"}
RequestPc == Running \cup {"none", "done"}

NoRequest == [pc |-> "none", kind |-> "probe", held |-> FALSE, starts |-> 0,
              handler |-> "none", observed |-> 0, late |-> FALSE, ready |-> FALSE,
              expired |-> FALSE]

Record == [pc       : RequestPc,
           kind     : {"probe", "sync", "stream"},
           held     : BOOLEAN,            \* gzip holds the response's start back
           starts   : 0..2,               \* response starts that reached the client
           handler  : {"none", "open", "closed"},
           observed : 0..2,               \* CompletionObservations recorded
           late     : BOOLEAN,            \* probe: arrived after the signal
           ready    : BOOLEAN,            \* probe: it answered ok
           expired  : BOOLEAN]            \* the request timeout fired

TypeOK ==
    /\ GraphTypeOK
    /\ phase \in Phase
    /\ signals \in 0..2
    /\ timer \in {"off", "called", "armed", "cancelled"}
    /\ should_exit \in BOOLEAN
    /\ health \in [service : {"placeholder", "runtime"}, draining : BOOLEAN]
    /\ tracker \in [count : Nat, idle : BOOLEAN]
    /\ gave_up \in BOOLEAN
    /\ early \in BOOLEAN
    /\ request \in [Request -> Record]

Init ==
    /\ GraphInit(Configurations)
    /\ phase = "opening"
    /\ signals = 0
    /\ timer = "off"
    /\ should_exit = FALSE
    /\ health = [service |-> "placeholder", draining |-> FALSE]
    /\ tracker = [count |-> 0, idle |-> TRUE]
    /\ gave_up = FALSE
    /\ early = FALSE
    /\ request = [r \in Request |-> NoRequest]

-----------------------------------------------------------------------------
(* The lifespan opens *)

Open ==
    /\ phase = "opening"
    /\ OpenNext
    /\ UNCHANGED <<server, tracker, request>>

\* An opener raises: the exit stack closes what is open and startup fails.
FailOpen ==
    /\ phase = "opening"
    /\ OpenFails
    /\ phase' = "failed"
    /\ UNCHANGED <<graph, signals, timer, should_exit, health, gave_up, early, tracker, request>>

\* compose_business_services, then the lifespan installs a new HealthService.
\* A server told to exit meanwhile never listens; its lifespan is cancelled.
Started ==
    /\ phase = "opening" /\ Opened
    /\ phase' = IF should_exit THEN "draining" ELSE "serving"
    /\ health' = [service |-> "runtime", draining |-> should_exit]
    /\ UNCHANGED <<graph, signals, timer, should_exit, gave_up, early, tracker, request>>

-----------------------------------------------------------------------------
(* Exit signals *)

InProcess == phase \notin {"stopped", "failed"}

\* Mutant of FirstSignal: the exit is delayed, but nobody is told.
FirstSignalUntold ==
    /\ InProcess /\ signals = 0
    /\ signals' = 1
    /\ early' = (phase = "opening")
    /\ timer' = "called"
    /\ UNCHANGED <<graph, phase, should_exit, health, gave_up, tracker, request>>

\* handle_exit, the first time: draining, and the timer is to be armed.  With
\* no readiness delay the server exits at once.
FirstSignal ==
    /\ InProcess /\ signals = 0
    /\ signals' = 1
    /\ health' = [health EXCEPT !.draining = TRUE]
    /\ early' = (phase = "opening")
    /\ \/ timer' = "called" /\ UNCHANGED should_exit
       \/ should_exit' = TRUE /\ UNCHANGED timer
    /\ UNCHANGED <<graph, phase, gave_up, tracker, request>>

\* Mutant of SecondSignal: the timer is cancelled and nothing takes its place.
SecondSignalOnlyCancels ==
    /\ InProcess /\ signals = 1
    /\ signals' = 2
    /\ timer' = IF timer = "off" THEN "off" ELSE "cancelled"
    /\ UNCHANGED <<graph, phase, should_exit, health, gave_up, early, tracker, request>>

\* handle_exit again: force_exit; the timer is cancelled after it was armed,
\* both calls being run by the loop in turn.
SecondSignal ==
    /\ InProcess /\ signals = 1
    /\ signals' = 2
    /\ should_exit' = TRUE
    /\ timer' = IF timer = "off" THEN "off" ELSE "cancelled"
    /\ UNCHANGED <<graph, phase, health, gave_up, early, tracker, request>>

ArmTimer ==
    /\ InProcess /\ timer = "called"
    /\ timer' = "armed"
    /\ UNCHANGED <<graph, phase, signals, should_exit, health, gave_up, early, tracker, request>>

TimerFires ==
    /\ InProcess /\ timer = "armed"
    /\ timer' = "off"
    /\ should_exit' = TRUE
    /\ UNCHANGED <<graph, phase, signals, health, gave_up, early, tracker, request>>

-----------------------------------------------------------------------------
(* Requests *)

At(r, pc) == request[r].pc = pc

Kind(r, kind) == request[r].kind = kind

Acquire == tracker' = [count |-> tracker.count + 1, idle |-> FALSE]

Release ==
    LET n == IF tracker.count > 0 THEN tracker.count - 1 ELSE 0 IN
    tracker' = [count |-> n, idle |-> tracker.idle \/ n = 0]

Becomes(r, rec) == request' = [request EXCEPT ![r] = rec]

\* A complete response: its start and its body.
Respond(rec) == [rec EXCEPT !.pc = "done", !.starts = @ + 1, !.held = FALSE]

\* The health endpoints are excluded from the per-IP limit.
Arrive(r, kind) ==
    /\ phase = "serving" /\ ~should_exit
    /\ settings \in Loaded
    /\ At(r, "none")
    /\ LET limited == kind # "probe" /\ settings.ip_limit = "on" IN
       /\ Becomes(r, [NoRequest EXCEPT !.kind = kind, !.late = signals > 0,
                        !.pc = IF limited THEN "limiter" ELSE "entered"])
       /\ IF limited THEN UNCHANGED tracker ELSE Acquire
    /\ UNCHANGED <<graph, server>>

\* IPRateLimitMiddleware: on to the tracker, or 429.
CheckIP(r) ==
    /\ At(r, "limiter")
    /\ \/ Becomes(r, [request[r] EXCEPT !.pc = "entered"]) /\ Acquire
       \/ Becomes(r, Respond(request[r])) /\ UNCHANGED tracker
    /\ UNCHANGED <<graph, server>>

\* The body limit, authentication or the principal's rate limit refuse it.
Refuse(r) ==
    /\ At(r, "entered") /\ ~Kind(r, "probe")
    /\ Becomes(r, Respond(request[r]))
    /\ Release
    /\ UNCHANGED <<graph, server>>

\* HealthService.readiness looks at draining once, before it awaits the checks.
Readiness(r) ==
    /\ At(r, "entered") /\ Kind(r, "probe")
    /\ Becomes(r, [request[r] EXCEPT !.pc = IF health.draining THEN "answering" ELSE "checking"])
    /\ UNCHANGED <<graph, server, tracker>>

\* The checks all pass, or one fails or times out.
ChecksDone(r) ==
    /\ At(r, "checking")
    /\ \E ok \in BOOLEAN :
          Becomes(r, [request[r] EXCEPT !.pc = "answering", !.ready = ok])
    /\ UNCHANGED <<graph, server, tracker>>

\* CompletionService: complete runs guards and handler; stream is primed.
Handle(r) ==
    /\ At(r, "entered") /\ ~Kind(r, "probe")
    /\ Becomes(r, [request[r] EXCEPT !.handler = "open",
                     !.pc = IF Kind(r, "sync") THEN "handling" ELSE "priming"])
    /\ UNCHANGED <<graph, server, tracker>>

\* Mutant of Recorded: the handler is closed without an observation.
RecordedOnlyClosed(rec) == [rec EXCEPT !.handler = "closed"]

\* The finally of complete and of stream: one observation, and the handler's
\* generator closed.
Recorded(rec) == [rec EXCEPT !.handler = "closed", !.observed = @ + 1]

\* The result or the error of complete, or an error or a missed deadline before
\* the first event, becomes a JSON response.
HandlerEnds(r) ==
    /\ At(r, "handling") \/ At(r, "priming")
    /\ Becomes(r, [Recorded(request[r]) EXCEPT !.pc = "answering"])
    /\ UNCHANGED <<graph, server, tracker>>

\* The response of an endpoint starts; gzip holds the start back until it
\* sees the body.
StartResponse(r) ==
    /\ At(r, "answering") /\ request[r].starts = 0 /\ ~request[r].held
    /\ Becomes(r, IF settings.gzip = "on" THEN [request[r] EXCEPT !.held = TRUE]
                  ELSE [request[r] EXCEPT !.starts = @ + 1])
    /\ UNCHANGED <<graph, server, tracker>>

EndResponse(r) ==
    /\ At(r, "answering") /\ (request[r].held \/ request[r].starts > 0)
    /\ Becomes(r, [request[r] EXCEPT !.pc = "done", !.held = FALSE,
                     !.starts = IF request[r].held THEN @ + 1 ELSE @])
    /\ Release
    /\ UNCHANGED <<graph, server>>

\* event_stream_response has the first event: the response starts with it.
FirstEvent(r) ==
    /\ At(r, "priming")
    /\ Becomes(r, [request[r] EXCEPT !.pc = "sending", !.starts = @ + 1])
    /\ UNCHANGED <<graph, server, tracker>>

FrameSent(r) ==
    /\ At(r, "sending")
    /\ Becomes(r, [request[r] EXCEPT !.pc = "waiting"])
    /\ UNCHANGED <<graph, server, tracker>>

\* The next event, or a ping while it is still awaited.
NextFrame(r) ==
    /\ At(r, "waiting")
    /\ Becomes(r, [request[r] EXCEPT !.pc = "sending"])
    /\ UNCHANGED <<graph, server, tracker>>

\* The stream ends, fails or misses the idle deadline: a last frame says which.
StreamEnds(r) ==
    /\ At(r, "waiting")
    /\ Becomes(r, [Recorded(request[r]) EXCEPT !.pc = "last"])
    /\ UNCHANGED <<graph, server, tracker>>

LastFrameSent(r) ==
    /\ At(r, "last")
    /\ Becomes(r, [request[r] EXCEPT !.pc = "done"])
    /\ Release
    /\ UNCHANGED <<graph, server>>

-----------------------------------------------------------------------------
(* Cancelled requests *)

\* What a cancelled request becomes.  A stream that is sending a frame is not
\* inside its generator: the request ends, and the generator is closed later.
Cancelled(rec) ==
    IF rec.pc \in {"limiter", "last", "sending"} THEN [rec EXCEPT !.pc = "done"]
    ELSE IF rec.pc \in Running THEN [rec EXCEPT !.pc = "unwinding"]
    ELSE rec

Disconnect(r) ==
    /\ Kind(r, "stream") /\ request[r].pc \in {"sending", "waiting", "last"}
    /\ Becomes(r, Cancelled(request[r]))
    /\ IF At(r, "waiting") THEN UNCHANGED tracker ELSE Release
    /\ UNCHANGED <<graph, server>>

\* RequestTimeoutMiddleware cancels what it wraps and waits for it to unwind.
RequestTimeout(r) ==
    /\ settings.timeout = "on" /\ ~Kind(r, "stream")
    /\ request[r].pc \in Tracked \ {"unwinding"}
    /\ Becomes(r, [request[r] EXCEPT !.pc = "unwinding", !.expired = TRUE])
    /\ UNCHANGED <<graph, server, tracker>>

\* Mutant of TimeoutResponds: response_started is not looked at.
TimeoutRespondsAlways(rec) == rec.expired

\* 504 when the timeout fired and no start came through from inside.
TimeoutResponds(rec) == rec.expired /\ rec.starts = 0

\* The finally clauses run, shielded in a stream; then the tracker's.
Unwind(r) ==
    /\ At(r, "unwinding")
    /\ LET rec == [request[r] EXCEPT !.pc = "done", !.held = FALSE]
           closed == IF rec.handler = "open" THEN Recorded(rec) ELSE rec
       IN  Becomes(r, IF TimeoutResponds(rec) THEN Respond(closed) ELSE closed)
    /\ Release
    /\ UNCHANGED <<graph, server>>

\* The event loop closes the generator of a stream cancelled while sending:
\* when it is collected, or when the loop itself is closed.
Finalize(r) ==
    /\ At(r, "done") /\ request[r].handler = "open"
    /\ Becomes(r, Recorded(request[r]))
    /\ UNCHANGED <<graph, server, tracker>>

-----------------------------------------------------------------------------
(* Shutdown *)

\* uvicorn's main loop ends and closes the listener.
StopListening ==
    /\ phase = "serving" /\ should_exit
    /\ phase' = "stopping"
    /\ UNCHANGED <<graph, signals, timer, should_exit, health, gave_up, early, tracker, request>>

\* The lifespan's finally begins: begin_draining.
Drain ==
    /\ phase' = "draining"
    /\ health' = [health EXCEPT !.draining = TRUE]
    /\ UNCHANGED <<graph, signals, timer, should_exit, gave_up, early>>

AllDone == \A r \in Request : request[r].pc \notin Running

RequestsDone ==
    /\ phase = "stopping" /\ AllDone
    /\ Drain
    /\ UNCHANGED <<tracker, request>>

\* Requests that a cancellation takes out of the tracker at once.
Released == {r \in Request : request[r].pc \in Tracked
                             /\ Cancelled(request[r]).pc = "done"}

\* The graceful timeout, or a second signal: what still runs is cancelled.
CancelRequests ==
    /\ phase = "stopping" /\ ~AllDone
    /\ request' = [r \in Request |-> Cancelled(request[r])]
    /\ LET n == tracker.count - Cardinality(Released)
       IN  tracker' = [count |-> n, idle |-> tracker.idle \/ n = 0]
    /\ Drain

\* Mutant of Idle: the resources are closed without waiting.
IdleAtOnce == TRUE

\* _drain_in_flight: a zero timeout, no tracker, nothing in it, or the idle
\* event.
Idle == settings.graceful # "on" \/ tracker.count = 0 \/ tracker.idle

\* The Langfuse flush that may follow is taken to end.
Drained ==
    /\ phase = "draining" /\ Idle
    /\ phase' = "closing"
    /\ UNCHANGED <<graph, signals, timer, should_exit, health, gave_up, early, tracker, request>>

DrainTimeout ==
    /\ phase = "draining" /\ ~Idle
    /\ phase' = "closing"
    /\ gave_up' = TRUE
    /\ UNCHANGED <<graph, signals, timer, should_exit, health, early, tracker, request>>

Close ==
    /\ phase \in {"closing", "failed"}
    /\ CloseLast
    /\ UNCHANGED <<server, tracker, request>>

\* Everything is closed: the lifespan puts placeholders back and returns.
Stop ==
    /\ phase = "closing" /\ stack = <<>>
    /\ phase' = "stopped"
    /\ health' = [service |-> "placeholder", draining |-> FALSE]
    /\ UNCHANGED <<graph, signals, timer, should_exit, gave_up, early, tracker, request>>

-----------------------------------------------------------------------------

RequestStep(r) ==
    \/ CheckIP(r) \/ Refuse(r) \/ Readiness(r) \/ ChecksDone(r) \/ Handle(r)
    \/ HandlerEnds(r) \/ StartResponse(r) \/ EndResponse(r)
    \/ FirstEvent(r) \/ FrameSent(r) \/ NextFrame(r) \/ StreamEnds(r) \/ LastFrameSent(r)

Next ==
    \/ Open \/ FailOpen \/ Started
    \/ FirstSignal \/ SecondSignal \/ ArmTimer \/ TimerFires
    \/ \E r \in Request, kind \in {"probe", "sync", "stream"} : Arrive(r, kind)
    \/ \E r \in Request : RequestStep(r) \/ Disconnect(r) \/ RequestTimeout(r)
                          \/ Unwind(r) \/ Finalize(r)
    \/ StopListening \/ RequestsDone \/ CancelRequests \/ Drained \/ DrainTimeout
    \/ Close \/ Stop

\* Timers fire, the loop runs what was called, cancelled requests unwind, the
\* generators they leave behind are closed, and opening and closing a resource
\* ends.  No request need ever end by itself.
Fairness ==
    /\ WF_vars(Open \/ FailOpen \/ Started)
    /\ WF_vars(ArmTimer) /\ WF_vars(TimerFires)
    /\ WF_vars(StopListening) /\ WF_vars(RequestsDone \/ CancelRequests)
    /\ WF_vars(Drained \/ DrainTimeout) /\ WF_vars(Close) /\ WF_vars(Stop)
    /\ \A r \in Request : WF_vars(Unwind(r)) /\ WF_vars(Finalize(r))

Spec == Init /\ [][Next]_vars /\ Fairness

-----------------------------------------------------------------------------
(* Properties *)

\* Settings that pass the validators never make an opener fail for a resource
\* that is not open: the rules of core/config and the order of the openers fit.
OpenersFindTheirServices == phase = "opening" => ~Missing

\* While a resource is open, whatever it was built on is open too: through
\* startup, a failed startup and shutdown, users close before their services.
UsersCloseFirst ==
    \A f \in live \ Unclosed : Needs(settings, f) \subseteq live

\* No resource is closed under a request the tracker knows of, unless waiting
\* for it timed out, or graceful shutdown is disabled or given no time.
NothingClosedUnderRequests ==
    phase \in {"closing", "stopped"} /\ settings.graceful = "on" /\ ~gave_up
        => \A r \in Request : request[r].pc \notin Tracked

\* A probe that arrives after the first signal is told "ok" only if that signal
\* came during startup, when begin_draining marks a HealthService the lifespan
\* is about to replace; a signal while serving is seen by every later probe.
DrainingIsSeen ==
    \A r \in Request : request[r].late /\ request[r].ready => early

\* The client never sees a second response start, whichever of the endpoint,
\* the timeout and the limiters answers.
OneResponse == \A r \in Request : request[r].starts <= 1

\* The request is over or on its way out, and its handler was called.
Handled(r) == request[r].handler # "none" /\ request[r].pc \in {"unwinding", "done"}

\* "one CompletionObservation per complete/stream call": whether the call ends,
\* fails, times out, is cancelled or loses its client, its observation is made
\* in the end, and never a second one.
ObservedOnce ==
    \A r \in Request : /\ [](request[r].observed <= 1)
                       /\ Handled(r) ~> request[r].observed = 1

\* After a signal the process stops, though requests may never end: the delay,
\* the graceful timeout and the drain timeout bound every wait.
SignalStops == signals > 0 ~> phase \in {"stopped", "failed"}

=============================================================================
