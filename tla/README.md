# Verification of uvicorn

TLA+ models of uvicorn's server, protocols, WSGI bridge and supervisors, checked by TLC on small
instances, with theorems about them proved by TLAPS. Every definition is translated from the source under `src/uvicorn`; `PROJECT.json`
maps each to its lines.

* [Inventory](#inventory): the parts of the system, their state and how they interact
* [Modules](#modules): which module models which part, and how
* [Runs](#runs): what is checked, within which bounds
* [Fairness](#fairness)
* [Proofs](#proofs)
* [What is not modelled](#what-is-not-modelled)
* [Disagreements found](#disagreements-found)
* [State of the plan](#state-of-the-plan)

## Inventory

uvicorn runs an ASGI application on one asyncio event loop. Code between two awaits is atomic; what
is hard is the order in which callbacks of the transport, tasks of the application, timers and
signals come in between.

| Component | State | Operations | Interacts with |
|---|---|---|---|
| `Server` (`server.py`) | `should_exit`, `force_exit`, listeners, `ServerState` (connections, tasks, total_requests) | `serve`: `startup`, `main_loop`, `shutdown`; `handle_exit` | awaits the lifespan; calls `shutdown()` of each connection; reads the sets the protocols write |
| `LifespanOn` (`lifespan/on.py`) | two events, receive queue, failure flags | `startup`, `shutdown`, `main` (a task running the application), `send`, `receive` | the server on one side, the application on the other |
| `HttpToolsProtocol` (`httptools_impl.py`) | `cycle` (the latest request), `pipeline`, keep-alive timer | transport callbacks, parser callbacks, `on_response_complete`, `shutdown` | parser, transport, `FlowControl`, cycles, `ServerState` |
| `RequestResponseCycle` (same file) | body buffer, `message_event`, response flags, `keep_alive`, `disconnected` | `run_asgi`, `send`, `receive` | the application's task; the protocol by shared state and `on_response` |
| `FlowControl` (`flow_control.py`) | `read_paused`, `write_paused`, writable event | pause and resume of both directions, `drain` | transport, protocol, cycles |
| `H11Protocol` (`h11_impl.py`) | as httptools, with `h11.Connection` in the place of the pipeline | the same, with `handle_events` | the same, and h11's two state machines |
| `WebSocketProtocol` (`websockets_impl.py`) | three events, initial response | `process_request`, `ws_handler`, `run_asgi`, `asgi_send`, `asgi_receive`, `shutdown` | the websockets library's handler task, state and inbox |
| `WSProtocol` (`wsproto_impl.py`) | event queue, handshake and close flags, read pausing | event handlers, `send`, `receive`, `shutdown` | wsproto's state machine |
| `WSGIResponder` (`middleware/wsgi.py`) | send queue, send event | `__call__`, `sender`, `wsgi` (in a thread) | executor thread and event loop |
| `BaseReload`, `Multiprocess` (`supervisors/`) | `should_exit`, child processes | `run`, `restart`, `shutdown`, signal handler | child processes, signals |
| `ProxyHeadersMiddleware` | trusted hosts | choice of client host | the scope |
| configuration, CLI, logging, loops, `auto` modules | options | read once at the start | - |

Hard behaviours, and what makes each component correct:

* **HTTP connection.** Requests arrive while others are running (pipelining); reading is paused for
  two different reasons and resumed in two places; `message_event` has three setters; the response of
  one task starts the task of the next; loss, timeout, parse errors and shutdown come at any time.
  Correct means: responses in order, no request forgotten, no wake-up lost, no deadlock of
  back-pressure, and a connection that closes when it should and not before.
* **Server.** Signals come at any point; connections and tasks end in any order during a shutdown,
  which may time out or be forced. Correct means: nothing is served before the application has
  started; it is told to stop only after the work is done; every connection is asked; the shutdown ends,
  with nothing left behind unless it was forced or timed out.
* **Lifespan.** The application may return, raise or answer at any point, in turn or out of it.
  Correct means: the server never waits for an answer that cannot come, and starts only if it may.
* **HTTP over h11.** The same, but order and pipelining are h11's: uvicorn has to turn its two state
  machines over at the right moment, and every event it sends may be refused. Correct means: an open
  connection is always ready, reading or answering, and never paused with nobody to go on.
* **WebSockets.** The application, the library (or its events) and the server each may end the
  handshake or the connection. Correct means: one answer, messages only between accept and close, a
  disconnect for every loss, nothing opened after `shutdown()`, and reading that is always resumed.
* **WSGI.** A thread appends and wakes, the loop pops and clears. Correct means: no wake-up lost, every
  message sent in order, and a responder that ends however its application did.
* **Supervisors.** Signals, changes of files and deaths of children come between any two steps of the
  parent. Correct means: no process left behind or twice, every signal obeyed, every change noticed.

## Modules

| Module | Models | |
|---|---|---|
| `PipelinedService` | - | abstract specification: what an HTTP connection promises |
| `HttpTools` | `httptools_impl.py`, `flow_control.py` | one connection: transport, parser, protocol, cycles, application tasks |
| `MCHttpTools` | - | bounds of its runs |
| `HttpToolsProofs` | - | theorems about `HttpTools` |
| `Lifespan` | `lifespan/on.py` | the lifespan protocol, with the application inside `main()` |
| `Server` | `server.py` | composes `Lifespan` with startup, main loop, shutdown, signals, connections and tasks |
| `MCServer` | - | bounds of its runs |
| `ServerProofs` | - | theorems about `Server` and `Lifespan` |
| `H11` | `h11_impl.py` | one connection over h11, which implements `PipelinedService` too |
| `H11Proofs` | - | theorems about `H11` |
| `AsgiWebSocket` | - | abstract specification: what a WebSocket connection promises its application and client |
| `WebSocketTransport` | - | what the two WebSocket classes share: client and transport |
| `WebSockets` | `websockets_impl.py` | one connection: handler task, application task, events |
| `WsProto` | `wsproto_impl.py` | one connection: event handlers, queue, application task |
| `MCWebSockets` | `websockets/auto.py` | either of the two, under one set of properties |
| `WebSocketsProofs`, `WsProtoProofs` | - | theorems about each of the two classes |
| `MCWebSocketsProofs` | - | the same for a connection of either class, as the run states them |
| `Wsgi`, `WsgiProofs` | `middleware/wsgi.py` | one request: responder, sender, loop callbacks, thread; theorems |
| `Supervisor`, `SupervisorProofs` | `supervisors/`, `_subprocess.py` | the parent of `--reload` and `--workers`; theorems |

A definition marked `(mutant: ...)` in a comment stands next to the one it spoils, as a bug of the
code might; each property is known to fail under one of these.

### HttpTools

One action per callback or handler. A call of `data_received` is a sequence of parser callbacks
(`DataReceived`, then `OnHeadersComplete`, `OnBody`, `OnMessageComplete`, then `FeedEnds`,
`ParserError` or `HandleWebsocketUpgrade`) during which `feeding` keeps everything else out, as the
event loop does. `Free` states when the loop may run something else; it also keeps the two sends of
`send_500_response` together unless `drain()` suspends them.

Requests are numbered as they are parsed, and each attribute of `RequestResponseCycle` is a function
on these numbers (`started` is `response_started`, `event` is `message_event`, and so on). `cur` is
the request of `self.cycle`: `connection_lost`, `shutdown`, `on_body` and `on_message_complete` touch
only that one, which is what makes pipelining delicate. `phase` follows the task: `"queued"` in the
pipeline, `"app"` in the application, `"fail"` in `send_500_response`, `"done"`.

`receive()` and `send()` are cut at their awaits: `Receive` up to `message_event.wait()`,
`ReceiveWakes` after it; `SendWaits` up to `drain()`, then `SendStart`, `SendBody`, `SendLast` or
`SendReturns`. `SendLast` is the whole rest of the call, with `on_response_complete` and the start of
the next request. The application is arbitrary: it calls, cancels, raises and returns as it likes,
but holds at most one `receive` and one `send` at a time, and none after it has ended.

Abstractions:

* The body is counted in chunks, `HighWater` of which fill the buffer; a response is started, goes on
  and completes. Which header made `keep_alive` false, or an error, is a free choice.
* The transport may call `pause_writing` at any write, and `resume_writing` at any later time.
* A transport that is closed flushes and is lost; one that fails is lost without flushing.
* `data_received` gets any number of callbacks, so that a request may arrive in pieces or many at once.
* `limit_concurrency` only puts `service_unavailable` in the place of the application.
* A task cancelled by the graceful timeout takes the branch of `AppRaises`, as in the code; a second
  cancellation, in `send_500_response`, is not modelled.

### Server and Lifespan

`pc` is the place where `serve()` waits; each await is a step, and signals, the application and the
connections move between them. The options `lifespan`, `limited` (`limit_max_requests`) and `patient`
(no `timeout_graceful_shutdown`) are chosen in `Init`, so that one run has them all. So is
`waitsClosed`, what `wait_closed()` of a listener does, which is not uvicorn's choice: asyncio's waits
for the connections of the listener from Python 3.12 on; before, it returns at once on a closed one.

`_wait_tasks_to_complete` is three waits: `"connections"` and `"tasks"`, the two loops that `force_exit`
ends, and `"listeners"` (`ListenersClosed`), which it does not end. Only the timeout of `wait_for` cuts
all three short (`GracefulTimeout`).

A connection is what the server sees of it: in `connections` or not, able to close at once (`"idle"`)
or after its response (`"busy"`, then `keepAlive` decides). Its tasks may outlive the response
(background work) and the connection. `HttpTools` has the detail behind `Request`, `Response`,
`TaskFails` and `AskAll`; pipelining is left out here. `Lifespan` has the application's side:
`TakesMessage`, `SendsStartup`, `SendsShutdown` and `MainEnds`, at any time and in any order the
assertions of `send` allow.

`SlowAccept` separates the moment a connection is accepted from `connection_made`. `shutdown()` of a connection is taken not to raise, which is
so for httptools and websockets; `H11` and `WsProto` show when it raises with the others.

### H11

`ours`, `theirs` and `reusable` are the state of `h11.Connection`; `Settle` has its state-triggered
transitions and `MaySend` the states that take an event. They are external, written down from how
h11_impl uses them. An event that h11 refuses raises `LocalProtocolError` and leaves `ours` at
`"ERROR"` for good (`Refuse`); the code catches it only in `connection_lost`.

`handle_events` is the run of steps while `feeding`: `Request`, `Data`, `EndOfMessage`, and its ends
`NeedData`, `Paused`, `InvalidRequest` and the upgrade. It is entered from `data_received` and, with
`heads` (requests h11 has buffered), from the end of a response. `SendLast` is one step from the last
body to `on_response_complete` and `start_next_cycle`. `Receive` and `send()` are cut as in `HttpTools`,
and an application may go on after an exception of `send()`.

A response that breaks its own content-length is a free choice (`fits`, `whole`), as are `Expect`,
`Connection: close` and headers h11 or `STATUS_PHRASES` do not take.

### WebSockets and WsProto

`WebSockets` has three parties. `handler` is the library's task: it calls `process_request`, waits for
`handshake_started_event`, answers (`HandshakeEnds`: with the response it was given, with a refusal if
the server is closing, or with the acceptance) and runs `ws_handler`. `app`, `recv` and `snd` are the
application's task, cut at the waits for `handshake_completed_event`, `recv()` and `close()`. The
callbacks are the transport's and `shutdown()`. The library's side is external: `state`, `inbox`, the
closing handshake (`LibraryCloses`) and what `recv()` and `close()` do.

`WsProto` has the event handlers of wsproto during `feeding`, the queue and the flags. `state` is
wsproto's: an event it does not take raises and changes nothing, while what uvicorn has set before
stays set, which several properties turn on. The client is taken to conform to RFC 6455: no frame before the
handshake is answered and none after its close frame. Fragments of a message are abstracted to its
end, message contents and close codes are left out.

In both, what is written to a transport after `close()` is dropped, as asyncio does with data behind
an empty buffer. `AsgiWebSocket` has the promises: one answer to the handshake; to the application one
connect, then messages only on an accepted connection, then only disconnects, and these never while
the connection is still in use. The mapping is by name, with `open` for `InUse`.

### Wsgi

The loop's tasks and callbacks take turns; the thread moves between any two of their steps, also
between `send_queue.append` (`Put`) and `call_soon_threadsafe` (`ThreadWakes`), which is where a
wake-up could be lost. Messages are numbered, so that order and loss show. `Cancel` is the cancellation
by the graceful timeout, at each of the three awaits. The body of the request is a number of `receive()`
calls; a disconnect among them ends it like a last part, and the application runs on what has come.

### Supervisor

`pc` is the parent's place, `processes` every child ever started with what it is doing and the version
of the file it has loaded. One watched file stands for all; `mtime` counts its saves. The three
reloaders differ in `known`: StatReload keeps the first time it notes until it restarts, the watchers
replace theirs at every look, and WatchGod has looked already when it is made. A child that has not
installed its handlers dies of a signal; later it leaves gracefully, or at once on a second SIGINT.

## Runs

All runs have `CHECK_DEADLOCK FALSE`: a connection that is lost, and a server that has exited, stop.

| Run | Instance | Checks |
|---|---|---|
| `httptools_safety` | 3 requests, 2 chunks of body each, WebSocket upgrade | the type invariant, eight invariants and the refinement of `PipelinedService` |
| `httptools_liveness` | 2 requests, no bodies | four leads-to properties |
| `httptools_unheard_loss` | the same | violated: see below |
| `httptools_timeout_in_request` | 2 requests | violated: see below |
| `server_safety` | 2 connection slots, 2 tasks each, request limit 2, up to 3 responses counted | the type invariant and five invariants |
| `server_liveness` | 1 slot, 2 tasks, request limit 1, up to 2 responses counted | three leads-to properties |
| `server_late_connection` | 1 slot, late `connection_made` | violated: see below |
| `server_ctrl_c` | 1 slot, request limit 1 | violated: see below |
| `h11_safety` | 2 requests, 1 chunk of body each (one over the mark of 0) | the type invariant, three invariants and the refinement of `PipelinedService` |
| `websockets` | 2 messages of the client, both implementations | the type invariant, two invariants, two action or temporal properties and the refinement of `AsgiWebSocket` |
| `wsgi` | 3 messages, 2 parts of body | two invariants and termination |
| `supervisor` | 3 workers or a reloader of each kind, 2 saves, 2 signals | one invariant and two leads-to properties |

What the passing runs show:

* `ServedInOrder`, `QueueHasRunner`: responses leave in the order of the requests, and the pipeline of
  an open connection always has a request before it that will pop it.
* `PausedHasResumer`, `BodyCanArrive`: paused reading always has someone to resume it, and an
  application that waits for body never waits with reading paused, though three places pause and
  resume it for different reasons.
* `EventMeansNews`: `message_event` is set exactly when the application has not been given something:
  no wake-up is lost, and no empty message follows the last.
* `NoSilentEnd`: whatever an application does, its client is not left waiting on an open connection.
* `ShutdownPending`: after `shutdown()`, the connection is closing or an unanswered request will close
  it, although `shutdown()` tells only the latest one and more may arrive.
* `DrainHasCause`: no task waits in `drain()` on a writable flow.
* `ServiceSpec`: the connection implements `PipelinedService`, under the mapping in `HttpTools`
  (`served` is what has left the pipeline, `answered` what `total_requests` has counted). In
  particular a response that completes on a closing connection does not start the next request, and one
  that completes on an open connection starts it in the same step.
* `LatestHearsOfLoss`, `EveryRequestAnswered`, `ShutdownCloses`, `ReadingResumes`: the same promises as
  progress.
* `ServesOnlyStarted`, `WorkDoneBeforeLifespan`, `ToldBeforeExit`, `ShutdownReachesAll`: the order of
  startup, service, shutdown and exit, and who is told what.
* `NothingLeftBehind`: a server that has closed its listeners exits with no connection and no task,
  also when there is no lifespan to tell, unless it was forced or timed out; a forced exit may leave tasks,
  and connections only where `wait_closed()` does not wait for them.
* `ShutdownEnds`: a shutdown ends, whichever way it was begun and whatever the lifespan application does.
  Forced, it needs neither the requests nor the tasks to end, with one exception, which the property
  names (`HeldOpen`): `wait_closed()` waits for the connections (Python 3.12), there is no
  `timeout_graceful_shutdown`, and a request never ends. Then the server stays there for ever, and no
  second CTRL+C changes it; nothing else in `shutdown()` holds a forced exit up.
* `LimitEndsServer`: a server that has reached `limit_max_requests`, or passed it between two ticks,
  exits without a signal (with the same exception, should a signal force it on the way).
* `StartupReturnsAlways`: `startup()` returns whatever the lifespan application does.
* `h11_safety`: `CycleTurns` says that, between callbacks, an open connection is ready for a request,
  or reads the rest of one that was answered early with reading on, or answers one, and that h11's two
  states, the cycle and the pause of reading agree about which; the other properties are those of
  httptools. All of them except connections that h11 has given up (`Refused`): after a response of the
  wrong length, or a keep-alive timer that fires during a pipelined response, the code leaves the
  connection open with nothing more to be sent on it. `ShutdownPending` says nothing of a `shutdown()`
  that raised for the same reason (`asked = "raised"`).
* `websockets`: `NotOpenedAfterShutdown`, that a handshake in progress at `shutdown()` is never accepted
  afterwards; `LossIsHeard`, that an application that receives gets its disconnect and no task waits
  for the end of a handshake for ever; `PausedHasUnread`, that wsproto's paused reading always has an
  event that resumes it; `NoSilentEnd`, that a client whose application has ended has its answer or
  will get one. Excepted is the case in which wsproto refuses the application's answer (a subprotocol
  not offered, an invalid header) after `handshake_complete` was set, and a `shutdown()` that raises
  after the application's own close: both leave the connection open.
* `wsgi`: `WaitingIsWoken`, `AllSent`, `ResponderReturns`: no wake-up is lost, everything the application
  made is sent in order, also when it raised, and the responder ends, also when it is cancelled or
  `send()` raises.
* `supervisor`: `NoProcessLeft`, `SignalEnds`, `ChangeReloads`: processes never overlap nor outlive the
  parent, a signal at any point ends it, and a child that runs old code is replaced. Excepted
  from the last is StatReload's blind spot: a save after the child has loaded the file and before the
  first scan after its start (`known <= v`).

Bounds, and why they are enough. The code relates a request to the one before it, the latest one and
the head of the queue: three requests have a running one, a queued one and a latest one. Only the
order of the queue needs all three, so that `ThirdPipelined` lets a third arrive only where the rest
is plain (no bodies, no `Expect`, no write back-pressure, no upgrade, no `receive` in progress); every
pair of requests is explored with all of it. One chunk over the high-water mark, with one below it, reaches both sides of
the comparison. For liveness `PipelineOnly` leaves bodies and write back-pressure out. In `Server` the
slots are used again for any number of connections; two of them have every pair of states, two tasks
of one have one in service and one left over. `MaxTotal` is one more than `Limit`, so that the main loop
may find the limit reached and may find it passed, as it does when several responses complete between
two ticks; responses beyond `MaxTotal` are no longer counted, which the comparison with `Limit` cannot
tell.
Two requests are enough for `H11`, which relates
the current request to what h11 has buffered behind it; the next one starts from the same state of
both machines. Two messages reach a queue with more than one event, one read and one unread at a close.
Three messages of a WSGI application are a start, a body and an end, so that there is always one
before and one behind the wake-up; the three workers are one ended, one being joined and one not told
yet; two saves are one before and one after a restart, and two signals are what forces a child.
`NoneLate` keeps connections that are between accept and `connection_made` out of the shutdown in
`server_safety`, where the docs' claim is checked, and `SlowAccept = FALSE` out of `server_liveness`: one
that is never asked may keep a shutdown waiting. `server_late_connection` has them.

## Fairness

* `LoopFairness` of `HttpTools`: asyncio runs every callback and task that is ready. It is strong for
  steps that a run of `data_received` interrupts, since the loop takes turns; weak for the end of that
  run. `SF_vars(ResumeWriting)` and `SF_vars(ConnectionLost)` say that a client reads what it is sent
  or its transport fails, as TCP does in the end.
* `AppFairness` is an assumption about the application: it starts and completes its responses, or ends.
  Nothing in uvicorn bounds the time of a request.
* `Fairness` of `Server`: the server's own steps, timers included, are taken; a closing connection is
  lost; the lifespan application answers what it is asked or ends. Requests and tasks are assumed to
  end only if `patient` and not `forceExit`: with `timeout_graceful_shutdown` the shutdown ends without
  them, and of a forced one `ShutdownEnds` says what it does when they do not end.
* `MCWebSockets`: the callbacks and waits of the `websockets` class are run when they can be, and the
  application keeps receiving (`Receive`); the latter is an assumption about the application, which
  `LossIsHeard` needs. Neither the client nor the library is assumed to do anything.
* `Wsgi`: the loop runs tasks and callbacks, `receive()` and `send()` return, a thread of the pool
  becomes free, and WSGI applications return or raise.
* `Supervisor`: the parent runs, and a child that has begun to shut down ends, as its clients finish
  or `timeout_graceful_shutdown` is over. A child that is told nothing may serve for ever.
* No fairness for clients, signals, timeouts or the arrival of requests.

## Proofs

`HttpToolsProofs` proves for every `MaxRequests`, every `HighWater` and with or without WebSockets:

| Theorem | Property |
|---|---|
| `TypeCorrect` | `Spec => []TypeOK` |
| `OrderSafety` | `Spec => []ServedInOrder` |
| `QueueSafety` | `Spec => []QueueHasRunner` |
| `PauseSafety` | `Spec => []PausedHasResumer` |
| `EndSafety` | `Spec => []NoSilentEnd` |
| `DrainSafety` | `Spec => []DrainHasCause` |
| `ShutdownSafety` | `Spec => []ShutdownPending` |
| `EventSafety` | `Spec => []EventMeansNews` |
| `BodySafety` | `Spec => []BodyCanArrive` |
| `LossSafety` | `Spec => []LossInv`, the safety half of `LatestHearsOfLoss` |
| `ServiceRefinement` | `Spec => ServiceSpec`, the refinement of `PipelinedService` |

All but `DrainSafety` rest on `ServiceInvariant`, the induction: that a completed response starts the
right request depends on what the pipeline holds. `ServiceInv` has what the code relies on without
saying it:

* the pipeline is exactly the last `Len(pipeline)` requests, oldest first, these and no others have
  phase `"queued"`, the requests up to `total` and no others are complete, and of those handed to the
  application at most the last one is not (`OrderInv`);
* what the loop's atomicity gives: the connection is open while the parser is fed, and nothing else
  runs (`LoopInv`);
* on an open connection with a queue, or with reading paused, a request handed out is unanswered
  (`BusyInv`), from which `QueueHasRunner` and `PausedHasResumer` follow;
* a cycle is marked disconnected only once the connection is lost, and a task has ended only with its
  response complete or the connection not open (`EndInv`).

`DrainHasCause` is inductive by itself. The other properties need one more invariant each, proved on
top of `ServiceInv`:

* `ShutInv`: after `shutdown()`, on an open connection, a request received and unanswered has
  `keepAlive` false. The witness is the latest request at the time of the call; no later step sets its
  flag again, and requests arriving behind it do not matter.
* `NewsInv`: `more_body` is true until the message is complete, and the end of the body is given out only
  after that. With it `EventMeansNews` is inductive: the three setters and the one place that clears
  `message_event` agree.
* `ArriveInv`: a request whose message is over, with `more_body` still true, has been answered; a wait
  not yet signalled is for a request received and unanswered; and one that still expects body leaves
  reading on. The point is in `on_headers_complete`, which pauses reading for a queued request: whoever
  waits then already has the end of the body.
* `LossInv`: once the connection is lost, and unless a WebSocket protocol had taken it over, the cycle
  of the latest request is marked or complete, so that nothing waits anew, and whoever waits has been
  signalled. It says nothing of earlier requests, which are not told (`httptools_unheard_loss`).

For the refinement, each step of the connection is shown to be a step of `PipelinedService` or a
stutter: a head parsed is `Receive`, where `BusyInv` shows that `response_complete` of the latest cycle
says whether the service is idle; `SendStart` is `Begin` and `SendLast` is `Finish` of the one request in
service; every other step stutters or closes.

Each part is preserved by each action in one lemma; the lemmas on sequences (`Head`, `Tail`, `Append`
of consecutive numbers) are stated once. The assumptions are those of the module: `MaxRequests` is a
positive natural, `HighWater` a natural, `WsAvailable` a Boolean.

`ServerProofs` proves for every set of connection slots, every request limit and every bound on tasks:

| Theorem | Property |
|---|---|
| `ServerTypeCorrect` | `Spec => []TypeOK` |
| `StartSafety` | `Spec => []ServesOnlyStarted` |
| `ToldSafety` | `Spec => []ToldBeforeExit` |
| `WorkDoneSafety` | `~SlowAccept => (Spec => []WorkDoneBeforeLifespan)` |
| `ShutdownReachSafety` | `~SlowAccept => (Spec => []ShutdownReachesAll)` |
| `NothingLeftSafety` | `~SlowAccept => (Spec => []NothingLeftBehind)` |

* `TypeInv` bounds the receive queue by where `serve()` is, and gives each busy connection a task.
* `StartedInv`: past `startup()`, or with anything listening, connected or running, the application has
  answered and has not refused; `StartedStays` shows that the first answer decides.
* `ToldInv`: `lifespan.shutdown()` is awaited once its message is out, the message stays in the queue
  until it is taken, and an exit by any other way has a reason that `ToldBeforeExit` names.
* `WorkInv`: each wait of `shutdown()` that was neither forced nor timed out leaves what it waited for
  behind it, because the listeners are closed; the wait for the listeners does so even when forced, where
  it waits at all. The last three theorems assume `~SlowAccept`; `server_late_connection` shows why for
  `ShutdownReachesAll`.

`WsgiProofs`, for every number of parts and messages: `WsgiTypeCorrect`, `WakeSafety` (`WaitingIsWoken`)
and `SentSafety` (`AllSent`). With the types `WaitingIsWoken` is inductive (`WakeInv`): it names the
three places in which a wake-up may be, in the thread between its two calls, in the loop's callbacks, in
the event. The second needs the order of what is under way (`OrderInv`): what is queued is what was made
and not taken, as consecutive numbers, with END behind it once the responder has put it there (`Line`),
and unless the task was cancelled the thread has ended by then, so that nothing comes behind END.

`H11Proofs` proves for every `MaxRequests` and every `HighWater`:

| Theorem | Property |
|---|---|
| `H11TypeCorrect` | `Spec => []TypeOK` |
| `H11CycleTurns` | `Spec => []CycleTurns` |
| `H11NoSilentEnd` | `Spec => []NoSilentEnd` |
| `H11ShutdownPending` | `Spec => []ShutdownPending` |
| `H11LossHeard` | `Spec => []LossHeard`: on a lost connection every `receive()` that waits is signalled |
| `H11ServiceRefinement` | `Spec => ServiceSpec`, the refinement of `PipelinedService` |

There is no pipeline here: that requests are answered in order is a matter of h11's two states, which
the code drives without looking at them together. The inductive invariant `ConnInv /\ EndInv` ties them
to the cycles:

* `OrderInv`: every request counted is complete, at most one more has been taken, and a response
  complete but not counted is one that h11 has refused;
* `HalvesInv`: our side is `IDLE` or `DONE` only while every request taken is answered, and in the middle
  of a response only while one is not; the two sides are `IDLE` together; and on an open connection
  neither is left where `start_next_cycle` was due;
* `LoopInv`: `handle_events` stops with a head in the buffer only where h11 says `PAUSED`, the state that
  `on_response_complete` takes it up from again; reading is not paused while nothing is in service; and
  after an upgrade it never runs again;
* `BusyInv`: a request that h11 waits to see answered is in service. With `OrderInv` and `HalvesInv` it
  gives `CycleTurns`, and it is what `NoSilentEnd` and `ShutdownPending` need to be inductive.

`H11LossHeard` needs `HearInv` on top: a wait that is not signalled is for an unanswered request, which
`OrderInv` shows to be the latest one. This is where the two HTTP classes differ: with httptools an
earlier request may be the one that waits.

`WebSocketsProofs` and `WsProtoProofs`, for every number of messages:

| Theorem | Property |
|---|---|
| `WebSocketsTypeCorrect`, `WsProtoTypeCorrect` | `Spec => []TypeOK` |
| `WebSocketsNoSilentEnd`, `WsProtoNoSilentEnd` | `Spec => []NoSilentEnd` |
| `UnreadSafety` (wsproto) | `Spec => []PausedHasUnread` |
| `LossSafety` (wsproto) | `Spec => []LossIsQueued`, the safety half of `LossIsHeard` |
| `WebSocketsServiceRefinement`, `WsProtoServiceRefinement` | `Spec => Service!Spec`, the refinement of `AsgiWebSocket` |

For the websockets library the inductive invariant is `ConnInv`: `HandshakeInv` says that an open
connection is either unanswered, with the handler task on its way to the answer, or accepted;
`ReceiveInv` says where a message or a disconnect on its way to `receive()` has come from. For wsproto
it is `ServiceInv`:

* `EventInv`: whatever pauses reading queues an event, and the `receive()` that empties the queue resumes
  it (`PausedHasUnread`); on a lost connection `data_received` does not run, and the last event in the
  queue, or the last one given out if it is empty, is a disconnect (`LostInv`);
* `HandshakeInv`: what wsproto's state says of the answer, of the transport and of the flags that
  uvicorn sets before wsproto has agreed, which is all that `shutdown()` and `run_asgi` have to go by;
* `OrderInv`: connect is first in the queue and there once, no message stands behind a disconnect, and
  once a disconnect is queued or given the connection is not in use, and `data_received` will not read
  another frame (`Deaf`). That it stays so (`DeafStays`) is what keeps a message from being queued behind
  the disconnect of `shutdown()` or of `send()`.

`MCWebSocketsProofs` states these for a connection of either class, over the shared variables, as the
run `websockets` checks them: `ConnectionTypeCorrect` (`TypeOK`), `ConnectionNoSilentEnd`
(`NoSilentEnd`), `ConnectionUnread` (`PausedHasUnread`), `ShutdownKeepsShut`
(`NotOpenedAfterShutdown`) and `ConnectionServiceRefinement` (`ServiceSpec`). A step is one of the class
that `impl` names, so its invariant is that class's, and every step is settled by an instantiated lemma of
`WebSocketsProofs` or `WsProtoProofs`. The action property has two witnesses: the handler task sees
`asked`, and wsproto's `SendAccept` finds the transport closing or `handshake_complete` set.

`SupervisorProofs`, for every number of workers, saves and signals: `SupervisorTypeCorrect` and
`ProcessSafety` (`NoProcessLeft`). `ParentInv` says that what `shutdown()` has passed in its list is dead
(`StopInv`), and that of a reloader's processes all but the last are dead, that one too when the next is to
be started (`OneInv`). What preserves it is that a dead process stays dead, whatever signals come.

What stays with TLC: every liveness property (`ResponderReturns`, `SignalEnds`, `ChangeReloads`,
`LossIsHeard` and those of `HttpTools` and `Server`), since the prover handles neither fairness nor
`ENABLED`. Every other property of a passing run, action properties and refinements included, is a
theorem.

## What is not modelled

* `proxy_headers.py`: a pure function of one request's headers, without state, awaits or failures that
  another part could see.
* How `FileFilter` and `CustomWatcher` decide by name whether a file is watched (a file of the model is
  one that is), and the Windows branches of the supervisors.
* `limit_concurrency` across connections: which application answers is a free choice in `HttpTools` and
  `H11`. The bytes of responses (framing, `Content-Length`) and of denial bodies.
* `config.py`, `main.py`, `importer.py`, `logging.py`, `loops/`, `_types.py`, `protocols/utils.py`:
  options read before anything runs, imports, types and pure helpers, without state of their own.
* `workers.py`: Gunicorn's side of `Server.serve`. `asgi2.py`, `message_logger.py`: no state.

## Disagreements found

Each has a run that shows it and an entry under "findings".

* **A loss is not heard by an earlier request.** `connection_lost` wakes `self.cycle`, the latest
  request. If a request is queued behind the running one, the running application's `receive()` never
  returns (`httptools_unheard_loss`; `tests/protocols/test_http.py`, `test_early_disconnect`, expects it
  to). Its task stays in `server_state.tasks`.
* **The keep-alive timer runs during a request.** It is armed before the next pipelined request is
  started, and closes the connection in the middle of a response that takes longer
  (`httptools_timeout_in_request`; `docs/server-behavior.md`, timeouts: "between requests").
* **A late connection is not asked to close** (`server_late_connection`; `docs/server-behavior.md`,
  graceful shutdown: all connections that do not wait for a response are closed).
* **After `limit_max_requests`, CTRL+C does not force** on the first press, as the log message says it
  does (`server_ctrl_c`).

Met by a passing run, as the exception that `ShutdownEnds` names: on Python 3.12 the CTRL+C that the
messages of `_wait_tasks_to_complete` offer ("CTRL+C to force quit") ends the loops and not the
`wait_closed()` behind them, so that a request which never ends still holds the server up, unless there
is a `timeout_graceful_shutdown`.

Observed and not checked by a run: `send()` waits for the write buffer before it writes, not after, so
that the call that fills it returns at once (the docs on write flow control say it waits); a signal
during startup ends `serve()` without `lifespan.shutdown`; a body read after an early response cancels
the keep-alive timer for good; a parse error is answered in the middle of another response.

Observed in the later modules, where the properties name the case they except: `shutdown()` of an h11
or wsproto connection may raise, which leaves `Server.shutdown` in the middle of its loop; h11 in
`ERROR` is never closed by the protocol; a handshake answer that wsproto refuses leaves the client
without one; a `send()` of wsproto never returns if its transport fails while writing is paused; a
denial body sent after an await is lost with websockets; a WSGI application runs on a truncated body when the client
disconnects; StatReload misses a save between the start of a child and its own first scan.

## State of the plan

Done, in this order: `PipelinedService`, `HttpTools`, `Lifespan`, `Server` and their proofs; then `H11`,
`AsgiWebSocket`, `WebSockets`, `WsProto`, `Wsgi`, `Supervisor` with their runs; then the proofs for all
of them, the refinements of both abstract specifications by both classes of each protocol included.

What could be proved next: the safety halves of the liveness properties that have none yet, as
`LossSafety` and `H11LossHeard` are of `LatestHearsOfLoss`: that a responder which waits for its sender
has put END where the sender will find it (`ResponderReturns`), that every wait of `Server.shutdown` has
something left to wait for (`ShutdownEnds`), and that a reloader which compares with an older time
than its child has loaded will see the difference (`ChangeReloads`).
