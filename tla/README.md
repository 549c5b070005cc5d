# Verification of kube-console

TLA+ specifications of kube-console, model-checked with TLC. Of every modelled
component but the pod environment, the safety properties are also proved with
TLAPS, for every value of the constants.

kube-console is a Go backend that proxies Kubernetes API requests with the
user's own token and bridges terminals to `pods/exec`, and a Vue single-page
application that lists, watches, edits and charts resources, streams logs and
opens terminals. The backend keeps no user state; what it keeps are bounded
pools, timers and sockets. The application keeps its state in stores and
composables whose callbacks overlap across `await`s, and that is where most of
what can go wrong is: answers arrive in any order, after a switch of cluster, a
navigation, the end of a session or an unmount.

## The system

| Component | State | Operations | Hard behaviour |
| --- | --- | --- | --- |
| Exec admission (`internal/exec/handler.go`, `limits.go`) | the `pending` and `sessions` channels, `ipGate.held` | `ServeHTTP`, promotion to a session slot, `releaseHandshake` | concurrent connections at each channel operation; releases that run once from one of two places |
| Exec session (`internal/exec/session.go`) | `ending`, `writeMu`, `sessionCtx`, the idle timer, the socket | `session`, `readLoop`, `pingLoop`, `idleFired`, `reportAndEnd`, `awaitStream` | six goroutines, three timers, a browser that stalls or leaves at any moment |
| Exec stdin (`internal/exec/streams.go`) | `stdinQueue.frames/staged/closed`, the pipe | `push`, `close`, `next`, `stdinPump` | a byte-bounded queue, a condition variable, a command that does not read |
| Resource list (`useResourceList.ts`, `useWatch.ts`, `walkTable`) | rows, resourceVersion, continue token, `loadGen`; the watch's controller and generation | `load`, `refresh`, `nextPage`, `searchAllByName`, `start`, `stop`, retry loop | responses and events out of order, cluster switches, unmounting during an await |
| List page view and URL (`ResourceListPage.vue`, `listQuery.ts`, `stores/ui.ts`) | filter, selector, namespace, the address, the tab's history | typing, `applySelector`, the debounced write, the route guards, Back and Forward | writes that meet navigations, a view adopted from its own URL |
| Log stream (`useLogsStream.ts`, `useLogSearch.ts`, the Logs tabs) | lines, staging, generation, backoff; hits and the selected hit; the pod picked | `start`, `stop`, `append`, `flush`, reconnect, search, pick | superseded reads, reconnect windows, trimming under an incremental search |
| Polling loop (`usePollingLoop.ts`) | generation, timer, in-flight counts | `start`, `stop`, gate, timer, catch-up | doubled chains, never-settling polls |
| Summary, charts and cards (`useClusterSummary.ts`, `useMetricsPolling.ts`, `metricsCache.ts`, the Overview's lists) | gauges, capability verdict, shared series buffers, rows | refresh, probe, tick, evict, scan | answers across a cluster switch, eviction of what is in use |
| Sessions and routing (`stores/auth.ts`, `api/http.ts`, `router`, `useContexts.ts`, `LoginPage.vue`) | sessions per cluster, active cluster, the stored copy, caches | login, switch, 401, unknown context, expiry, reload | late answers after a switch, lazy expiry, a navigation under way |
| Detail page (`ResourceDetailPage.vue`, `useResourceObject.ts`, `useOwnedPods.ts`, cards) | the object, the tab, the owned pods, rows of the cards | load, refresh, navigate, select a tab | overlapping GETs and walks, a failed refresh under a live shell |
| YAML editor (`YamlTab.vue`) | draft, baseline, decoded view | type, dry run, apply, cancel, reseed | an object that changes under a draft, typing during a request |
| Pod environment (`PodEnvTab.vue`, `podEnv.ts`, `useReveal.ts`) | the fetched ConfigMaps and Secrets, the revealed rows | collect, fetch, merge, reveal, reset | one instance for Pod after Pod, sources that cannot be read, a session that ends |
| Exec client (`useExecSession.ts`, `PodTerminalTab.vue`) | socket, status, generation, terminal | `start`, `stop`, handlers | a stop during the await, late frames |
| Actions and deletion (`ResourceActions.vue`, `ResourceActionDialog.vue`, `DeleteConfirmDialog.vue`) | the action chosen, the mounted dialog, its input, its request | open, edit, confirm, run | a dialog closed or unmounted, or a page left, with its request in flight |
| Server limits, write deadline, shutdown, readiness (`internal/server`) | in-flight pools, armed deadline, cached probe | middleware, `Run`, `isReady` | panics, stalled clients, shutdown during streams |
| Gateway, registry, verification (`internal/gateway`, `kube`, `auth`) | read-only registry | path policy, header sanitation, proxying | pure functions on the request |
| Metrics and discovery (`internal/metrics`, `internal/discovery`) | cached API version | fetch with fallback | cache entries dropped while in use |
| Configuration, HTTP helpers, rendering | flags | parsing, rendering | none that a state machine would show |

How they meet: the SPA's terminal opens `/api/ui/exec/ws`; `ServeHTTP` admits
the connection and calls `session`, which shares the socket between its
goroutines and feeds the client-go executor through the stdin queue. The
resource list calls the gateway through `apiFetch`, which stamps the active
cluster and ends that cluster's session on a 401; the watch keeps the listed
collection live. `AbortOnShutdown`, the in-flight pools and the write deadline
wrap every request.

In the application, `Sessions` is under everything: the active cluster and its
session decide what a request is stamped with, what a late 401 ends and which
page may be shown. The detail page owns the object that its cards, editor,
terminal and dialogs follow; their requests in turn refresh it.

`PROJECT.json` lists every component with its status, the hazards with the line
where each bites, and which definition models which lines.

## The modules

**`SlotPool`** is the abstract pool: a set of holders and a number of free
slots; a slot is taken while one is free and given back once, by its taker.

**`ExecAdmission`** has one variable per shared object (`pending`, `sessions`,
`held`) and, per connection, a program counter, its address, whether its
`sync.OnceFunc` has run and the answer it got. Each channel operation, each
locked section of the gate and each half of `releaseHandshake` is one action,
so that connections interleave at each of them. What happens inside a running
session is a single phase, ended by `SessionReturns`.

**`ExecSession`** is one session after its promotion. The goroutines are
variables that say where each stands (`main`, `reader`, `pinger`, `idle`,
`report`, `stdout`, and the executor's `stream`); they share `mu` (`writeMu`),
`ending`, `cancelled` (`sessionCtx`) and the socket (`open`, `client`). A write
is two steps, taking the lock and writing, and blocks while the browser reads
nothing. `sent` keeps only the frames that say how the session ended. Time is
left out: a timer may expire at any moment after it was started. Three things
follow the code's constants: `drainTimeout` is twice `idleFrameTimeout`
(`late`), a cancelled context closes the socket when a read or a write fails
under it, and `conn.Close` is bounded by the library. History variables
(`healthy`, `claimer`, `refused`, `late`) appear in no guard; `claimer` also
names the frame the report writes.

**`StdinQueue`** is the stdin path in detail. A frame is a number, `Length` its
size; the pump's `cond.Wait` and the signal after the unlock in `close` are
steps of their own. `MCExec` instantiates it and `ExecAdmission`, one at a time:
they share no state.

The modules below model JavaScript's run-to-completion: each action is the code
between two awaits, or one callback. A promise continuation runs in the task
that resolves it, and Vue flushes its watchers in a microtask: no timer or user
event falls between, but a response that is already due may. A request in
flight is a member of a set (`walks`, `gets`, `polls`, `requests`, ...) with the
generation and the address it was sent with; the network answers members in any
order.

**`ResourceList`**: `walks` are the `walkTable` calls waiting for a page, `loops`
the watch loops that have not returned. Rows and resource versions are reduced
to the (cluster, selection) they came from, which is what the properties tell
apart; a selection stands for the resource, the namespace and the applied label
selector. `SwitchContext` waits for the previous switch to be seen, and
`ContextWatch` is an action of its own. An unauthenticated request is always
refused.

**`ListView`** is the other half of the same page: the view (filter, selector
draft and applied, namespace), the address, the tab's history and the pending
navigation. A navigation between lists ends within its task; one away may wait
for the next page's code and is dropped when a newer one starts. The history
`overwritten` marks that a flush hit the entry Back had already reached.
`MCResourceList` runs the two halves side by side: they share no state a
property depends on.

**`LogsStream`** has the log itself (`log`: when each line was written), the
`start()` loops alive (`reads`), staging and visible arrays, and the search over
them. A line is its source, its number and its place in what the stream
received; a query is the set of numbers it matches. **`PodLogs`** adds the tab
that drives the stream, the picker of a workload's pods with its GETs, and the
rows of the viewer.

**`PollingLoop`** is the loop with the page state it follows; time is relative
(`timer` counts down, `sinceTick` up). **`ClusterSummary`**, **`MetricsCharts`**
and **`OverviewCards`** are its consumers: each conjoins what its `tick`, `gate`
and `onStop` do to the loop's own steps. A sample or a gauge is known by what it
was fetched for and by whether that session still stands. `MCPolling` runs one
consumer at a time, since they share only the page.

**`Sessions`** keeps the store (`active`, `sessions`, `cache`, `fetching`), its
sessionStorage copy, the requests in flight with the token and context they were
stamped with, the route and the navigation under way. A step is one browser
task. A token is the number of the login that produced it.

**`DetailPage`** is the object the route names and the tabs; **`DetailCards`**,
**`YamlTab`**, **`PodEnv`**, **`PodTerminal`** and **`ResourceDialogs`** are its
tenants: each conjoins its reaction to every step of the page. An object is its
target, uid, content and whether it is held (suspended, cordoned). `server` is
the cluster's own copy, changed by others (`edits`) and by the page's requests;
`unsaved` is the history of what the user typed and has not sent. `MCDetail` runs
one tenant at a time, over the routes it is interesting on.

In `ResourceDialogs` what `ResourceActions` remembers (`chosen`: the action, and
that its dialog is open) lives while any object is on screen, the dialog itself
(`dialog`) only while the object has actions; an open dialog can thus be
unmounted and mounted again. A request is `mine` while the dialog that sent it
is mounted. Its success is then reported and emitted (`Done`, `onDeleted`,
history `acked`); of an unmounted dialog's only the toast is left, since Vue
drops the emits of an unmounted component (`DoneUnmounted`); the history `told`
counts every toast.

In `PodEnv` variable names are sequences, so that a prefix and a key may spell
another entry's name; the query cache maps a set of references to what was read.
A revealed key carries the uid it was revealed on, which only the property looks
at.

Definitions named `Slip...` in these modules are deliberate mistakes, next to
the definition they are a wrong version of. No specification uses them; each
one breaks the property it is paired with in `PROJECT.json`.

## The runs

| Run | Instance | Shows |
| --- | --- | --- |
| `exec_bridge` | admission: 3 connections, 2 addresses, 1 session slot (2 pending), 2 handshakes per address; stdin: 6 frames of sizes 2, 0, 1, 3, 0, 2, overhead 1, cap 6; 65 680 states | safety of the pools and the gate, refinement of `SlotPool`, and that a handshake ends; the input is intact, the account exact, EOF last, the pump ends |
| `exec_session` | one session, no constants; 68 499 states | the verdicts, the slot and the goroutines of a session |
| `resource_list` | table: 2 clusters, 2 selections, walks of 2 pages, 3 loads; view: a namespaced and a cluster-scoped list, 2 history entries; 2.46 million states, symmetric | no foreign rows, one watch, truthful spinner, badge and address |
| `pod_logs` | 2 pods, logs of 3 lines, a buffer of 2, 2 starts, 2 GETs; 1.41 million states, symmetric | the buffer, the search and the pick |
| `polling` | 2 clusters, intervals off and 2 ticks, 5 generations, 2 polls in flight; 2 objects, 4 buffers; 210 304 states | one chain, its cadence and its liveness; nothing foreign on the Overview or a chart |
| `sessions` | 2 clusters, 2 logins, a request in flight beside the login's own, TTL 1; 1.03 million states, symmetric | sessions, caches and routes agree |
| `detail` | six scopes of 2 routes, 2 or 3 loads, 1 or 2 foreign edits, 4 lists of containers; 1.08 million states | the page and each tenant |
| `exec_session_idle` | as `exec_session`, with pings and the idle deadline | violated, see below |
| `resource_list_unmount` | 2 clusters, 1 selection, 2 loads | violated, see below |
| `pod_logs_seam` | 1 pod, 2 lines, a clock of half seconds, the real ratio of the backoffs | violated, see below |
| `detail_edits` | as `detail` | violated, see below |
| `dialog_report` | as `detail` | violated, see below |

Why the bounds are enough. Three connections and two pending slots let each
pool be full while somebody is refused and somebody else is between two halves
of a release; two addresses tell the gate's keys apart. `ExecSession` is not
bounded at all: its state is finite. The stdin sizes include an empty frame, an
exact fit and a refusal after the queue has been drained and refilled. Three
loads let a load be superseded while the walk of its predecessor and a watch of
the one before are still in flight; two pages make the cap (`MAX_LIST_PAGES`)
and the re-stamped second request happen. A buffer of two lines under logs of
three makes both arrays trim with hits before, in and after what is dropped.
Two polls in flight and five generations let a stop, a restart and a catch-up
overlap. Two logins make a late answer meet a newer session; three loads of the
detail page let an answer arrive two generations late. Every bound appears in a
guard and stops only the operation it counts. `CONSTRAINT NotOverwritten` cuts
the view's behaviours where a flush has overwritten a foreign history entry
(see the known limits below).

### Properties

Admission: `SlotAccounting` (tokens = holders), `GateAccounting` (the gate
counts the unfinished handshakes of an address and forgets an address with
none), `RefusedOnlyWhenFull` (429, 503 and the session limit only when others
really hold every slot of that pool), `PoolsImplemented` (refinement of
`SlotPool`, twice), `HandshakeEnds` (nobody stays in the pending pool).

Session: `AtMostOneVerdict`, `ReasonBeforeCancel`, `OutcomeReported`,
`SlotCoversStream`, and two liveness properties: `TeardownCompletes` (refused
input ends the session, a claim cancels it, no goroutine is left) and
`ClientReclaimed` (the slot of a browser that left or reads nothing comes back).

Stdin: `StdinIntact`, `StagedExact`, `EOFAfterInput`, `PumpEnds`.

Resource list: `RowsBelong`, `OneLiveWatch` (and it streams what is on screen
from its own version), `BadgeTruthful` (badge and spinner). Its view:
`UrlTruthful` (with no write due the address names the list, filter and
selector shown) and `OwnWritesHarmless` (a write nobody asked for cancels no
navigation, rolls back no typing, adds no history).

Logs: `TailIntact` (the buffer is the contiguous tail of the right stream),
`HitsShown` (the incremental search agrees with a full scan, and a jump shows
the hit), `SelectionSticks`, `RunningTruthful`, `PickIsShown`.

Polling: `OneChain`, `Cadence`, `KeepsPolling`, `OverviewTruthful`,
`SeriesBelong`, `AxesTogether`.

Sessions: `CachesDieWithSession`, `DetailOfActive`, `OwnCauseOnly` (reloads
included).

Detail: `PageBelongs`, `CleanIsCurrent`, `EnvTruthful` (the merged rows are each
container's effective environment, computed another way, and a decoded value was
revealed on this very Pod), `TerminalTruthful`, `OwnWritesShown` (a change that
a dialog still mounted reported done is on screen once the loads settle),
`ShellSurvives`.

Each has a mutant: a `Slip...` definition that the property refutes.

### Fairness

The Go scheduler runs a goroutine that can run, and a timer that was started
expires: weak fairness of each goroutine's steps. `sync.Mutex` hands the lock to
a starved waiter after a millisecond, so waiting for `writeMu` is strongly fair
for the main goroutine and the report's writer. In `ExecAdmission` waiting for
the auth frame is bounded by `authTimeout`, so `ReadAuth` is fair; the end of a
session is not. Nothing is assumed of the browser, of the command (it need not
end, write or read) or of the user. The stalled half of `ClientReclaimed` and
`IdleEndsSession` alone assume that pings go on, and the latter that an armed
idle timer fires. In `MCPolling` clocks advance, timers fire and a browser
request settles one way or the other; nothing is assumed of the user, the tab or
the order of answers. In `StdinQueue` a session that was torn down has closed its
socket, so its read fails.

### Disagreements with the code's own comments

* `exec_session_idle`. "Idle timeout: no traffic in either direction ends the
  session." (`session.go:159`). The command ends and `session()` claims the
  teardown; the browser has stopped reading but a stdin frame of its is
  refused; `overflow` loses the claim and `readLoop` returns, which stops
  `pingLoop`. `session()` now blocks in its final `writeControl` under the
  request's context; the idle callback loses the claim. Nothing closes the
  socket and the session slot stays taken.
* `resource_list_unmount`. "The watch is always closed on component unmount /
  route change." (`useWatch.ts:2`). `refresh()` resumes after unmounting, finds
  `loadGen` unchanged and starts a watch whose `onBeforeUnmount` has already
  run.
* `pod_logs_seam`. "a duplicated line at the seam is recoverable where a missing
  one is not" (`useLogsStream.ts:209`). The window is measured when the
  connection fails and sent after the backoff; with a delay longer than the
  second of padding, a line written right after the last one received lies
  before it.
* `detail_edits`. "This object changed on the server; your edits are kept."
  (`YamlTab.vue:201`). `run()` declares the draft clean when the answer arrives,
  including what was typed after the request was sent; the refresh then reseeds
  the editor.
* `dialog_report`. "it confirms, performs the targeted PATCH/POST itself and
  reports the outcome" (`ResourceActionDialog.vue:2`), and a success is expected
  to emit `changed` once (`ResourceActions.spec.ts:108`). The page is left, or the
  dialog unmounted by an object without actions, while the request is in flight;
  the user comes back and the GET is served before the PATCH. `run()` then pushes
  its success toast, its emits are dropped, and the page stays at rest on the
  object from before the change.

### Known limits the properties leave room for

* `session()` may lose the teardown claim and close the socket before the
  claimant's frame is out (`session.go:230`); `ReasonBeforeCancel` excepts it.
* After a re-login a late 401 of the old token still ends the new session of the
  same cluster; `OwnCauseOnly` counts it as that cluster's own cause.
* `leaving` stays set when a pending leave is cancelled by a click on the very
  location shown or its code fails to load; the address then stops following
  the view, and `UrlTruthful` excepts it. On Back, `flushUrlWrite` writes over
  the entry just reached (`overwritten`). A bare sidebar link with a namespace
  selected and no filter leaves the namespace out of the address.
* A variable from a readable import is shown although a later import that cannot
  be read might override it: `EnvTruthful` compares with what could be read, and
  asks for the placeholder of the import. `optional` is not distinguished, in
  `podEnv.ts:47` or here: a missing optional key is shown as one that cannot be
  read, where the kubelet leaves the variable out.
* A dialog's confirmation is by name: Back to a namesake in another namespace
  keeps it valid. A finished action closes a dialog reopened since, and
  `onDeleted` goes to the list even if the user has moved on.
* An open action dialog can come back unseeded. Back to an object without
  actions unmounts it, but `ResourceActions` keeps `dialogOpen`
  (`ResourceActions.vue:21`); Forward mounts it again, open, and its `watch(open)`
  is not immediate (`ResourceActionDialog.vue:44`): the replica count is 0, not
  the current one, and the job name empty. Zero is a valid count, so Run would
  scale the workload to nothing. The model has these behaviours
  (`dialog.input = "unseeded"`); no property forbids them.
* A dialog that stays mounted while the page moves on to another object with
  actions keeps its action and its input and addresses the new object; over an
  object of another kind the request is refused or its fields are dropped
  (`perform`, `Takes`). The toast reads the name after the await
  (`ResourceActionDialog.vue:70`, `DeleteConfirmDialog.vue:39`) and then names the
  object on screen; the histories count it for the object that was changed.
* A frame over the exec socket's read limit (`session.go:174`) is no case of its
  own: the library closes the connection and the read fails, which is
  `ClientLeaves`.

## The proofs

A run shows a property on one small instance; a theorem shows it for every
value of the constants. Each row below is a module that extends the components
it is about. The shape is the same everywhere: an inductive invariant, checked by
TLC on the run's instance first, then one step per action, then the properties
read off the invariant. The bounds (`MaxLoads`, `MaxArrived`, ...) are constants
like any other, so a theorem holds for every bound.

| Module | Theorems, with the property each states | From |
| --- | --- | --- |
| `ExecAdmissionProofs` | `TypeCorrect`; `SlotsAccounted` (`SlotAccounting`); `GateAccounted` (`GateAccounting`); `RefusalsJustified` (`RefusedOnlyWhenFull`); `ReleasesNeverBlock`; `ChannelsArePools` (`PoolsImplemented`) | `AdmissionAssumption` |
| `ExecSessionProofs` | `SessionTypeCorrect`; `OneVerdict` (`AtMostOneVerdict`); `ReasonPrecedesCancel` (`ReasonBeforeCancel`); `OutcomeIsReported` (`OutcomeReported`); `SlotOutlivesStream` (`SlotCoversStream`) | nothing (no constants) |
| `StdinQueueProofs` | `StdinTypeCorrect`; `InputIntact` (`StdinIntact`); `AccountExact` (`StagedExact`); `InputBeforeEOF` (`EOFAfterInput`) | `StdinAssumption` |
| `ResourceListProofs` | `ListTypeCorrect`; `RowsAlwaysBelong` (`RowsBelong`); `WatchIsSingle` (`OneLiveWatch`); `BadgeIsTruthful` (`BadgeTruthful`); `UrlIsTruthful` (`UrlTruthful`); `OwnWritesAreHarmless` (`OwnWritesHarmless`) | `ListAssumption`, `ViewAssumption` |
| `SessionsProofs` | `TabTypeCorrect`; `CachesDie` (`CachesDieWithSession`); `DetailIsOfActive` (`DetailOfActive`); `CausesAreOwn` (`OwnCauseOnly`) | the assumptions of `Sessions` |
| `PodLogsProofs` | `LogsTypeCorrect`; `TailAlwaysIntact` (`TailIntact`); `HitsAlwaysShown` (`HitsShown`); `SelectionAlwaysSticks` (`SelectionSticks`); `RunningIsTruthful` (`RunningTruthful`); `PickAlwaysShown` (`PickIsShown`) | `LogsAssumption`, `TabAssumption` |
| `PollingProofs` | `LoopTypeCorrect`; `ChainIsOne` (`OneChain`); `CadenceKept` (`Cadence`); `OverviewIsTruthful` (`OverviewTruthful`); `SeriesAlwaysBelong` (`SeriesBelong`) | the assumptions of `PollingLoop` and its consumers |
| `DetailProofs` | `CardsBelong` (`PageBelongs`); `CleanEditorIsCurrent` (`CleanIsCurrent`); `TerminalIsTruthful` (`TerminalTruthful`); `ShellAlwaysSurvives` (`ShellSurvives`); `OwnWritesAreShown` (`OwnWritesShown`) | `DetailAssumption`, `CardsAssumption`, `SessionAssumption` |

**Admission.** Any finite set of connections, any addresses, any positive
`MaxExecSessions`, any `MaxExecHandshakesPerIP` (zero included: the gate off).
The invariant is `AccountInv == TypeOK /\ OnceInv /\ SlotAccounting`, and
`GateInv` adds `GateAccounting`. `SlotAccounting` is not inductive alone:
whether a connection in phase `unwind` still holds its pending slot depends on
whether its `OnceFunc` has run, and nothing in the counts says so. `OnceInv`
ties that flag to the phase: not run before the promotion, run after it. Every
action moves one connection (`OnlyMoves`), so each set of holders changes at that
connection at most (`PendingMove`, `SessionMove`, `GateMove`) and its cardinality
by at most one; with the channel's own arithmetic this gives the step. The
refinement follows from the same lemmas: a set of holders that gains a member is
a `Take`, one that loses a member is a `Give`. That a refusal is justified is an
action property: a pool refuses at its capacity, the account says who holds it,
and the refused connection is not among them.

**Session.** `SessionInv` adds what the code relies on without saying it: who
holds `writeMu` (`MutexInv`), how far each claimant of `ending` has come
(`ClaimInv`), that a verdict is out only after its writer has finished
(`SentInv`), that the stream runs inside `awaitStream` only (`StreamInv`), and
two conjuncts about a browser that has read all along: nothing but the claimed
teardown closes its socket or cancels its context (`UndisturbedInv`, `ReasonInv`).

**Stdin.** `OrderInv` numbers the frames through the three places they pass: a
prefix is delivered, then at most one is in the pump's hands, then the rest of
what was accepted is staged. `ChargeInv` says the account is the total charge of
the staged frames. The total is a recursive function, and what it yields when a
frame is added at the end or taken at the front is proved by induction.

**Resource list.** `ListInv` is the generation argument: the newest walk, if in
flight, is unique, is what `loading` says and carries the wanted selection
(`WalkInv`); at most one watch loop is current and an open aborted one is not
(`LoopInv`); and while the page is settled the rows, the newest walk and the
current loop are all of the active cluster (`BelongInv`). What is said of the
cluster is conditional on being settled because a switch becomes visible to the
list only in its `ContextWatch`. The theorems are about `ResourceList`'s own
`Spec` and `ListView`'s own `ViewSpec`; the run puts the two side by side.

**The view and its URL.** `ViewInv` says what a query in the history, in the
route or remembered for a list can be: one the page itself writes for that list
(`Written`). Such a query reads back to the view it was written for
(`WrittenQuery`, `AdoptedAgrees`), which is what makes a view adopted from its
own address harmless. `AddressOK` is the property in inductive form: on a page
that is not leaving, the entry in the address bar is the route, and the route
agrees with the view unless the debounce is running. `HistoryOK` keeps the entry
an unfinished Back or Forward came from. Unlike the run, the theorems are under
no constraint: behaviours go on after a flush has overwritten an entry, where
`UrlTruthful` promises nothing and `OwnWritesHarmless` still holds.

**Sessions.** Every operation of the store either gives up sessions (`Shrinks`)
or adds one; what each kind preserves is shown once. `TabInv` is the types, that
`sessionStorage` mirrors the store (`Synced`), that whatever a token fetched or
is fetching stands under a live session (`Covered`: the property says it of
caches, the requests in flight are what makes it inductive), and
`DetailOfActive`. `NoneAssumption` only says that `None` is not a navigation.

**Logs.** `LogsInv` has five parts. `RunInv`: one loop at most is of the current
generation, and the flags speak of it. `BufferInv`: staged lines are the end of
what was received and the visible ones an unbroken run they continue, unless the
staged lines alone fill the screen - that exception is why `TailIntact` is not
inductive: trimming the staging array may open a gap behind the visible lines,
which the next flush always closes. `SearchInv`: the hits are the ascending
enumeration of the matching lines, and the bookkeeping of the last rescan
describes the buffer on screen. `PickInv`: the newest GET, if pending, is for the
pod picked. `StreamOK`: the types. The tab is reduced first (`EveryMove`): to the
stream, each of its steps is a step of its own, a restart, a stop or nothing.
`RescanAscending` is the heart of the search: the surviving hits moved up,
followed by the hits among the new lines, ascend and enumerate the new buffer's;
and an ascending enumeration is unique (`AscendingUnique`), so they are what a
full scan returns. `LogsAssumption` asks for the first backoff to be no longer
than the longest (1 s and 15 s in `useLogsStream.ts:23`).

**Polling.** The argument is by generations, over the `Spec` of `MCPolling`.
Whatever is armed or in flight carries the generation it was made in, and
`LoopInv` says what may carry the present one: when the loop is live, its timer
or exactly one poll; when it is not, no poll and perhaps a probe, which asked the
active cluster. `ChainOK` also holds the cadence: the time since the last poll
and what is left on the timer add up to the shortest interval at least, so the
timer cannot fire too early; the one other way to poll, `TabShown`, waits for the
same distance. The cards' invariants (`GaugesInv`, `ProblemsInv`, `EventsInv`,
`ChartsInv`) add what that present request was sent for, because every change of
what is on screen starts a new generation. `GaugesInv` needs in addition that a
poll that left the nodes out did so on cached nodes of the same cluster. For the
charts, every operation of the cache keeps every buffer to samples of its own
scope and of a live session (`Buffers`), whatever it evicts; a tab whose session
ended holds buffers that have left the cache (`orphan`), and the polls it still
has in flight are excepted exactly then.

**Detail page.** The tenants are proved apart, each from its own specification
(`CardsSpec`, `YamlSpec`, `ExecSpec`, `DialogSpec`): the page and that tenant,
with no limit on routes; the parts of the `detail` run are those specifications
cut to a scope. All rest on one invariant, `PageInv`: there is one GET of the
present generation at most, it is there exactly while the page loads, it is for
the route's target, and an object at rest is the target's. `PageMoves` is what a
step of the page may do to what the tenants watch. On top of it:
the owned pods and the events card have generations of their own (`OwnedOK`,
`CardOK`), and what they keep over a failed load is of the same uid;
the terminal's start or socket of the present generation is unique and for the
pod on screen, and every other socket is closing (`StartsOK`, `SocketsOK`);
a change that a mounted dialog reported done is in the server's object, in the answer of the
present GET if it has one, and on screen if the page is at rest (`AckOK`: an
answer older than the report is of an older generation, since `Done` loads
again; for the toast of an unmounted dialog, which begins no load, the same is
false, as `dialog_report` shows);
and the editor's baseline is the object on screen whenever the page is at rest
(`EditorOK`), where `AppliesOK` keeps the answer of an earlier editor's request
from declaring this one's edits sent.

Assumptions the proofs added, all about model values: `None` is not a cluster, a
slot of a poll, a timer, a target or a number; there is a cluster, and there is
an interval to choose.

Induction over data. The library's induction theorems take a predicate, which
the provers cannot instantiate; stated of a set (a set that holds 0 and, with n,
n + 1 holds every natural) induction follows from the well-foundedness of `<` and
is usable. That carries the account of `StdinQueue` and the scan of `LogsStream`,
whose recursive definitions are functions. `SelectSeq`, `FoldLeft` and the like
stay opaque, so what is built on them is left to TLC.

Only model-checked:

* every liveness property (`HandshakeEnds`, `TeardownCompletes`,
  `ClientReclaimed`, `PumpEnds`, `KeepsPolling`): liveness under fairness and
  `ENABLED` are outside what the prover supports;
* `AxesTogether`: it is about which keys `SelectSeq` leaves in the cache's order,
  and in which order. It also needs an even `MaxScopes` (`MAX_SCOPES` is 64):
  the trim takes one key at a time;
* `EnvTruthful`: `PodEnv` folds over the containers' declarations, and that the
  fold is the effective environment is an induction over them;
* what the five violation runs refute.

## Not modelled

The contents of frames, rows, log lines and YAML; the building of URLs and client
configurations; logging (`quiet` included); the resize queue; the order of the
rows and the key index of `upsertRows`; the name search a list page runs after a
load; a query paused while the browser is offline; rendering (table cells, charts, formatting, theme). Of the backend: the
in-flight limits and the readiness cache (small locked sections), the write
deadline and shutdown (they rest on `net/http`'s own semantics), and the gateway,
discovery and metrics adapters, which are functions of one request. The reasons
are with each component in `PROJECT.json`.

## Plan

1. The row index of `useResourceList`, kept across upserts, against a set of keys.
2. Backend server: the two in-flight pools as instances of `SlotPool`, whose
   lemmas are in `ExecAdmissionProofs`; the readiness cache.
3. Proofs: `AxesTogether` with the cache's order as a set of pairs and their
   ages, once it is shown that the order's pairs stay adjacent.
