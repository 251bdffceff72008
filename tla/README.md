# A TLA+ model of cliq-openclaw-bridge

The bridge receives Zoho Cliq messages as webhooks, queues them in memory, runs
each through the OpenClaw gateway and posts the agent's answer back to Zoho.
This directory holds TLA+ modules for the parts with state or control of their
own, TLC runs over small instances of them, and TLAPS proofs for instances of
any size.

Source paths below are relative to the repository. `PROJECT.json` gives, for
every definition, the lines it stands for, and lists runs, hazards and findings.

## 1. Inventory

| Part | Source | State | Operations | Uses / used by |
|---|---|---|---|---|
| main | `cmd/server/main.go` | where start or shutdown is | start, serve, signal, server error, graceful shutdown | wires all parts; calls `srv.Shutdown`, then `pool.Shutdown` |
| HMAC middleware | `internal/middleware/hmac.go` | none | check token, read body | before the webhook handler |
| webhook handler | `internal/handler/webhook.go` | none | `HandleZoho`, `sanitizeJSON` | calls `Pool.Dispatch`, answers 200/429/500 |
| worker pool | `internal/worker/pool.go` | channels `jobs`, `closed`; worker goroutines | `Dispatch`, `Shutdown`, worker loop with recover | runs `Dispatcher.Dispatch` under a deadline |
| dispatcher | `internal/handler/dispatcher.go` | per channel: a lock and the last response ID | `Dispatch` = `forward`, `handleFile`, `forwardRaw`; streamer goroutine; delivery | gateway, token refresher, sender, session reader |
| gateway client | `internal/gateway/client.go` | none (files in the workspace) | `Respond` (SSE), `DownloadAndRespond`, `Forward` with retry (tests only) | OpenClaw over HTTP |
| token refresher | `internal/zoho/token.go` | a mutex | `ValidToken`, `ExchangeCode` | token store; called by workers and the OAuth callback |
| token store | `internal/store/token.go` | one BoltDB record per key | `Save`, `Load`, `Delete` (tests only) | survives restarts |
| OAuth handler | `internal/handler/oauth.go` | none | `HandleCallback` | calls `ExchangeCode` |
| sender | `internal/zoho/sender.go` | none | `PostToChannel`, `SendFile` | Zoho over HTTP |
| session reader | `internal/session/reader.go` | per tail: IDs seen | find session file, tail tool calls, tail messages (no caller) | files OpenClaw writes |
| notify handler | `internal/handler/notify.go` | none | `Handle` | sender |
| config | `internal/config/config.go` | read once | `Load`; `Validate` has no caller | main |

The hard behaviours: `Dispatch` against `Shutdown` in the pool; jobs of one
Zoho channel contending for its lock while each takes minutes, expires, fails or
panics; a response ID that is read long before it is replaced; a gateway that
answers requests nobody waits for any more; a second goroutine per job; token
refresh by several workers against the OAuth callback and against crashes; one
deadline for two phases of shutdown, and a store that closes behind them; a tail
that reads a growing file again and again while its reader may stop; uploads that
share a directory. All of them are in `PROJECT.json` under
`hazards`, each at its line.

What makes each part correct:

* pool - an accepted job is handled once and in order of acceptance up to its
  worker, a refused one never, also through a shutdown;
* HTTP side and main - the answer Zoho gets is true, a shutdown in time loses
  nothing, and it always ends;
* dispatcher - a Zoho channel is one conversation: one job at a time, each
  stored response continues the one before, answers are not mixed; nothing stays
  locked, every job returns;
* tokens - one refresh at a time and only when needed, a token in use is a
  stored one, the newest consent wins (it does not always, see section 5);
* session reader and streamer - each tool call in the file found is announced once, in
  order, not long after the reply, and nothing runs on when the request is over; the
  file should be the channel's own (it is not always, see section 5);
* gateway client - what it returns is what the stream said, an attachment is
  whole before the agent is told of it unless something named spoiled it, retries
  are bounded, every call returns;
* the handlers' parsing - the repaired JSON says what Zoho meant, and every word of a
  notification that was answered with 200 was posted or handed to `SendFile`.

## 2. Modules

| Module | Models |
|---|---|
| `WorkerPool` | `internal/worker/pool.go` |
| `JobQueue` | abstract: what `WorkerPool` promises its callers |
| `Dispatcher` | `internal/handler/dispatcher.go` with the gateway, sender and streamer as it meets them |
| `Conversation` | abstract: what `Dispatcher` promises of each channel |
| `TokenRefresher` | `internal/zoho/token.go` over `internal/store/token.go`, and the OAuth callback |
| `Server` | `cmd/server/main.go`, `HandleZoho` and the HMAC middleware around an INSTANCE of `WorkerPool` |
| `Delivery` | abstract: what `Server` promises Zoho |
| `SessionStream` | `streamToolCalls` of the dispatcher with `internal/session/reader.go` |
| `Gateway` | `internal/gateway/client.go` |
| `Handlers` | `sanitizeJSON` of `internal/handler/webhook.go`; `internal/handler/notify.go` with `parseReply` and `internal/zoho/sender.go` |
| `MC...` | instances for TLC |
| `...Proofs` | theorems, one module per component |

Each component module has a section "Faulty variants". No specification uses
them: each is a plausible slip of the code, and `PROJECT.json` (`mutants`) pairs
it with the property that tells it from the real step.

### WorkerPool

A step is one channel operation. `Dispatch` is two selects in the code and two
steps here (`DispatchCheck`, then `DispatchSend`, `DispatchFull` or
`DispatchPanic`), the body of `closeOnce.Do` is `CloseClosed` and `CloseJobs`,
a `Shutdown` that finds it done is `JoinShutdown`, its select `Drained` and
`ShutdownTimeout`; both may be ready and either taken. `Receive`, `Return` and
`Exit` are the worker loop. How a handler ends - nil, error, panic - is a free
choice. `accepted` and `started` are history. `queue` is the channel's buffer;
the direct hand-over of a Go channel to a waiting receiver is a send
followed by a receive.

### JobQueue

The abstract machine: a bounded queue that takes a job or refuses it for good,
serves first come first served, at most `Limit` jobs at a time, and says it is
drained only when nothing it took is left. `Close` has two steps, since between
`close(closed)` and `close(jobs)` a job may still slip in or be refused.
`WorkerPool` refines it with `waiting <- queue` and `status`, `gate` and
`drained` from `caller`, `worker`, `result` and the two channels
(`ServesAsQueue`); the panic of `Dispatch` is a refusal there.

### Dispatcher

One run of `Dispatch` per job; `pc` says where it is:

    idle -> [queued ->] locked -> [token -> download ->] responding -> delivering -> ok
                                                                    (error, panic on the way)

`Leave` is the return with the deferred `release()`; `GiveUp` returns before it
was registered. A response ID is named by the job whose request it answers, so
`thread[c]` is a job, `prev[j]` the ID `j` sends and `linked[j]` says that the
ID of `j` was stored. `TakeReply` chooses one of `Replies`: whether an
event carried an ID, and what there is to post (tool summary, text, file, in
this order). A post either reaches Zoho or is lost and logged, and is lost once
the context is over. Posts go to the sender's chat with the bot; the model
groups them by the job's channel, because the channel's lock is what orders
them. `config` holds which optional settings are present and which jobs
there are (one of `Loads`); without the reply webhook the sender is a nil pointer in a
non-nil interface, so the guards
`d.sender != nil` do not appear and posting panics (`PostPanics`,
`StreamPanics`). The gateway is external: `GatewayDone` may come at any time
after the request, also when the job has long returned. The streamer goroutine
is `off`, `searching` for a session file or `tailing` it; which notices it posts
is the subject of `SessionStream`, what happens inside a call of the gateway
that of `Gateway`.

### Conversation

The abstract machine: `Ask` sends the agent a request that continues the
channel's last turn, if no other request of the channel is under way; `Link`
appends the answer to the thread, which must still end where the request found
it; `Say` posts, `Close` ends a job. `Say` is allowed only if no other job of the
channel has posted since the job began to, and no turn was added after its own.
`Dispatcher` refines it with `tip <- thread`, `transcript <- posted`, and
`parent`, `phase` from `linked`, `prev` and `pc`.

### TokenRefresher

Every caller makes one call. `Peek` is the optimistic read, `Lock` the mutex,
the three `Recheck...` actions the second look (`LoadFails` is either read ending in
an error of the store), then Zoho's answer
(`ZohoIssues`) or `RefreshFails`, and `Save` or `SaveFails`. `ExchangeCode` has
no `Lock`, as in the code; `Exchange` is `HandleCallback`, which refuses a callback
without a code. A store transaction is one step. `Crash` ends all
calls under way and keeps the store. An access token is the number of its issue,
a refresh token the consent it came from. Zoho's answer to a refresh carries no
refresh token; `Save` keeps the one that was sent.

### Server

`Pool` is `WorkerPool` with one caller of `Shutdown`, `Main`. `http[j]` follows
a delivery from connection to answer; `handling` is the time in `HandleZoho`
around `Dispatch`. A body that does not decode is dispatched all the same. A
panic of `Dispatch` is turned into a 500 by chi's `Recoverer`. `srv` follows
main: `serving`, `stopping` (in `srv.Shutdown`), `draining` (in
`pool.Shutdown`), `returning`, `storeClosed` (after the deferred
`tokenStore.Close`), `exited`, or `aborted` by `os.Exit(1)`. Handlers and workers
that outlived the deadline run on until `exited`. `late` is the end of
`shutdownCtx`. The deliveries use a connection each; `DropConnection` is what
`srv.Shutdown` does to connections on which no request has begun.

### Delivery

The abstract machine, from Zoho's side: an answer is final; a delivery may be
handled before its acknowledgement, but one that is refused was not taken and
never will be; `End` says what the way the process ended tells about the messages
it took. `Server` refines it with `answer` from `http`, `fate` from what
the pool does with the job, and `life` from `srv`, `late` and main's `Shutdown`:
"clean" is an exit within the deadline, "drained" one behind it with
`pool.Shutdown` returning nil.

### SessionStream

Per job a worker (`pc`, up to the posted reply), the goroutine of
`streamToolCalls` (`streamer`) and that of `TailToolCalls` (`tail`). `log[f]` is
a session file: entries with a time stamp, the job for which OpenClaw wrote each,
and a tool call's ID, `TEXT` or `LONG` (a line the scanner gives up at). `TEXT` is
any write that shows no call, the creation of an empty file among them. An
entry's position in its file names the tool call. `Scan` is one run of
`scanToolCalls`: `Found` are the calls it returns, and they go on the bounded
channel one by one (`Send`). `sent` and `taken` are the channel with its
history: what is in it is `sent` behind the first `taken`. `Take` is the receive, which
Go's select may still choose after the cancellation; the post then fails before
it sends anything. `Posted` is the return of a post that began in time, and it
may come after the reply, which `late` counts. `FindFile` is a tick of the
search that succeeds; the empty session key leaves it only the newest
file, of any channel. `CallsAreTold` spans search, scans and channel: a call that
shows in a file is received by the streamer unless the request ends or the search
settles on another file. `Return` covers a `Respond` that returned and a job whose
deadline passed. The lock of the channel (module `Dispatcher`) enters as the
second conjunct of `Start`.

### Gateway

A call is a message (`Respond`), an attachment (`DownloadAndRespond`) or a hook
(`Forward`, which nothing but `client_test.go` calls); `pc` says where it is.
`Read` is one data line of the stream: the values `Respond` collects are named by
the place of the event they came from, 0 being the empty string, so that the
property can compare them with the whole stream. The file system is a directory
(`dir`) and files (`data`), because a file that another call has removed is
still open, and one that another call has truncated is written on at the old
offset (`Written`, with `HOLE` for the zeros in between). `disturbed` and `lost` are history:
another call has touched the path since, and `f.Close` failed (`CloseFails`), which
the code does not look at; nor does it look whether `os.Remove` removed anything
(`Remove`). `Backoff` is `backoffDuration` with the
float-to-integer conversion at the edge of a `Duration` of `Width` bits; the result is
the most a wait can be, since the code multiplies it by a random factor
below 1.

### Handlers

Two requests without state between them. A webhook's body is `scanning`, one byte
per step with the flags of `sanitizeJSON`; `read` and `decoded` are what a
lenient reader makes of the body and what `encoding/json` makes of the output (`Feed`,
external), both fed along. Bytes are classes: the quote, the backslash, the three
control characters the code knows and any other (`ctrl`), the letters that may stand behind a
backslash, and `plain`. A notification is taken apart by `parseReply`: `text` and
`path` are the places in the note whose tokens went there. Then `Post` and
`Send` are the calls of the sender, each of which may fail with Zoho having taken
it or not, or panic on the nil sender.

## 3. Runs

| Run | Instance | Distinct states | Shows |
|---|---|---|---|
| `pool` | 3 jobs, 2 workers, depth 2, 2 Shutdown calls | 46 214 | refinement of `JobQueue`; exactly-once, drained means done; accepted jobs handled, Shutdown returns |
| `dispatcher` | two texts and a file in one channel, or a text and a raw payload; 2 shapes of reply | 187 132 | lock, thread, posts; refinement of `Conversation`; every job returns |
| `server` | 3 deliveries, 1 worker, depth 1 | 203 514 | refinement of `Delivery`; shutdown in order, nothing lost, store closed last, main ends |
| `token` | 3 users, 1 OAuth callback, first start or restart | 50 283 | the store moves on, no needless refresh, stored before use, every call returns |
| `session_stream` | 2 jobs in one channel or two, 2 files, a channel of one place, 3 entries, 2 clock ticks | 191 519 | calls told once and in order, none forgotten, one late notice, goroutines end |
| `gateway` | 3 attachments over 2 paths; 1 message with up to 5 events; 1 hook with 6 attempts, 5-bit durations | 74 573 | files whole or spoiled by a namesake, result as streamed, retries bounded, calls return |
| `handlers` | bodies up to 3 bytes of 10 classes and up to 5 of 6; notifications up to 6 tokens | 143 122 | JSON keeps its meaning and is repaired, nothing of a notification swallowed |
| `pool_closed_race`, `unset_webhook`, `follow_up`, `token_lost_update`, `other_channels_calls` | small | - | the disagreements of section 5 |

Why the bounds are enough to meet the interesting cases: with two workers and
depth 2, three jobs can be running, queued and refused, and two Shutdown calls
meet in `closeOnce`. In the dispatcher one job holds the channel while two
wait, so the lock changes hands twice and a thread can have a first, a middle
and a last turn - the fewest in which it could fork; the payload that did not
decode takes no lock, so it has a load of its own beside one message. Depth 1 and one worker
let three deliveries find the pool busy, full and closed. In the token run, one
user refreshes, one waits behind and one arrives later, while the token can
expire again. In `session_stream` the capacity of one (16 in the code) is full
after one call, so the next has to wait; three entries are enough for a call, another and a
repeated ID or a line that is too long, written before or after the file was
found, and two times for an entry before and one after the request. A second job
makes its session the rival file, or adds to the same one. `MaxEntries` and
`MaxTime` are bounds of the environment; all else is bounded by them. In
`gateway` two of three attachments share a path and differ in size, so that one
can truncate, extend or remove the other's file at every stage while the third
is left alone; five events hold two texts, two completions and a creation in any
order; with six attempts a wait of 1 doubles over the cap of 6 and, at the fifth,
out of the 5 bits. The three kinds of call share no state, so each has a load
of its own (`Loads`). In `handlers` five bytes hold a string with an escaped
character and what follows, six tokens two tags with words between them.

Numbers of access tokens need no bound of their own: every call issues at most
one. No symmetry reduction is used. Each process makes one call,
so all state spaces are finite without state constraints. Deadlock is checked
in every run: the modules have a `Terminated` step for the states in which
everything has returned or the process is gone.

## 4. Fairness

Weak fairness of a goroutine's next step stands for the Go scheduler. Beyond it:

* pool: handlers return. In the program they do, because the job's context has a
  deadline (`pool.go:161`) and all that `Dispatch` waits for ends with it; this
  is what `dispatcher` shows. Neither calls of `Dispatch` and `Shutdown` nor
  a shutdown deadline are assumed.
* dispatcher: a job's deadline passes (`Expire`), and a call under an expired
  context fails (`expired[j] /\ Fail(j)`). A waiter whose lock is free or
  whose context is over goes on: weak fairness of `AcquireChannel \/ GiveUp`
  is enough because an expired waiter can always give up. Neither gateway nor
  Zoho is assumed to answer.
* token: strong fairness of `Lock`, since `sync.Mutex` hands a contended mutex to
  waiters in turn after a millisecond (starvation mode); `RefreshFails` is weakly
  fair because the HTTP client has a timeout.
* server: main's steps and the shutdown deadline; the signal itself need not
  come, a connection need not be made.
* session_stream: the goroutines' steps, the tickers, and the return of a post
  (the sender's HTTP client has a timeout). OpenClaw need not write, and
  `Respond` need not return. A send is fair only while the tail has room: that
  both goroutines end although one may wait for the other is the property.
* gateway: a download and a hook request end by `HTTPTimeout`, an answer by
  `RespondTimeout`, a wait by its timer; no peer is assumed to send anything. The
  job's context need not end.
* handlers: none, the properties are invariants.

## 5. Where code and documents disagree

1. `pool_closed_race` - `pool.go:25` calls the pool safe for concurrent use;
   a `Dispatch` between its two selects panics when `Shutdown` closes the channel.
   `Server` shows how far main's order of shutdown protects from it
   (`PanicOnlyAfterDeadline`).
2. `unset_webhook` - `README.md:84`: replies are silently dropped if the webhook
   is unset. The typed nil of `main.go:73` makes the guards true: the job panics
   after the agent has answered, and with an agents directory the streamer's panic ends the
   process.
3. `follow_up` - `dispatcher.go:123-125`: a follow-up always lands in the same
   thread. A `Respond` that fails after the gateway took the request stores no
   ID.
4. `token_lost_update` - `token.go:44`: the refresher is safe for concurrent use.
   A refresh under way when the OAuth callback saves its new consent overwrites it.
5. `other_channels_calls` - `README.md:18`: conversations stay separate across
   channels; `reader.go:41-43`: looking for the session key in the file's name
   prevents tailing the wrong channel's file. The one call passes an empty key
   (`dispatcher.go:162`), so the streamer takes the newest file of any channel and,
   while another channel's agent is at work, announces that one's tool calls.

Smaller ones met while reading, without a run: `WORKER_JOB_TIMEOUT` defaults to
90s (`config.go:106`), `README.md:101` says 150s, and with 90s the 120s of
`OPENCLAW_REPLY_TIMEOUT` never take effect; `OPENCLAW_MAX_RETRIES`
(`README.md:96`) has no effect, since `Respond` does not retry and `Forward` has
no caller; the session key of `README.md:18` is not used by `Respond`; `sanitizeJSON` "replaces raw control characters"
(`webhook.go:98`) but only newline, return and tab, and none right behind a
backslash (`StringsSanitized`).

## 6. Proofs

All theorems hold for every value of the constants allowed by the one named
assumption of each module: at least one worker, finitely many, and one place in
the channel (`config.envInt` guarantees these), `Idle`, `Exited` and `NONE` not jobs or
users, and the types of the constant functions of the dispatcher, the stream and the
gateway. Jobs, workers, channels, callers, files, streams and bodies may be any,
of any size.

* `WorkerPoolProofs`. `TypeOK` and `AcceptedOrder` (theorem `Order`) are inductive as
  they stand; the second needs only that a receive moves the head of `queue` to the end of
  `started`. `ExactlyOnce` is inductive given `TypeOK`; it rests on two lemmas
  on what `Append` and `Tail` do to the range of a sequence without
  repetitions. `DrainedMeansDone` is not inductive: `Closing` adds that a worker
  exits only once the channel is closed and empty, and stays so, and that a
  drained `Shutdown` saw every worker gone. At least one worker is needed here:
  without one, a pool with queued jobs is "drained" at once.
  `ImplementsJobQueue` goes action by action, each under the invariants above: a
  channel operation is a step of `JobQueue` or leaves the mapped variables
  alone. That at most `Limit` jobs are served needs a counting argument: busy
  workers hold different jobs (`ExactlyOnce`), and the worker that receives was idle,
  so the jobs at work are fewer than the workers. Only here must the workers be
  finitely many.
* `DispatcherProofs`. `LockOwner` is inductive given `TypeOK` and comes first.
  `PrevIsCurrent` and `ThreadIsChain` hold each other up and are proved together,
  with two helpers: `Placed` (a linked job has its reply, and while it delivers
  its ID is the channel's) and `Tips` (the stored ID is that of a linked job of
  the channel, and there is one once a job is linked). The step that stores an
  ID needs that no other job of the channel is inside, from `LockOwner`, and that
  `prev` is the tip, from `PrevIsCurrent`. The refinement adds `Said`: posts come
  from jobs of the channel that have their reply, and the last one from the job
  that delivers, once it has posted. `Asking` ties a job's
  place to whether the gateway has its request, and with `LockOwner` no other job of the
  channel is under way when one asks, which is what `Ask` demands. Each action is then one of
  `Conversation`'s or leaves the mapped variables alone. `OneTurnPerSession` is the
  lock again, in the words of `SessionStream`: the second conjunct of its `Start` is
  not an assumption but a theorem of the dispatcher, for sessions that
  do not span channels.
* `TokenRefresherProofs`. `MutexOwner` (theorem `MutexCorrect`) from the program
  counters. `MovesOn` proves an action property. Its invariant follows a refresh from the
  re-check to the `Save`: unless the callback overtook it, the store still has
  the consent that was loaded (`Continues`), and since an access token Zoho issues is newer
  than any there is (`Issued`), the saved one is newer than the stored one. `NoNeedlessRefresh`
  needs that only the holder of the mutex or the OAuth callback writes the store;
  `PersistedBeforeUse` that the stored token is always one of `saved`.
* `ServerProofs`. `UsesPool`: every step of the process is one of its pool or leaves
  it alone, so the pool's theorems hold in it. `Answers` relates each answer to
  the end of its `Dispatch` call; with `ExactlyOnce` it gives `TruthfulReply`
  (theorem `AnswersAreTrue`).
  `Ordered` says that the pool is closed only after `srv.Shutdown` returned
  and that before the deadline it returns only with no request under way;
  with it a panic is possible only after the deadline, and with
  `DrainedMeansDone` nothing is lost. It also says that a drained pool has no
  worker left, which keeps the store open for its users (`StoreOutlives`).
  `PoolServesAsQueue` carries `ImplementsJobQueue` over. `KeepsPromise`, the refinement
  of `Delivery`, needs all of this at once (`Kept`), before and after the step. `Ledger`
  reads a delivery's fate off `caller` and `result` alone, where a step changes it at
  one place; under `ExactlyOnce` it is the same as the fate read off the queue and
  the workers (`FateIsLedger`), so a receive is a stutter.
* `SessionStreamProofs`. `ToldInOrder` is the longest argument. `InOrder` is inductive
  with two helpers: `Shape` (what a job without a file has not done yet) and
  `SeenIsTold` (the IDs in `seen` are those of the calls sent or held), on
  which `ScanKeeps` rests: a scan finds nothing that was told, and nothing
  before the last one told. That files only grow (`LogGrows`) makes what is
  visible stay so (`VisibleStable`); that the first of equal IDs exists needs
  the least element of a set of naturals (`LeastOf`), taken from the well-founded
  order on finite sets. `LateOnce` adds that a late notice means the streamer
  has nothing under way any more.
* `GatewayProofs`. The type invariant needs `RetryInv`, which bounds the attempts
  by where a call is, and `BackoffCapped`, which holds for every width of Duration.
  `ReplyMatches` follows what one more event
  adds to the places of its kind (`AtAppend`). `FileIsWhole` needs where a call
  stands with its file (`FileOf`), that a name in the directory leads to a file made
  under that name (`Named`), and, for the steps of the other calls, that a step on
  the same path sets `disturbed` and one on another path touches another file.
  `NamesakesSpoil` has no condition and names the culprit: `disturbed` is set only by a call of the same path that has
  opened its file by then (`CulpritInv`), so a file that is not whole lost its end in
  `f.Close` or shares its path with such a call.
* `HandlersProofs`. `FlagsInv` ties the two flags of `sanitizeJSON` to the state of
  both readers, which stay in step: one that reads the body and one that reads
  the output, byte for byte or escape for byte. From it come `MeaningIsKept`, where
  the string of meanings is carried along as a whole, and with `EscapeInv` (an
  escaped byte stands behind a backslash) `StringsAreSanitized`. `LegalIsUntouched` follows
  the output as long as the reader of the body has met nothing illegal (`SameSoFar`): up to
  there it is a copy, because a byte is replaced only where `FlagsInv` has the reader
  inside a string.
  `NothingIsSwallowed` has `OwedInv`: what a handler owes its note at each point.

Liveness (`AcceptedIsHandled`, `ShutdownReturns`, `EveryJobReturns`,
`ShutdownEnds`, `AcknowledgedIsHandled`, `EveryCallReturns`,
`GoroutinesEnd`, `CallsAreTold`, `CallsReturn`) is checked by TLC only: the provers
do not handle fairness and ENABLED. Every invariant, action property and refinement
that a passing run checks is also a theorem. `AcceptedOrder`, `MutexOwner` and
`TruthfulReply` are theorems without a run: the properties that replaced
them in the runs (`ServesAsQueue`, `StoreMovesOn`, `DeliversAsPromised`) say more.

## 7. Abstractions and what is not modelled

* Text: message formatting, JSON and multipart bodies, URLs, logging. Where a
  property is about a conversion (`sanitizeJSON`, `parseReply`, the stream of
  `Respond`) it works on classes of bytes, tokens or events. The prefix
  "~/workspace/" that `parseReply` resolves is not told apart from the rest of a path.
* Time: a deadline is a step that may happen whenever it is running; durations
  are not compared, so "the 90s deadline comes before the 120s one" is not used.
  `SessionStream` has a clock only to order time stamps; entries are stamped
  when they are written.
* Session files: `*.trajectory.jsonl` are left out, as the code leaves them out;
  files do not disappear. Zoho takes a notice, if it does, before the
  post returns: one that is cut off by the client's timeout and that Zoho works
  on all the same is not counted in `late`.
* Memory model: `sync.Map`, channels and `sync.Mutex` are taken at their Go
  semantics; the code has no unsynchronised access the model would have to
  leave open.
* Restarts: only the token store survives one. `Server` and `Dispatcher` end with
  the process.
* `Pool` in `Server` does not look into handlers: jobs are independent there,
  and the contention of `Dispatcher` enters only through "a handler returns". A
  joint model of pool and dispatcher would have every wait of a worker for a
  lock as well; the one thing it could add, how long other channels wait
  for a busy one, is a duration.
* Not modelled: `TailAssistantMessages` with `lastAssistantMessage` and `isTextMime`
  (no caller), the search for a session key in file names (never reached with the
  empty key), `TokenStore.Delete` (tests only); config, which is read once and
  whose results are constants and initial states here; the logger; the
  Docker files; the Deluge script and the OpenClaw hook, which run in other processes.

## 8. Plan

Done: all modules of section 2 with their runs and proofs. Left, if the code
moves there:

1. a key for the session file: with one passed to `FindLatestSessionFile`, its first
   pass becomes an action of `SessionStream` and `OwnCallsOnly` an invariant of a
   passing run;
2. a path of its own for each attachment: with `OnlyNamesakesSpoil` every file is then
   whole unless its close failed, and `disturbed` unnecessary;
3. a durable queue: `Server` with restarts, and `AcknowledgedIsHandled` across
   them.

## 9. Running

    tlc -config MCWorkerPool.cfg MCWorkerPool
    tlapm WorkerPoolProofs.tla

and likewise for the other `MC*.cfg` and `*Proofs.tla`.
