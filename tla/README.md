# MetaSource in TLA+

A verification project for MetaSource, the hiring-request system of this
repository: a Go gateway (`src/gateway`), a Python AI service
(`src/ai-service`) and a Next.js frontend (`src/frontend`), tied together by
PostgreSQL, three SQS queues, one SNS topic and WebSocket connections. The
modules model the parts whose correctness depends on the order in which
several actors take their steps; TLC checks them on small instances and TLAPS
proves the central results for every value of the constants.

`PROJECT.json` lists the components, the runs with the properties each checks,
a mutation of the code for every property, the source lines each definition
stands for, the hazards and the theorems.

## The system

| component | state | operations | how it meets the others |
|---|---|---|---|
| queues (`handlers/sqs.go`, `sqs_consumers.go`) | three SQS queues with dead-letter queues; per pod and queue a polling goroutine, a semaphore, a WaitGroup | enqueue, poll, dispatch, handle, delete, drain | handlers of mutations enqueue; consumers call the AI service and SNS; `main.go` cancels and waits for them |
| email (`auto_analyze.go`, `main.py`, `email_notifier.py`) | the email queue, the requests pending in the AI service, the mail server | look the rule up, enqueue, post with a 15 s timeout, send | called once per tracked change by the mutations |
| hiring requests (`requisitions.go`) | tables `Requisition`, `RequisitionChange`, `Notification` | create, update, delete, list, get | announce on WebSocket, by email and by SNS |
| readable ids (`requisitions.go`, `upload.go`, `upload_pipeline.py`) | the numbers in `Requisition.requisitionId`, with a unique index | read the maximum, add, insert | three programs share one table without a lock |
| CSV upload (`upload.go`) | the rows of an import, its counters | insert row by row, record, notify | as above; managers are to be notified at the end |
| AI upload (`data_upload.go`, `upload_*.py`) | per upload: records with a status, batches at the language model; a job table | parse, clean in parallel batches, validate, insert record by record, notify | the gateway waits five minutes for it; it posts its progress to the gateway |
| WebSocket hub (`websocket.go`, `use-websocket.ts`) | connections per manager, a channel of 256 messages | register, broadcast, unregister, reconnect | fed by mutations and internal calls |
| audit log (`middleware/audit.go`) | a channel of 1000 entries, a batch | record, write a batch, flush at shutdown | fed by every request, flushed by `main.go` |
| rate limiter (`middleware/ratelimit.go`) | a token bucket per user, an eviction loop | allow, evict | in front of every handler |
| scheduled tasks (`eventbridge.go`, `main.py`) | unsummarized changes, summaries | detect, summarise, store, mail | every process of the AI service and every gateway runs its own timers |
| anomaly analysis (`auto_analyze.go`, `anomaly_dedup.py`) | fingerprints with a time to live | analyse, suppress duplicates, notify | disabled at present: no caller reaches it |
| Next.js API routes (`frontend/app/api`) | the same tables, by Prisma | create, update, delete, import, mark, read | serve the pages where no ingress sends `/api` to the gateway |
| data pages (`frontend/app`: home, dashboard, requisitions, changes, notifications, market-intel; the layout with its badge) | what is shown, the filter, fetches in flight, a WebSocket | fetch, filter, follow messages, write | of `/api` and of the hub |
| editing (`req-table.tsx`, `req-form.tsx`) | the dialog, the cell being edited, requests in flight | open, submit, edit in place, delete | on the requisitions page |
| upload pages (`requisitions/upload`, `data-upload`) | the file, its preview, the upload in flight, result, stages | choose, upload, clear, listen | of the two uploads and of their progress |
| chat page and sign-out (`chat/page.tsx`, the layout) | messages, their copy in sessionStorage, questions in flight | ask, renew, leave, sign out | of the proxy to the AI service |
| the rest: auth, read-only handlers, proxies, chat agent and tools, guardrails, scrapers, CloudWatch, static pages, seed | none, or single statements | | |

What is hard in it, and where it bites, is the list `hazards` of
`PROJECT.json`. In short:

- *Pods overlap and die.* A rolling update runs two gateways on the same
  queues. A pod is told to stop (SIGTERM), drains its consumers and may be
  killed at any step.
- *Time.* A message waits for a semaphore slot while its visibility timeout
  runs; the HTTP client of a consumer gives up on a request the AI service goes
  on with; the queue counts deliveries whatever they ended with.
- *No transactions.* Every statement of a handler commits on its own. The
  change records precede the UPDATE they describe, and the result of their
  INSERT is not looked at; neither is that of several reads.
- *Check then act.* The next readable id is read and then inserted, by three
  programs in the gateway and the AI service and two more in the Next.js routes,
  where the largest is found by the order of texts. A budget is computed from
  what was read and written later. Changes are detected and summarised later, by
  several processes. A bucket is looked up under a lock and asked outside it.
- *Two goroutines, one connection.* The hub writes to connections that their own
  goroutines greet, register, remove and close.
- *The order of the shutdown.* The audit channel is closed first, the HTTP server
  stops last.
- *One failure among many.* A batch of an upload, a record, a category of a round
  or a statement of a transaction fails, and the rest goes on with positions,
  counters and connections that must still fit.
- *Answers in any order.* Pages have several fetches in flight, of an older filter
  or of an older render, and show the one that comes last; a request of a form
  may get no answer at all; a file is cleared, a chat renewed, a page left and a
  user signed out while something is in flight.
- *Two programs that have not met.* A field, a token, a header or a type that one
  side expects and the other does not send, with an error nobody looks at.

What makes each component correct: the queue is at-least-once and does not
leak slots, and shutdown ends; an accepted change is mailed and, without a
fault, once; the change log of a hiring request replays to its row; a request
announces what it did and no more; generated ids collide only in a race, and an
import accounts for each of its rows; a connection gets exactly the messages it
is due and is removed when its client is gone; an audit entry that was sent is
inserted once, in order, before the process ends; a row of an upload is its own
and is counted once; a manager is told of a change once; a bucket that is evicted
is not missed; a page that has settled shows the newest data for its filter; a
form sends the data of its row, once; what a user typed is gone after the
sign-out.

## Modules

### `AtLeastOnce` and `PollQueue`

`AtLeastOnce` is the promise to the code that enqueues: an accepted message is
tried at most `MaxReceiveCount` times, leaves the queue because its latest try
succeeded or because every try is used up, and a try that was overtaken may
still succeed later.

`PollQueue` is the implementation: one queue (the email and the SNS queue are
instances), the producers, and the loop of `sqs_consumers.go` in every pod.

| in the model | in the code |
|---|---|
| `status`, `visible`, `receives` | the queue service (external): where a message is, its visibility timeout, `ApproximateReceiveCount`, which also names the latest receipt handle |
| `pc[p]` | where the polling goroutine stands: head of the loop, in `ReceiveMessage`, dispatching `out.Messages`, between `sem <-` and the start of a goroutine, in the five-second pause, in `inFlight.Wait()`, returned; `noqueue` is a pod whose `initSQS` failed |
| `batch`, `handling`, `deleting` | the messages not dispatched yet, the goroutines inside `handler(...)`, those about to call `DeleteMessage` |
| `returned`, `released` | how many goroutines are before their deferred `<-sem`, and how many between it and `inFlight.Done()` |
| `sem`, `inFlight` | the tokens in the semaphore channel, the WaitGroup |
| `succeeded`, `failed` | which deliveries the handler returned nil, or an error, for |
| `CheckContext` ... `Drained` | the lines of the loop, with its three exits to the drain |
| `HandlerOk`, `HandlerError`, `DeleteServed`, `DeleteFails` | the goroutine of one message |
| `FreeSlot`, `Done` | its two deferred calls, between which the loop may take the slot and count the next goroutine |
| `Terminate`, `Die` | `cancel()` in `main.go`; the end of the process by whatever cause |

A delivery is a message with a receipt, so that an overtaken delivery is
distinct from the one that overtook it, and a delete with an old receipt has no
effect. `ReceiveError` includes the case that the service handed messages out
and the reply was lost. `Frame` is `Next` without the handlers and producers,
for modules that put a real handler in their place.

### `EmailDelivery` (extends `PollQueue`)

Replaces the handler by `processEmailMessage`: `Post` sends the request,
`SendEmail` is the AI service serving the requests in its inbox, `Answered` and
`ClientError` are the two ways the handler returns. A request the client gave up
stays in the inbox and is served later. `Outcomes` are the answers of
`send_email` with whether the mail went out: a mail that could not be sent is
answered with status 200, and a service that dies may do so before or after
the mail went out. `NotifyManagerEmail` looks the rule up and enqueues.
`astray` is history: the deliveries that went wrong without an error of their
handler, one by one (`Strayed`): overtaken while they waited for a slot or were
worked on, lost with the reply of their receive or with their pod, or handled and
not deleted.

### `Requisitions`

The three mutations of `requisitions.go`, one action per database statement:
`Insert`, `LogCreated`; `Read`, `Track` (one field of the body at a time),
`Update`; `ReadForDelete`, `Delete`. They end with the same announcements: `Notify`
looks the manager up and broadcasts the change, `Store` inserts the notification,
`Email` broadcasts it and issues the emails, `Publish` is SNS. `Refuse` stands for a body that does not bind
and for `checkManagerAuth`; `Crash` ends a request with its pod. A field is a
stored value and the `Text` it is formatted to, because the code compares and
logs texts: two values of a rate may have one text. `Storable` says which
values the column accepts, for the enumerations are checked by the database
only. The foreign key of the change log cascades.

`changes` is the table of change records, taken apart by hiring request and field,
for no query puts records of two fields in relation. The history variables record
what the properties make an exception for: `base`, each row as it was first;
`disturbed`, the fields whose log something falsified; `missed`, the requests
whose lookup of the manager failed, or whose notification could not be stored.

### `RequisitionIds`

The three generators of readable ids. A writer goes through its rows; for each
it reads the largest number of the category (`ReadMax`, `ReadFails`) and inserts
(`InsertRow`, `InsertFails`). The three formulas are operators of their own. A
failed read is an exception in the AI service, which fails the row, and is
ignored in the gateway, which goes on from zero. A failed INSERT may have been
committed (`InsertUnanswered`). After an exception the AI service rolls back and
connects again; if either raises, the import ends there (`StatementFails`,
`AbortImport`), as it does without its first connection (`NoConnection`). `DeleteNumber` is a concurrent
`DeleteRequisition`. `outdated` is history. Rows that update an existing hiring
request generate no id and are left out.

### `WebSocketHub`

`broadcast` is the channel, `Take`, `BeginWrite`, `Written` and `WriteFails` are
`run`: the connections are listed under the lock, in `Take`, and written to one
by one, in any order, after it. `targets[c]` counts how often `c` is in the list
of targets, for the code's list is a slice and could hold a connection twice.
`handler[c]` is the goroutine of a connection: the welcome message is being
written, the connection is being added, read, removed, gone. Clients are
external and go away at any moment; that the gateway has noticed is another
step. `received` and `since` are history.

### `LiveUpdates`

The hook of a page with its reconnect, and the verdict of the gateway on its
handshake. `Query` and `Refused` are taken from the two sources as they stand.

### `AuditLog`

A call is served (`Begin`), and its entry is sent (`Send`) unless its handler
panics (`Panic`). `TakeEntry`, `Ticker`, `Closed`, `Insert` and `InsertFails` are the
writer goroutine: its select, and the INSERT of a batch as a step of its own,
during which the channel fills up. `Terminate`, `FlushEnds`, `ConsumersStopped`
and `HttpStopped` are `main` after SIGTERM, in its order; `Killed` is every other
end. `sent` and `discarded` are history: the entries that got into the channel,
and those lost with a failed INSERT or with the process. The calls that
authentication refuses do not reach the audit middleware and are not in
`AuditedCalls`. Whether INSERTs succeed is up to the database: `DbFaults`
lets each fail. The only migration of the repository creates no table
`AuditLog`, and the column `id`, which the INSERT leaves out, has its default in
the Prisma client only; so as deployed by `k8s/deployment.yaml` every INSERT
takes `InsertFails`, and what the properties say of the table holds of a database
that has been given one.

### `RequisitionApi`

The Next.js routes, one action per Prisma call. `pc[q]` names the next statement of
request `q`, `ask[q]` is its body, `loc[q]` its local variables; `answer[q]` is the
status. `Create`, `NextNumber` and `Insert` give out a number: the padded ids are
compared as texts (`TextLeq`), so with `Base` digits and padding up to `Cut` the
number after the last padded one is the smallest text that begins like it.
`ReadRow`, `Write`, `LogChanges` and `Tell` are the update, `FindForDelete` and
`Delete` the deletion, `Upload` with `FindRow`, `ChangeRow`, `NumberRow`,
`InsertRow`, `LogRow` and `TellAffected` the import, which catches the exceptions of
a row (`FailRow`) and goes on. `Throw` is a statement that throws outside that.
`changes` holds the records of each row and field. A read is a list of rounds of
statements, those of one `Promise.all` in any order. History: `base` and `disturbed`
for the log, `told` for the notifications, `raced` for the numbers, `moved` for the
figures.

### `DataPages`

Six pages and the badge in their layout. One page is mounted; a navigation mounts
page, layout and provider anew. The home page comes with any session
`SessionProvider` may know by then, and with one it shows its loading display until
the managers are there. Page and layout share nothing but what makes them
fetch, so that a behaviour follows the data of one of them (`part`). Data are the
version of their topic, and a filter is everything a fetch depends on. `SetFilter`,
`TimerFires`, `Deliver`, `Mount` and `AnswerWrite` are what sends a fetch; `Serve`
is the moment the server reads the data, `Answer` the arrival, in any order.
`SubmitWrite`, `ServeWrite` and `AnswerWrite` are the page's own mutations, whose
handler keeps the filter of the render in which it was clicked. `excused` names
why data need not be current.

The module assumes a WebSocket that delivers, although `live_updates` shows that
the connection of the pages is refused: it says what the pages would do with the
messages they were written for. While the socket stays `connecting`, which it may
for ever, the module is also the system as it is.

### `RequisitionEditing`, `UploadPages`, `ChatPage` and `FormPages`

The three pages on which something is entered, each with its requests in flight,
and their composition: `FormPages` extends all three and adds the navigation,
which unmounts one page and mounts another, the sign-out, which clears
sessionStorage before its request is answered, and the next user of the window.

`RequisitionEditing`: the form stays mounted when its dialog is closed, so
`submitting` outlives it, and `form.of` says whose data its fields hold as against
the row it is addressed to. The table is unmounted while the page loads, and its
editor with it. `UploadPages`: the import and the AI pipeline have one state; what
is shown decides what can be clicked, and `Marks` is `updateStages`. Progress messages are taken as the page is
written for them, although none arrives (see below). `ChatPage`:
a message is the number of its question and who said it; the effect that stores
the chat is part of the step that changes it.

### `ScheduledSummaries`

`scheduled_summarize` in every process of the AI service, on one log of changes.
`Detect` is the query: changes without a summary, not older than a day, of
hiring requests that exist. `todo[p]` is what the round has left, `Batch(p)` its
current category: the rows come from the newest, so the categories stand in the
order of their newest change. `Summarized` is the language model, `Store` the
transaction that writes the summaries and looks the manager up, `Mail` the mail
after the commit. `Fail`, `CommitUnanswered` and `Crash` end the round.
`overlapped` and `unsent` are history.

### `Frontend`, `Gateway` and `Imports`

`FormPages` and `DataPages` side by side, as the pages of one window: the data
pages and the pages on which something is entered share no data but by way of the
server, so a behaviour is a behaviour of one of the two, and `side` says of which.
`Gateway` puts `WebSocketHub` and `AuditLog` side by side in the same way, the two
parts of the gateway that hand work to a goroutine through a bounded channel, and
`Imports` the ids (`RequisitionIds`) and the pipeline (`UploadPipeline`), whose
insertion is one of the writers of ids. The parts of each share no state.

### `UploadPipeline`

One upload from the parsed records to the answer. A cleaned row is named by the
record it was cleaned from, so that a row given to another record shows. The
batches are cleaned at once (`CleanBatch`, in any order) with one of the
`Answers` a language model may give: the rows, the rows in another order, one
too few or too many, nothing that can be parsed (`<<>>`), or an exception
(`Raised`). `Cleaned` joins them, `Align` gives them to the records by position.
`Validate`, `Insert`, `InsertionFails`, `EndUpload`, `Notify` and `Complete` follow
the code; `InsertionFails` may have committed. `Abort` is an exception no one
catches, and `GiveUp` the timeout of the gateway, which stops nothing. `Headers`
and `TokenHeaders` are what the progress is posted with and what the gateway looks
for.

### `TokenBucket` and `RateLimiter`

`TokenBucket` is the promise: a bucket per key, for ever. `RateLimiter` is the
code: a map of entries under a lock, `GetLimiter` in the lock, `Allow` after it,
`Evict` in the background goroutine. The unit of time is that in which a bucket
gains a token, so ten minutes are ten times `Burst`. `KeyOf` says which requests
share a bucket: the user, or the user and the path on the routes with a limit of
their own. A bucket that is given out anew is full. The mapping gives a key
without an entry a full bucket.

### Proof modules and instances

A proof module holds the theorems of the modules it extends: `PollQueueProofs`
those of `PollQueue` and `EmailDelivery`, `ImportProofs` those of `RequisitionIds`
and `UploadPipeline`, `FrontendProofs` those of all pages, `MiddlewareProofs`
those of `RateLimiter` and `AuditLog`; `RequisitionsProofs`,
`RequisitionApiProofs`, `WebSocketHubProofs` and `ScheduledSummariesProofs` those
of the module in their name. The `MC` modules hold what TLC needs: symmetry sets
and the values of structured constants. An operator with the comment *Mutation of*
is a variant of a definition with a plausible bug, named in `mutants` of
`PROJECT.json`; no specification uses it.

## Runs

| run | question | bounds | result |
|---|---|---|---|
| `queue` | is the bookkeeping of `PollQueue` right, does it implement `AtLeastOnce`, does a shutdown end, and is every message settled while one pod keeps consuming? | 2 messages at 1 pod, or 1 message at 2 pods (`OneOrTheOther`), 1 slot, 2 receives; visibility timeouts may end at any time, every call may fail, pods are terminated and die | holds |
| `email` | where do a second mail, a lost mail and a dead letter come from? | 2 pods, 1 change, 2 receives; visibility ends at any time, every call may fail or lose its reply, pods are terminated and die, timeouts and answers of the AI service are free | only from the causes named in the properties |
| `requisitions` | does the change log explain the table, and do announcements match the answer? | 3 requests, 2 hiring requests (one with a manager), a tracked status with an invalid value, a tracked rate with two values of one text, untracked notes; statements may fail, pods may die | holds, with the exceptions the properties name |
| `imports` | when is a generated id refused, is each row accounted for, which row does a record get, where does it end, and what are managers told? | ids: a create, a CSV upload of 4 rows (one with an unknown category), an import of 2 rows, 2 categories, 2 deletions, failing statements and recoveries; pipeline: 5 records in batches of 2, one that does not validate, 3 categories, one without a manager | holds, with the exceptions the properties name |
| `gateway` | does every connection get what it is due, is an entry that was sent inserted once and in order, does nothing leak or stall, and does the shutdown end? | hub: a connection of a manager and one of an admin, which may go away at any time, 3 messages, a channel of 2; audit: 4 calls, a channel of 2, batches of 2, INSERTs fail, handlers panic or hang, deadlines expire, crashes | holds |
| `live_updates` | is a page that stays connected in the end? | one page, no network fault | **no** |
| `stages` | does a failed upload mark its stages? | one file on the AI upload page | **no** |
| `dead_letters` | is a dead letter one after three failures of its handler? | one message, one pod, 3 receives as deployed | **no** |
| `api` | what are log, budget, numbers, counts and figures of the Next.js routes worth? | 2 requests of every kind, 4 keys, numbers to the base 3, so that the number 3 plays the part of 1000; statements may throw | holds, with the exceptions the properties name |
| `frontend` | is what a page shows current, does loading end, and is the right thing sent, shown and kept? | six data pages and the badge, 2 filters, 2 versions, 2 fetches and 1 own write in flight, failures, a socket that drops; and 2 rows, 2 files, 2 questions, 2 requests in flight | holds, with the exceptions the properties name |
| `summaries` | who is told of a change, how often, what does a round let go of, and does every change get its summary? | 2 processes, 2 changes of 2 hiring requests in 2 categories, one without a manager | holds, with the exceptions the properties name |
| `rate_limiter` | is the limiter a token bucket per key? | 3 calls of 2 users, 3 buckets of 2 tokens, so that ten minutes are 20 units and five 10; a handler held up for a unit; symmetry of the buckets | holds |

Why the bounds are enough. In `queue` two pods make an overtaken delivery, and a
message received by a pod that has just died; two messages with one slot make a
batch of which one message waits for the slot the other one holds, through a
shutdown and a visibility timeout; two receives make a redelivery and a dead letter
(a third, as deployed, is one more of the same: the theorems hold for any number).
Two messages at two pods bring nothing new:
messages share nothing but the slots and the batch of a pod, and the theorems hold
for any number of both. The bound is on what is enqueued and started, neither of
which is assumed to be fair, so no liveness property holds because of it; nor does
one because of `InOrder`, by which of two interchangeable messages or pods one comes
first. Three
requests make two updates that overlap and a third that follows or deletes in
between. In `imports` every kind of writer meets every other on a shared category, and
each import has two rows of which the second counts the first; in the pipeline
three batches put one before and one after the one that fails, and the last is not
full. In `gateway` a message
to the manager has two targets, so that one can fail under the other, and three
messages overflow the channel; a batch of two entries is inserted while two more
fill the channel, which drops entries, and the last batch is one that is not full.
In `api` two requests make every race of two statements, a file of two rows makes
the second row meet the first, and base 3 brings the end of the padded numbers
within reach of four rows. In `frontend` two fetches overtake each other and a
second version makes the earlier one stale; a third would repeat that. A second row
is what a form can be wrongly addressed to, a second file what a result can be
wrongly shown beside, and a second question is the one whose answer a new chat gets.
In `summaries` two processes overlap, one change can be detected earlier than the
other, and its category can come first or second in a round. In `rate_limiter` a call of a user can be held up while another call of that
user finds a new bucket.

Deadlock is not checked: in each module the system stops when its messages are
settled, its requests answered or its bounds used up. That nothing stops too early
is what the liveness properties, `DrainComplete`, `EveryRowAccounted` and
`EveryRecordAccounted` are about.

### Fairness

`PollQueue`: weak fairness of the polling
goroutine, of the handlers, of the deletes and of the deferred calls of each pod:
goroutines are scheduled, the pause and the long poll end, and each handler
returns. The handlers of the email and the analysis queue do because their HTTP
client has a timeout of 15 or 30 seconds. The SNS handler sets none: it calls
`Publish` with `context.Background()` (`sns.go:139`), so that for its queue
`ShutdownEnds` and `AcceptedSettles` rest on the AWS client giving up a connection
by itself, which nothing in this repository makes sure of. Weak fairness of the service
for a message: visibility timeouts end and the redrive policy is applied. Strong
fairness of receiving a message that is receivable again and again: the service
does not withhold a message forever from a pod that keeps asking, although each
single poll may come back empty or fail. Nothing is assumed of producers,
handlers' results, signals, crashes or starts. `AcceptedSettles` asks in
addition that one pod goes on consuming: no pod, no delivery.

`WebSocketHub`: weak fairness of `run` and of the goroutine of each connection.
The code sets no deadline on a write; that it ends is TCP's doing, after
minutes, and until then all other connections wait. Clients owe nothing.
`AuditLog`: weak fairness of the writer and of the steps of the shutdown, each
of which is bounded by a deadline but for the wait for the consumers, which is
`ShutdownEnds` of `PollQueue`; a handler need not return. `LiveUpdates`: the
handshake is answered and the timer fires.

`DataPages`: requests are served and answered, if only by an error, and the timer
of the debounce fires. Users owe nothing; `LoadingEnds` asks that the page is not
left, and in a behaviour that goes on for ever with finitely many versions and
writes users pause. `ScheduledSummaries`: weak fairness of the restart and of the
mail, whose outcome is free; strong fairness of detecting, summarising and
storing, which is that the deployment restarts what died and that the language
model and the database do not fail for ever. Recording, deleting and ageing are
not fair.

### What the runs with a counterexample show

`live_updates`: the pages connect with `?managerId=`, the gateway accepts `?token=`
only. Every handshake is refused with 401, and the reconnect goes on forever.
`WebSocketHub` therefore describes clients that are not in this repository.

`stages`: the comment on `updateStages` (`data-upload/page.tsx:150`) says that on
failure stages are marked "error". The function looks "failed" up in a list it is not
in, no index is as small as the -1 it gets, and all four stages are pending; the mark
for an error, drawn at `:336`, is never shown. `ResultOfFile` therefore speaks of the
stages of a successful upload only.

`dead_letters`: the comment on `PollQueue` (`sqs_consumers.go:35-36`) says that a
message goes to the dead-letter queue after three failures. The redrive policy
(`sqs.go:170`) counts deliveries: in the trace the replies of receives are lost and
visibility ends before the handler is called. `DeadLetterExplained` (run `email`)
names everything a delivery can be used up by.

Seen on the way, without a run of its own:

- `send_email` answers `200 {"sent": false}` when the mail server is down, the
  consumer retries on 5xx only, and deletes the message. The retry and the
  dead-letter queue that the README of the repository announces never see it.
  `LostOnlyIfNotSent` (run `email`) shows that this is the only way to lose a mail.
- A batch of an upload that raises is filled up with empty objects; one whose answer
  cannot be parsed returns `[]` and is not, so that the rows of all later batches
  move up: a record is stored with the data of another, and the last records fail.
  `ShiftExplained` (run `imports`) shows what else can move a row, and that
  nothing else can.
- The AI service posts the progress of an upload without a token to a route behind
  `AuthMiddleware`; the 401 is not looked at (`UploadPipeline`, `progress`).
- The task of the gateway decodes `hasChanges`, the AI service answers
  `changes_by_category`. The absent field is false, the task succeeds, and no
  summary is asked for (the request for it would be refused: it is `{}` and needs
  two fields). The summaries come from `ScheduledSummaries` alone.
- In `"createdAt" >= $1 - interval '5 seconds'` (`upload.go:208`) PostgreSQL gives
  the untyped parameter the type of the other operand; the difference is an interval
  and cannot be compared with a timestamp. The query is refused, its error ignored,
  and no manager is told of a CSV import (`changes.go:60` casts its parameter).
- An update to a status outside the enumeration is answered 500 and leaves its
  change records behind (`requisitions.go:454`); a change of a recomputed budget
  has no record.
- The count of rows created so far is added to a maximum that includes them
  already: the ids of an import are 1, 3, ... (`upload.go:155`).
- When the recovery of a failed record raises (`upload_pipeline.py:263-269`), the
  import of the AI service ends with the rest of its rows, and its caller learns
  nothing of those it has inserted (`EveryRowAccounted` names that case).
- The result of the `INSERT INTO "Notification"` of a mutation is not looked at
  (`requisitions.go:544`): a manager is told by broadcast and email of what the list
  of notifications does not show (`AnnouncedAsAnswered` names that case).
- `FlushAuditLog` closes the channel while the HTTP server still serves
  (`main.go:146`): the entry of a call that ends meanwhile is lost.
- `DeleteMessage` is called with the context that the shutdown has cancelled, so
  that a message handled during the drain is delivered again. `SecondMailExplained`
  (run `email`) shows what else sends a mail twice.
- Once a category has 999 ids, every creation through the Next.js routes is refused
  (`NumberIsFree` names that case), and a row whose record fails is reported as an
  error although it is in the table.
- One category whose summary fails in every round holds up those after it until
  their changes are a day old. `GET /api/data-upload/:jobId/status` is forwarded to
  a path the AI service does not have. A gateway that gives up after five minutes
  leaves the pipeline inserting.
- The pages: messages missed while reconnecting are not fetched; marking as read is
  not broadcast, and a click on a notification does not correct the badge of the
  page it leads to; a page number beyond the last shows an empty table; a refused
  submission closes the form and its input is lost; progress is not filtered by job; an error without a list
  of errors crashes both upload pages; an answer that comes during the sign-out
  stores the chat again.

## Proofs

Every safety invariant and action property of the runs that hold is a theorem of
its specification, for any number of pods, requests, rows, pages, records and
connections, and for every bound. What follows is the argument of each: the
inductive invariant, why the property is not inductive alone, and what it assumes.
Each action has its lemma; steps that move nothing a conjunct speaks of share one.

`PollQueueProofs`, from `PollQueueAssumption` alone (a positive concurrency and
receive count; no assumption that the sets of messages and pods are finite).
The inductive invariant `IInv` joins to the type invariant: the slots taken are
those of the goroutines that have not given theirs back and of the one about to
start, the WaitGroup counts these goroutines and those between their two deferred
calls, and the goroutines are finitely many (`Slots`);
a batch is held only while dispatching, and nothing by a loop that has returned
(`Control`); a delivery a pod holds has a
receipt that was issued, the deliveries in a batch or handler have no outcome,
those in a delete have succeeded (`Receipted`); no two pods hold one delivery
(`Exclusive`); outcomes are of issued receipts and exclude each other; a deleted
message succeeded for its latest receipt. None of the properties is inductive
alone: `NoSilentLoss` needs that a pod about to delete has succeeded, and
`SlotsAccounted` that a delivery to be released is in the set that is counted.
From `IInv` follow `TypeCorrect`, `SlotsCorrect`, `DrainCorrect`, `NoLoss`,
`HandledOnce` and `Refinement`: every step is a step of `AtLeastOnce` or leaves it
unchanged (a receive is a try, `HandlerOk` a win, an effective delete a
completion, `DeadLetter` the giving up). The type invariant and `NoSilentLoss` are
part of `IInv` and of no run: what they say of a small instance
`ImplementsAtLeastOnce` says too.

`EmailDelivery` is built on top of the queue, and so are its proofs: each of its
steps is a step of `PollQueue` or leaves it alone (`EmailIsPollQueue`), hence
`IInv` and the promise of `AtLeastOnce` (`EmailRefinement`) carry over. `EmailInv` adds: a request is served once, its answer
says what became of the mail, and a delivery succeeded only with such an answer
(`Served`); only deliveries that were made are posted and mailed (`Issued`); and
every delivery of a message but its latest failed or went astray, and so has the
latest one that no pod holds while the message is still in the queue (`Tried`).
`LostIfNotSent` follows from `NoSilentLoss` and `Served`, `SecondMail` and
`DeadLetterTried` from `Tried`. None of them has a hypothesis on the network or on
the visibility timeout: what these do to a delivery is what `astray` records.

`RequisitionsProofs`, from `RequisitionsAssumption` (the columns are what they are
said to be, and no field is tracked twice): `LogExplains` is not inductive, for a
change record precedes the UPDATE it describes. The invariant says of an
undisturbed field: every update under way has read what is in the row; if none has
recorded a change, the log ends at the row; if exactly one has, the log ends at
what its body is about to write (`Explained`, `Recorders`). It needs that the set of
tracked changes is what the loop has come past (`TrackedOK`), without which an
UPDATE could write a field it has no record of. `Announces` needs where a request
stands between its announcements, and that emails and messages carry the changes
that were recorded (`AnnouncedOK`); a notification that was not stored is in `missed`.

`ImportProofs` has two parts. From `RequisitionIdsAssumption`, `Invariance` shows
that until another writer inserts into the category, or if the read did not fail, no
number of the category exceeds the one read (`ReadIsTop`), which needs that the
sets of numbers are finite, for the maximum is a CHOOSE (`MaximumExists`,
`LargestIsMax`). Each formula exceeds the number read (`NumberAboveTop`), whence
`RefusalsAreRaces`, for any number of writers, rows and deletions.
`RowsAccounted` follows from a second invariant on the index of the row, which an
import that ends early has not moved past the row it counted (`RowStep`).

From `UploadPipelineAssumption` (a positive size of a batch, and nothing about how
the records divide into batches), `ShiftsExplained` rests on what a flattened
sequence of sequences has at each place. The library defines it by a recursive
function and proves nothing of it; `JoinExists` shows that the function exists, by
induction on a set of naturals (`AllNaturals`), and `FlattenPlaces` that the parts
stand behind one another: when all parts before one have the length `w`, its
elements stand from `(b - 1) * w` on. With `EveryRecordInABatch` a record has its own
row unless its batch was answered otherwise than it should be, or one before it with
another number of rows (`RowInPlace`). `RecordsAccounted` and `ManagersTold` need
which rows the table holds: each is of a record the loop has passed, with the data
the record still has, no two are of one record, and their records are those uploaded
and those whose commit was not answered (`Placed`); what is still to come validated
and is ahead of the loop (`Coming`).

`WebSocketHubProofs`, from `Typed` alone, that is from no assumption: a connection
is registered only while its goroutine reads from it or is about to leave, `run`
works only on connections that have been registered, and a goroutine that ended has
closed its connection. `SingleWriter` and `NoLeaks` follow. `OneWriter` alone is not
inductive: it needs that a target was registered, and that only connections past
their welcome are. `Delivered` (what a connection got is what it was due, once and
in order) needs in addition that a message at work for a connection is addressed to
it, is counted once and has not been written to it (`PendingDue`), that a connection
either side has removed is closed, so that nothing more is written (`RemovedClosed`),
and that nothing is before it is registered (`NothingBefore`).

`RequisitionApiProofs`, from `ApiAssumption`, has four invariants, each with the
one before it. `ImportInv`: the three counters of an import add up to the lines
done, and the set of lines that wrote something covers those counted as created or
updated, and the current one between its write and its record; `ImportsAccounted`
follows. `TableInv`: the table is finite, every budget is priced or explained, and a
number that is about to be inserted follows all those of its category unless another
request came in between; `NumbersAreFree` and `BudgetsExplained` follow. The step
that is not obvious is that a largest id exists when ids are compared as texts
(`LargestByText`), by well-founded induction on the strict subsets of a finite set.
`LogInv`: here the UPDATE precedes its records, so a field is what its log says, or a
request has written it and owes the record (`Explained`), and what is owed still
stands in the row unless somebody overwrote it (`Stands`); `LogsExplain` follows when
no request owes anything. `ReadInv`: the answer of each statement of a read stands
for a number of rows, which is as near to the number there is now, and to those of
the other statements, as writes have been committed since (`Agrees`); `ReadsMatch`
follows. Every row has to be counted once by the sums over categories and statuses
(`SumOfParts`): the fold behind a sum is shown to exist (`FoldExists`) and to add up
the cardinalities of a partition. The proof showed what it takes: the categories and
statuses of the rows are among those summed over, as the types of the columns make
sure, and `all` is the name of no category, or the statistics of that category and
those of all would be one.

`FrontendProofs`. Of the pages on which something is entered, from no assumption: one
invariant per page, each kept by the steps of the others because they leave its
variables alone: `EditInv` (the fields of an open form are those of its row, a
request in flight carries the data it was addressed with, at most one is the
form's), `UploadInv`, `Forgotten` and `ChatInv` (after a question in flight comes its
answer and nothing else). They give `RequestsMatchRows`, `FormSendsOnce`,
`ResultsMatchFiles`, `NothingRemembered` and `ChatAnswersQuestions`; what the second
and the fourth state (a form sends once, and a sign-out forgets) is in no run.

Of the data pages, from `DataPagesAssumption`: `ScreenIsCurrent` speaks of a page
that has settled, so its invariant speaks of every other: without an excuse the page
has nothing to show, or will fetch (a message or the timer is under way), or the
fetch sent last is for the current filter and brings what there is now, or no fetch
is in flight and what is shown is current (`Fresh`). When the
newest fetch is answered before an older one, the older has the last word: that is
an excuse, which the code has no means against. `PagesShowTheNewest` follows. A window does what its pages do
(`WindowIsItsPages`), so that the theorems of both kinds of page hold of `Frontend`.
In the same way `GatewayIsItsSides` and `ImportsAreTheirSides` carry over the theorems
of `WebSocketHub` and `AuditLog`, and of `RequisitionIds` and `UploadPipeline`.

`ScheduledSummariesProofs`: `ToldOnce` is not inductive, for it needs that a change
in a round has not been told, and that one that was told cannot be detected again
(`Claimed`), which in turn needs that what is about to be mailed is stored
(`Stored`). The batch of a round depends on the order of the log; that recording a
change leaves it alone (`RecordKeeps`) is what makes the steps of others harmless.

`MiddlewareProofs` has two parts. From `RateLimiterAssumption` (a handler is not held
up between its two steps for longer than the ten minutes minus the one a bucket
needs to fill): `Current`, a call holds the bucket its key still has; `Filling`, an
entry not seen for a while has gained a token per unit of time since; `Evicted`, how
old an entry is follows from how long the goroutine has slept. So a stale bucket is
full and held by nobody, the eviction is a stutter of `TokenBucket` (`Refinement`).
`EntriesAreForgotten`, which no run checks, follows too.

From no assumption, `EntriesKeepOrder` and `FlushesAll` of the audit log: the entries
in table, batch and channel, put behind one another, are those sent without those
discarded, in the order they were sent. Inserting, taking and sending leave the concatenation alone or add to
its end; that this keeps the order needs that a call sends once (`SentOnce`).
`FlushComplete` needs that a writer that is done has nothing left, and saw the
channel closed and empty (`Quiet`).

Only model-checked are the liveness properties: `ShutdownEnds`, `AcceptedSettles`,
`MessagesFlow`, `GoneIsRemoved`, `EntrySettles`, `GatewayExits`, `LoadingEnds` and
`EverySummaryComes`. They rest on weak and strong fairness, and thus on ENABLED,
which TLAPS cannot reason about. What a proof of safety can say of them is in the
invariants they would use: that slots are returned, batches emptied, connections
closed, and that a page that is loading has a reason to stop (`LoadingHasReason`).

## Not modelled, and the plan

Left out for good: what changes no shared state (read-only handlers, proxies,
static pages), what is pure text matching and unit-tested (guardrails, the parser
of uploaded files), what belongs to a library or a language model (token
validation, the chat agent), random sample data (scrapers, seed), and metrics,
whose failures are only logged. The anomaly analysis is disabled: `notify_anomaly`
answers before its work, so that its fingerprints are never written and neither
the consumer nor the hourly scan of the gateway finds anything new. The FIFO order
of its queue is not modelled: nothing enqueues on it. The durations of the queue
(20 and 5 seconds) and of the scheduled rounds are abstracted: any order they
allow is a behaviour. Nor are two things modelled that never take effect, for the
reasons above: the summarisation task of the gateway, and the notification at the
end of `UploadCSV`. The job table of the AI service is written and never read by
what is deployed.

Next, in this order:

1. The pages with the routes behind them: `DataPages` takes the server as a
   version counter; with `RequisitionApi` in its place the figures of one answer
   and the pages that show them would be one model.
2. If the anomaly analysis is switched on: the check of a fingerprint and its
   record as two steps of several processes.
