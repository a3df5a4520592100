# simple-smtp-mailer in TLA+

A verification development kept beside the C++ code: models of its queue,
daemon, tokens, sending paths, monitoring and configuration files, runs of TLC
on small instances, and proofs that TLAPS checks for every instance. Paths below are relative to the
repository; a module's definitions carry the names of the code where they can,
and `PROJECT.json` maps each of them to its lines.

## 1. The system

| Component | State it keeps | Operations | Other parties |
|---|---|---|---|
| Email queue (`src/core/queue`) | priority queue, running flag, thread handle, callback, three counters | enqueue, dequeue, start, stop, destructor, worker loop, processEmail | callers, controllers, one worker; the callback sends |
| Daemon (`src/core/daemon`, `src/main.cpp`) | PID file, signal flags, the process itself | daemonize, stop, reload, isRunning | commands in other processes, the process table |
| Token manager (`src/core/token_manager`) | accounts map, one file per account | register, get, refresh, store, delete | threads, the OAuth2 endpoint, the disk |
| Unified mailer (`src/core/unified`) | SMTP settings, API clients, statistics | sendEmail by SMTP, API or AUTO; setAPIConfig, removeAPIConfig | SMTP client, API clients |
| SMTP client (`src/core/smtp`) | one temporary file per send | send by way of curl | `/tmp`, curl, mail servers |
| API clients (`src/core/api`), HTTP client | their settings | buildRequestBody, isValid, sendEmail | nine providers |
| Mailer façade (`src/mailer.cpp`), `Email` | last error, the queue | send, enqueue, start and stop of the queue | SMTP client, queue |
| Webhooks (`src/core/webhook`) | callbacks by event type, counters | processWebhook, registerCallback, getStatistics | server threads, the application's callbacks |
| Analytics (`src/core/analytics`) | totals, metrics and latencies per provider | record..., reset, toJSON, toCSV | threads of the application |
| Service account authentication (`src/core/auth`) | a cached token and its expiry, no lock | getAccessToken | callers' threads, the token endpoint |
| Command line (`src/core/cli`) | configuration files, API sections, archives | add, enable, disable, remove, OAuth2, service accounts, templates, providers, validate, backup, restore, wizard | commands in other processes, the file system, tar |
| Configuration (`src/core/config`) | domain and user settings | load, get | mailer, command line |
| Logging, platform, utilities | none that another part reads | parse, print, log | everything |
| Rate limiter, templates | headers only | none implemented | none |

How they interact. `Mailer::enqueue` puts a copy of an email into the queue;
the queue's worker hands it to the callback, which calls the SMTP client.
`Mailer::send` and `UnifiedMailer` call the SMTP client themselves;
`UnifiedMailer` calls one API client first when asked to. Each SMTP send writes
a file in `/tmp` and runs curl on it. The daemon holds a mailer and a queue of its own, in a process
that commands reach by PID file and signals only. The commands of the command
line run in processes of their own and share the configuration files; what they
write there no other part reads (section 4).

What is hard, and what must hold there:

* **Queue.** Callers, controllers and the worker interleave; the running flag
  is written without the mutex under which the worker reads it; emails travel
  queue, batch, callback, queue. No email may be lost (but with an abandoned
  batch), copied, delivered twice, tried too often or too early; the thread
  object must be used properly; stop() must leave no worker.
* **Daemon.** Several processes share a file without a lock, and a pid can be
  stale, reused or not yet written. One daemon at most, which its file names,
  at which stops aim whatever they read, and whose file goes only after it.
* **Tokens.** Long requests and file writes under a mutex, crashes in between.
  Memory and disk agree, tokens never go back, deleted means deleted, and the
  mutex comes back.
* **Sending.** Answers are lost, calls run in parallel, temporary files
  collide or are cut short, two transports may both take an email, a process is
  killed in the middle. Copies, recipients, texts,
  files and statistics must fit the reported result.
* **Monitoring.** Callbacks of the application run under the webhook
  processor's mutex and may throw or call back; one counter is outside the
  mutex. Events are announced in order and once, `true` means all of them, and
  calls return. Totals, rates and windows of the analytics fit each other.
* **Service account tokens.** Threads share a token and its expiry without a
  lock, assigned one after the other. What is returned must still be valid, and
  requests must not pile up.
* **Configuration files.** Files are rewritten in place by commands that know
  nothing of each other, may be killed, fail to open or run out of space, find
  sections of a shared file by their lines, and go on while an archive is made
  or extracted. A file holds what the last command said; what was written is
  what the validation wants; keys precede the files that name them; a restore
  saves what it overwrites.

## 2. Modules

| Module | What it is |
|---|---|
| `EmailQueue` | the queue, one action per call or, where the code holds no lock, per access to shared state |
| `MailDelivery` | the abstract promise: the life of an email, without threads, batches or delays |
| `EmailQueueRefinement` | the mapping under which `EmailQueue` implements `MailDelivery` |
| `EmailQueueProofs` | twelve theorems: about the queue's emails and its thread; about attempts, deliveries, order and counters; the refinement |
| `Daemon`, `DaemonProofs` | `daemonize()`, the commands, the PID file, the process table; three theorems |
| `TokenManager`, `TokenManagerProofs` | the operations under `accounts_mutex_`, the files, crashes; four theorems |
| `AccountStore` | the abstract promise: one token per account in use and one saved, without threads, requests or files that are half written |
| `TokenManagerRefinement` | the mapping under which `TokenManager` implements `AccountStore` |
| `Providers` | per provider: recipients and parts of a request, required settings, reading of the reply; likewise for curl and for the queue's copy |
| `Sending`, `SendingProofs` | calls through every entry point, built on `Providers`; six theorems |
| `Webhooks`, `WebhooksProofs` | a request from verification and parsing to counters and callbacks, several threads at once; three theorems |
| `Analytics`, `AnalyticsProofs` | the counts, rates and latency windows under `metrics_mutex_`; two theorems |
| `ServiceAccount`, `ServiceAccountProofs` | the cached token, one step per assignment, with time; two theorems |
| `ApiConfig` | the text of `api-config.conf`: sections, their replacement and removal, what is listed and shown of them |
| `ConfigFiles`, `ConfigFilesProofs` | the commands of the command line that write files, step by step, built on `ApiConfig`; validation, backup, restore and the wizard; five theorems |
| `MCEmailQueue`, `MCDaemon`, `MCSending`, `MCWebhooks`, `MCConfigFiles` | instances for TLC and their symmetry |

`EmailQueue`, `TokenManager` and `Sending` meet at the callback: the queue sees a
send as success, failure or exception, and `Sending` takes a queue's call (`caller = "queue"`,
an email without Cc and Bcc) as one of its calls. They are not composed into one
state space; nothing else is shared between them.

### EmailQueue and the code

`queue`, `item`, `batch`, `tries` and `wpc` are `email_queue_`, the `QueueItem`s
and the locals and program counter of `workerLoop`. `running`, `handle`,
`callback` and the counters are the members of those meanings. `elapsed` in an item is
`now - last_attempt` in ticks. The calls of `enqueue` and `dequeue` hold a
`lock_guard` throughout and are single steps that cannot happen while
`WorkerHoldsMutex`. `start()` and `stop()` hold no lock and are one step per
atomic access (`StartCheck`, `StartSet`, `StartSpawn`, `StopCheck`, `StopSet`,
`StopNotify`, `StopJoinable`, `JoinEnter`, `JoinReturn`). The wait is two steps,
`WorkerLock` (predicate) and `WorkerBlock` (becoming a waiter), because stop()
may run in between. `processEmail` is `SendBegin`, then one of `SendSucceeds`,
`SendFails`, `SendThrows`, `SendRetry` + `Requeue`, or `SendUnconfigured`.
The destructor discards what is still queued (`DestroyEnd`).
`fault` stands for `std::terminate` and for a `std::system_error` out of join().

Simplifications: one `Emails` member stands for one enqueue call; `created_at` is
unique; the callback is set before the first start and the limits are constants,
as every caller in the repository has it; stop() is not called from the callback.

### Daemon and the code

`proc[p]` says what a pid stands for, from the first child ("session") to the
main loop ("serving"). `readPid` is a set: an empty file leaves an uninitialised
`int`, so any pid, or a negative one. The value 0, which would signal the
caller's own group, and signals without permission are left out. `writers` are
the processes that have the present file open: what they write after its removal
is not seen. Starts and stops overlap freely; `raced` is history and holds the
starts and stops that were on their way together, first as the shell of the
command, then as the process that comes of it, up to the end of that process.
`isRunning()` is one step. `stop()` is read, SIGTERM, second
reading after the sleep, SIGKILL to what a third one gives, removal; `target` is the process
that the first reading gave. The daemon's own queue (nobody
enqueues to it) is the subject of `EmailQueue`.

### TokenManager and the code

A call is a thread's program counter `pc[t]` and account `arg[t]`. A call that
only touches memory takes and returns the mutex in one step; one that goes on to
the network or the disk keeps it (`owner`). `saveToken` opens and truncates, then
writes. Tokens are numbered as they are issued, and hold what is left of their
life. A second lock of the mutex by its holder, undefined for `std::mutex`, is
taken as what builds do: the thread waits. `storage_mutex_` is only ever taken
under `accounts_mutex_` and is left out.

### Providers, Sending and the code

A request body is a set of recipients and a set of parts; each provider has its own operator for
what it names, needs and accepts, and the dispatch is that of `APIClientFactory::createClient`.
A reply says whether the email was taken, whether the client saw a 2xx status, and whether its
JSON has an odd shape. `Sending` follows a call from `idle` through `http` or `smtp`, `open`,
`write`, `curl`, `unlink` to `done`. `content[t]` is the set of emails whose text is in the
temporary file of second `t`. Its write may fall short, which nobody looks at (`WriteTempFails`;
`cut` is history). A process may be killed at any point; steps are needed only where that leaves
something behind: in a request that the provider has taken, in the write, and while curl, which
goes on without its parent, sends (`KillStep`). An API call may name its provider, whose client
then is not asked whether it is complete (`sendViaAPI`), and `Settings` says with what a client
may be configured. Emails have at least one To address. The owner reconfigures clients only
while no API request is under way, since `api_clients_` has no lock. Whether a sender's domain
is configured is a choice.

### Webhooks, Analytics and the code

`pc[t]` and `call[t]` are a thread's place in `processWebhook` and its locals:
`event` (count the next event or return), `notify` (the mutex is taken again),
`callback` (in a callback, holding the mutex), then `read_failed` and
`write_failed` for the increment of the failure count, which no lock covers. A request
is its provider, signature, JSON shape and event names; `SendGridEvents`,
`MailgunEvents` and `SESEvents` are the three `processPayload`s. What jsoncpp
does with an unexpected shape (throw from `asString` or `isMember`) decides how many
events come out. Callbacks are the application's: they return, throw, or enter
the processor and wait for their own mutex (`stuck`). Exceptions that are not
`std::exception`s are left out.

In `Analytics` every operation but the reports holds `metrics_mutex_` throughout and is
one step; `Report` (`toJSON`, `toCSV`) never gives it back. A rate is the pair the
code divides, so that no rounding hides a stale one. `getOverallMetrics()` reads
four atomics one by one and may show more deliveries than emails sent; it
changes nothing and is not modelled. Nothing in the repository connects webhooks and
analytics, so they are not composed.

### ServiceAccount and the code

`getAccessToken` decides by `isTokenExpired`, then `Issue` and
`generateAccessToken` stand for the request and for the assignment of
`token_expiry_`, `Assign` for that of `current_token_`, `Copy` for the copy that
the call returns. A token is the time of its issue. The provider grants the hour
that the code assumes, and an answer takes at most `Timeout` ticks; the steps
between two requests take no time but come in any order. That reading and
assigning a `std::string` at once is undefined is not modelled: here each is one step.

### ApiConfig, ConfigFiles and the code

A file is the sequence of those of its lines that some command reads or replaces; other lines
stay where they are and nobody looks. `api-config.conf` keeps its line structure, since its
commands go by it: a text is a sequence of pieces, of which newlines are some, and a line is
known by where it starts. A section is a header line and a settings line, and a section that is
put in place of another takes the newlines of the rest with it. `job[p]` is a command: the file
it is about, the text it is going to write, and the step it is at. `Open` truncates; `WriteNew`,
`WriteFlag`, `WriteAccount` and `WriteApi` are the writes when the stream is closed, of a
process that does not know that another one wrote in between (`Overlay`). A process sees one of
two directories, by `getConfigDirectory()`; some commands always write below `/etc`. `Crash` may
come between any two steps; `OpenFails` and `WriteFails` are a missing permission and a full
disk. What is given as the key of a service account is a key or any other file (`JsonTexts`):
`addServiceAccount` copies it unseen. `tar` takes one file a step, from those that were there
when it began and, if it comes upon them, those created since; it extracts from the archive as
it was when the extraction began, and unlinks a file (`Extract`) before it creates it anew
(`Place`), whole, in part or not at all (`PlaceFails`). A stream that is open for a file that is
unlinked meanwhile (`gone`) writes to nowhere (`WriteLost`). A command and the `tar` it runs are
killed together. Restores name their archive by the second, which the model's clock shares
between them or not. The archive that a command writes is among what it may write (`on`), like a
file: what two `tar`s leave of one archive is not the contents of one directory, and the second
empties what the first has saved. What the first steps find may include a backup older than the
files.

`promise` and `muddled` are history: what the last command that was done with a
file made of it, and the files and archives of which this cannot be said, because commands were on
one together or one was killed or failed in the middle of it. Commands that end before they
write are no steps; failures to read are left out. `Required` is the validation's own list of lines,
translated from `validation_commands.cpp` apart from what the commands write.

## 3. Runs

| Run | Question | Bounds |
|---|---|---|
| `EmailQueueRetry` | are emails accounted for, delivered once, tried as often and as late as they should, in order, with counters, thread and stop as they should be | 2 emails, 2 priorities, batch of 2, 2 retries, delays up to 3 ticks, 1 controller |
| `EmailQueueRefinement` | does the queue implement `MailDelivery` while starts and stops race; its size, its one worker | 3 emails, limit 1, batch of 1, 1 retry, no delay, 2 racing controllers |
| `EmailQueueLive` | does every email get a verdict; does stop() return | 2 emails, 1 retry, fair threads |
| `EmailQueueStopSignal` | *violated:* the stop signal ends the wait | 1 email, 1 controller |
| `Daemon` | is there one daemon, found by its file and hit by what stop does, when starts and stops run into each other | 2 shells, 3 pids, crashes, reuse, unwritable file |
| `TokenManager` | do memory and disk agree; do tokens advance; is a delete final; does the mutex come back | 2 threads, 2 accounts, 2 tokens, life of 2 ticks |
| `Sending` | copies, recipients, texts, files and statistics | 2 emails, Mailgun, complete or not, and Postmark, 2 seconds, short writes, kills |
| `SendingCollision` | *violated:* a success means that the email's own text was sent | as `Sending`, without faults |
| `Webhooks` | are events announced in order, once and completely; do counters agree; do calls return | 2 threads, 2 requests of 6 kinds, 2 callbacks of 4 kinds |
| `Analytics` | do totals, counts, rates and averages agree | 2 providers, 2 latencies, a window of 2, 6 operations |
| `ConfigFiles` | do files hold what commands say of them, pass the validation and come after the key they name; do sections stay apart; does a restore save what it overwrites, unless another shares its archive | 2 processes, 3 commands, 2 directories, 1 domain, user and template, 2 patterns, 2 providers, faults |
| `ServiceAccount` | does every returned token still live; is one token fetched once by a thread | 3 threads, life 5, buffer 2, answers up to 1 tick, 7 ticks |

Why the bounds are enough to meet the cases. A batch of two gives one that is abandoned whole or
in part, and a retry that another email overtakes; two retries give a retry of a retry. A limit
and a batch of one with three emails let a retry push the queue over its limit, and one email
more would break the bound. Two controllers give every race of start and stop. Three pids hold a
daemon, its successor and a program that reuses a pid; a daemon needs two at a time while it
forks. Two threads and two accounts give a call that waits for one about its own account and one
about another. Two emails give every collision of temporary files, and two seconds give sends
that collide and sends that do not; Mailgun and Postmark differ in the recipients they name and
in how they read a reply, and a Mailgun without its secrets is a client that is there but not
available. Two requests in two threads race for the counters, two callbacks give an event with
two listeners and a registration in the middle of a call, and the requests hold an event after
one that cannot be read. Six operations give a full window that moves on after a first send, and
a reset with everything that can be recorded before and after it. Three commands of two
processes, on top of what earlier ones left, give two on one file and a third that makes it
whole or reads what came of it, a provider added next to one and withdrawn again, and two
restores that share an archive's name; patterns of which one begins the other give a removal
that finds the wrong file. Three threads are one that assigns late, one that assigned before it
and one that copies; seven ticks see a token issued, expire and be replaced.

`MaxTokens`, `MaxTime`, `DelayCap`, `MaxRequests`, `MaxCallbacks`, `MaxOperations`,
`MaxCommands` and `MaxSecond` bound counters, `MaxCut` bounds what a failed write leaves; the
real window is 100; `Emails` bounds the calls. Behaviours that end (queue destroyed, shells
without commands to give) are allowed by `CHECK_DEADLOCK FALSE` where a configuration has it. In
`Sending` the owner can always reconfigure once no request is under way, so TLC's deadlock check
says only that no call gets stuck in a request.

Symmetry is declared only for sets whose members no definition tells apart, and not in the runs
of liveness.

Fairness. `EmailQueue!FairSpec` assumes that the operating system runs each thread
that can run, that the clock advances, and that the callback returns. The last is an
assumption about the mail server: curl is run without a time limit. No call has
to be made, and no wait ends by itself. `Daemon`, `ServiceAccount` and
`ConfigFiles` assume none: their properties are of safety. `TokenManager!FairSpec` lets each thread go on
whenever it can: its requests have a timeout; who gets a contended mutex is left open.
`Webhooks!Spec` lets each thread go on when it can; with finitely many requests
weak fairness is enough to get the mutex in the end.

## 4. Where the code and its documents differ

`PROJECT.json` quotes the lines. Runs end in a counterexample for 1 and 6; the
others are read off a definition of the model, and the properties of the passing
runs say what holds all the same.

1. `stop()` can miss a worker about to wait, and then never returns.
2. The backoff multiplies the current delay by 2^(n-1): 5, 5, 10, 40 s.
3. Overlapping starts make two daemons.
4. SIGTERM never ends a daemon: `g_running` is set and never read.
5. `getAccessToken()` with a token about to expire locks its mutex twice.
6. Two SMTP sends in one second share a temporary file.
7. The reports of the analytics lock their mutex twice (`analytics_simple.cpp:204`, `:246`).
8. An API call's latency is shown only for a provider something was sent with.
9. SendGrid's array of objects yields no events, and `processWebhook` returns true.
10. The file of a service account lies among the domains, so `validate-config` finds errors in it from then on.
11. A service account whose key has been copied can never be added again: `copy_file` throws.
12. Adding a provider that has a section runs all other sections together in one line.
13. `template-address-remove` may remove the file of a longer pattern.
14. Templates, OAuth2 and service accounts are written below `/etc`, removed and validated in the user's directory.
15. The configuration that is loaded is built in: what the command line writes never reaches a send.
16. `queue add` and `queue start` each have a queue of their own, which ends with the command.
17. The OAuth2 setup names a command that does not exist, and no other fills in a token.
18. The service account's token and its expiry are assigned without a lock.
19. A restore's archive of what it overwrites is replaced by that of the next restore in the same second.

Met while reading, without a run: Cc and Bcc are dropped by the SMTP path
(`smtp_client.cpp:345`) and by the queue (`email_queue.cpp:32`), Postmark and
SparkPost name the first To address only; SIGHUP sets a flag nobody reads;
`getFailedEmails()` is always empty, so the dead letter queue of `README.md:45`
holds nothing; the queue is not persisted, and `queue add` exits with its email unsent;
AUTO tries one provider and then SMTP, where `docs/diagrams/flow.md` tries
further providers; the retries that `docs/api/README.md:309` promises of the
unified mailer are in helpers that nothing calls.

## 5. Proofs

All theorems hold for every value of the constants that satisfies the assumptions
of their module, which TLC evaluates in the runs:

* `QueueAssumption`: finitely many emails, natural limits, a batch size above zero.
* `DaemonAssumption`: shells are not pids, and "no file" and "empty file" are neither.
* `TokenAssumption`, `WebhookAssumption`: "none" is no thread, account, token, file or number;
  natural bounds; requests and registrations of the right shape.
* `SendingAssumption`: finitely many emails, each with a To address; each provider has
  one name and at least one setting.
* `ServiceAccountAssumption`: an answer is quicker than the buffer, the buffer shorter
  than the life of a token.
* `ConfigAssumption`, `AbsentAssumption`: the two directories; earlier commands left
  files of domains; "no file" is no text, of lines or of pieces.
* `AnalyticsAssumption`: a window of at least one latency.

| Module | Theorem | What it states | Needs also |
|---|---|---|---|
| `EmailQueueProofs` | `TypeCorrect` | `TypeOK` | |
| | `WorkerOwned` | `OwnedWorker` | |
| | `EmailsAccounted` | `Accounted` | |
| | `ThreadUsedProperly` | `NoThreadFault` | one controller |
| | `StopLeavesNoWorker` | `NoWorkerAfterStop` | one controller |
| | `AttemptsCounted` | `AttemptsFollowRetries` | |
| | `AtMostOneDelivery` | `DeliveredOnce` | |
| | `QueueBounded` | `QueueBound` | |
| | `StatisticsTrue` | `StatisticsAgree` | |
| | `RetriesWait` | `RetryNotEarly` (of steps) | |
| | `FirstAttemptsInOrder` | `FifoWithinPriority` | |
| | `QueueImplementsDelivery` | `ImplementsDelivery` (refinement) | |
| `DaemonProofs` | `DaemonReachable` | `Reachable` | |
| | `OneDaemon` | `SingleDaemon` | |
| | `StopsAgree` | `StopHitsDaemon` | |
| `TokenManagerProofs` | `TokensPersist` | `Persisted` | |
| | `DeletionLasts` | `DeletionIsFinal` | |
| | `TokensNeverFallBack` | `TokensAdvance` (of steps) | |
| | `ManagerImplementsStore` | `ImplementsStore` (refinement; no run checks it) | |
| `SendingProofs` | `TwoCopiesAtMost` | `OneCopyPerTransport` | |
| | `NothingSentIsLost` | `SuccessIsTaken` | |
| | `RecipientsReached` | `CopiesReachRecipients` | |
| | `FilesHaveOwners` | `NoTempFileLeft` | |
| | `TextsMixWithinSecond` | `TextWithinSecond` | |
| | `CountsMatchResults` | `StatisticsAgree` | |
| `WebhooksProofs` | `CallbacksRunInOrder` | `CallbacksInOrder` | |
| | `TrueMeansAllRan` | `TrueIsComplete` (of steps) | |
| | `CountersAgree` | `CountsAgree` | |
| `ServiceAccountProofs` | `ReturnedTokensLive` | `GivenTokenLives` | |
| | `NoSecondFetch` | `FetchedOnce` (of steps) | |
| `ConfigFilesProofs` | `FilesHold` | `LastCommandHolds` | |
| | `FilesPass` | `ErrorsExplained` | |
| | `KeysThere` | `AccountKeyThere` | |
| | `RestoresSaveFirst` | `ExtractionIsSaved` (of steps) | |
| | `SectionsHold` | `SectionsTrue` | |
| `AnalyticsProofs` | `MetricsTrue` | `MetricsAgree` | |
| | `WindowHolds` | `LatencyWindow` | |

**Queue.** The first part of `EmailQueueProofs` proves one inductive invariant: types,
`OwnedWorker`, and `PlacesInv`, which ties an item's status to the place it is in
and to the worker's program counter. `Accounted` alone is not inductive: that
a verdict moves an email nobody else has needs the status of the head of
the batch at each program point. `OwnedWorker` is needed for the batch to
belong to one worker, since a second worker is what would break every other part;
it holds for racing controllers because assigning over a joinable thread ends the
process. Two theorems restrict to one controller,
whose program point determines `running` and `handle` (`ControlInv`). The
assumption is needed: with two controllers, TLC finds a start that races
with a stop and ends in a fault or a worker after a stop.

The second part adds the relation of attempts, retry count
and status (`SendInv`), and that the batch never holds more than the loop index
allows (`BatchInv`), from which the size bound follows. `ReadyInv` carries the test
made when a batch is gathered to the moment of the callback: no step takes time off an
item. `FifoInv` says that whoever is later than an untried email of its priority is
untried too, and in the batch only behind it. The refinement needs `CallbackInv` besides:
an email has no attempts while no callback is set. Each step of each thread is then a step in the
life of one email, the loss of a batch, or none.

**Daemon.** The PID file is no lock, so the proofs rest on who was alone. Of two that are under
way each has raced (`RacedInv`). A start that did not race has the file for itself from the
moment it opens it (`StartInv`), and once it serves, the file keeps new starts out and gives its
pid to every stop (`NamedInv`), at each of its readings. A stop that has not raced is all that
is under way, so that nobody writes the file between its readings: it holds the target or is
still empty, and only ends and reuses of processes come in between, which `Holds` follows to the
removal (`StopInv`).

**Tokens.** `HoldersOwn` makes the mutex exclude. Between a change in memory and the
end of its save a token differs from its file, and at no other time (`SavedOrSaving`).
A deleted account may be registered again, but without a refresh token, so no refresh can save one
for it (`DeletedStays`); tokens are numbered as they are issued (`TokensNumbered`).
The refinement hides threads, mutex, requests and the life of tokens: an account has the number
of its token, a torn file that of none. Only the owner of the mutex can be saving, so that one
account at most has a change that is not saved, and a save or a removal saves what is in use.

**Sending.** `StageInv` says what the copies of an email are at each point of its call.
`FileInv` says whose text a temporary file holds and who can have lost it, and `TextInv` takes
that to the copies: a file lacks the text of the call that goes on to curl only if it was cut or
another call opened it in that second. A file left by a killed call is truncated by the next
that has its name. `StatsInv` equates the counters of successes and fallbacks with, and bounds
those of failures by, the number of calls that ended, or fell back, in its way; that number
changes by the one call that takes a step.

**Webhooks.** `RunInv` and `KnownInv` are invariants of one thread: no callback is unregistered,
so a list of them only grows while the mutex is free. `CountInv` needs all threads: what one has
read of the failure count is no more than the calls that have returned `false` by the time it
writes.

**Service account.** One inductive invariant serves both theorems. The expiry is assigned before
the token, so that between the two it belongs to no token the object holds; `TimeFitsToken`
therefore speaks of the moments at which no thread is in between, and `AssignedSoon` carries the
time of each such thread: all were set in the present tick, in which they all must end, so
whichever token is assigned last is no older than `Timeout` (`AnswersAreYoung`) and fits the
expiry whichever was assigned last. `CopiesFresh` says that a thread on its way to the copy
still finds more than the buffer left. `FetchedFresh` says the same of every thread that has
fetched since the last expiry, which is why it does not fetch again.

**Configuration files.** A step changes only what its command is on (`Frame`), and what two are
on is muddled (`ShareInv`), so that other files keep their part of the invariant. `JobInv` says
what each command may hold at each step, `ArchiveInv` that an archive holds of a file what may
be put in its place again, and `PathInv` that a file which is not muddled is what was said of
it, but while it is being written. No text of a kind is longer than the one its command writes,
so a write over what another process left covers it. A key is copied before it is named, no
command removes it, and an archive that names it was made when it was there: hence
`AccountKeyThere`, of a file that is muddled too. Only a restore unlinks a key, to replace it;
until it has, and for good if it is killed there or fails, the key is among the muddled. What is
copied as a key is not looked at, so `ErrorsExplained` speaks, for keys, of the text that the
command was given: an error there is one of that text. `KeptInv` is for restores: a file that
the restore has yet to come to is in its archive. Proving it showed that the property as first
stated, without "unless another shares the archive", was false: TLC had not found the two
restores of one second within its bound. It does now, and the property says so.

`SectionsHold` has an invariant of its own on top (`ApiInv`): a file of providers that is
neither muddled nor being written is the sections of some sequence of distinct providers, which
are those it was said to have (`ApiOK`), and so is what an archive holds of it and
what a command that removes one is going to write. That sequence is what makes it inductive:
"each is listed and shown" says nothing of where lines begin, and a text with a line out of place
would lose a neighbour at the next removal. A section is eight pieces, so the
piece at a position of such a text, and with it the place of every header, is known by
arithmetic (`PlacesOfSections`) and no induction over the text is needed; `SectionAdded` and
`SectionRemoved` say that appending a section and cutting one out leave such a text. A section
that is put in place of another does not, and the file is muddled from then on.

**Analytics.** A sum over the providers is the number of pairs of a provider and a number up
to its count (`Units`), so that adding one to a count adds one element to a finite set
(`UnitsGrow`) and no induction over the providers is needed. `SumsInv` says that these sets are
finite and what the sums are; with it goes that each rate is that of its counts
(`MetricsOK`). `WindowMoves` is the step of the window: the oldest latency goes exactly when
it is full. The average is not unfolded: it is the one of the same latencies.

Every safety property that a passing run checks is proved. Only model-checked, because the provers
cannot do it:

* Liveness (`EveryEmailResolved`, `StopReachesBusyWorker`, `MutexReturned`, `CallsReturn`)
  and everything that takes `ENABLED`.

## 6. Not modelled, and why

* Logging, platform and utility code, argument handling, printing, and commands that only
  print: no behaviour beyond input and output.
* `ConfigManager`: a stub with three built-in domains, whatever the files hold.
* The SMTP socket and TLS dialogue (`connect`, `authenticate`, `sendEmailData`): `send()`
  does not reach it.
* Signing and encoding of a service account's request: pure functions of the key file.
* Rate limiter and mail templates: headers without an implementation.
* Recovery of the queue: it is not persisted. Starvation of low priorities: a
  consequence of the design that a finite instance cannot show.
* Plain members that a setter writes while the worker reads them
  (`email_queue.cpp:101`), the pointer that `getAccount()` hands out
  (`token_manager.cpp:269`), a client destroyed under a send by `removeAPIConfig()`
  (`unified_mailer.cpp:215`): undefined behaviour, of which no property short of
  "no caller does it" could be stated.

## 7. Plan

Done, in this order: `EmailQueue` with its abstract specification; its invariants proved;
`Daemon`; `TokenManager`; `Providers` and `Sending`; `Webhooks`; `Analytics`;
`ServiceAccount` with its proofs; `ApiConfig` and `ConfigFiles`; `Daemon` with overlapping
commands; proofs of every safety property that a passing run checks, and the refinements of
the queue and of the token manager.

Left: models of the SMTP dialogue, once something calls it, and of the loading of
configuration files, once something reads them.
