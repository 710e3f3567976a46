# A TLA+ model of the FactoryFlow batch-integration project (P01)

The repository is a Python project that registers batch files and announces them
on Kafka. Everything that runs is under
`projects/p01-batch-integration/src/factoryflow_batch/`; the directories of the
projects P02 to P06 hold no code. Paths below are relative to that package
unless they start with `docs/` or `sql/`, which are relative to
`projects/p01-batch-integration/`.

## Inventory

Three programs share one PostgreSQL database.

*The migration command* brings the schema up to a directory of SQL files, in one
transaction, under an advisory lock.

*Ingestion* inspects a CSV file, looks its idempotency key up in the registry,
copies the file into an immutable landing directory and registers a manifest. The
manifest and an outbox event are inserted in one transaction.

*The outbox publisher* claims due events in batches, publishes them to Kafka one
by one and records each outcome in the outbox table. Any number of publisher
processes may run.

| Component | State | Operations | Hard behaviour | What makes it correct |
|---|---|---|---|---|
| Outbox publication service, `application/publish_outbox.py`, `outbox_models.py` | the leased events of the current cycle | `run_once`: claim, then per event publish, reschedule or dead-letter | one lease for a whole batch; an exception abandons the rest of it; attempts counted per claim | outcomes belong to the attempt they are about; sends bounded by `max_attempts`; every event settled |
| Outbox store, `adapters/postgres_outbox_store.py`, table in `sql/migrations/001...` | rows: timestamps, attempt count, lease, last error | `claim_pending`, `mark_published`, `reschedule`, `mark_dead_lettered` | concurrent claims (`FOR UPDATE SKIP LOCKED`), stale owners, clocks of different processes | claims disjoint; only the current lease commits; terminal rows final |
| Retry backoff, `application/outbox_backoff.py` | none | `calculate_retry_delay` | capping, jitter, rounding | delay between half and all of the capped exponential |
| Kafka adapter, `adapters/kafka_event_publisher.py` | producer queue, delivery callbacks | `publish`: produce, poll until the report or a local deadline | late delivery after a timeout; callback of an abandoned call; a rejected receipt of a stored message | a receipt only for a stored message; failures classified |
| Publisher process, `entrypoints/publish_outbox.py`, `adapters/runtime.py` | stop request, pool | endless cycle or `--run-once`, signal handlers, exit codes | signals inside a cycle, between cycles and inside their own handler; failures end the process | no half cycle after a controlled stop; exit codes that are true; a stop request ends the process |
| Batch registry, `adapters/postgres_batch_registry.py` | manifests and outbox rows | `find_by_idempotency_key`, `register_if_absent` | two transactions insert the same key | one manifest and one event per key, in one transaction |
| Ingestion service, `application/ingest_batch.py`, `landing_keys.py` | none between calls | `execute`: inspect, look up, land, register | three external steps without a common transaction; retries; re-extraction of the same bytes | at most one batch per key; every registered manifest has its object; a retry completes |
| Landing store, `adapters/local_filesystem_landing.py` | landed objects, temporary files | `land` | two writers link the same key; crash at every step; durability of the directory entry and of a new directory | an object is never overwritten and is complete when visible |
| CSV inspector, `adapters/local_csv_inspector.py` | none | `inspect` | records, quotes, line ends and characters cut by the boundaries of read chunks; a file that changes while it is read | the result does not depend on the chunk size and is about one content |
| Schema migrations, `adapters/postgres_migrations.py`, `entrypoints/migrate_postgres.py` | the migration ledger | `run`: discover, lock, check, apply all in one transaction | runners with different files; files read before the lock is taken; a wait for the lock that is cut short; a commit whose answer is lost | a version is applied once, as it is recorded; drift is refused; a failed run changes nothing |
| Manifest, validation, JSON, idempotency key, `domain/`, `adapters/manifest_json.py` | none | constructors and conversions | `landed_at` must not be before `extracted_at` | a value that was accepted is accepted again when read back |

Interactions: ingestion writes the outbox row the publisher reads; publishers
meet each other only in the outbox table, through row locks and leases; the Kafka
adapter is called synchronously by the service, but the broker may act on its
messages at any later time, also after the process has exited. Signals reach the
publisher between any two instructions. Migration runs meet each other in the
advisory lock and the ledger; they touch no row of the other programs.

## What is modelled

| Module | Models |
|---|---|
| `OutboxDelivery` | the promise: the abstract specification of the outbox as the rest of the platform sees it |
| `OutboxPublisher` | the publishers, the outbox table and Kafka as the publishers meet it |
| `RetryBackoff` | the retry delay, as operators |
| `RetrySchedule` | the delays of one event from its first retryable failure to its last |
| `RetrySchedule_proofs` | the theorems about `RetrySchedule` and `RetryBackoff` |
| `MCOutboxPublisher` | constant values for the checks of `OutboxPublisher` |
| `OutboxPublisher_proofs` | the theorems about `OutboxPublisher` |
| `EventPublication` | the abstract specification of the port `EventPublisher`: every call is answered, a receipt means the broker has this message |
| `KafkaPublisher` | the Kafka adapter: calls of `publish()`, their callbacks, poll loop and deadline, and librdkafka's reports |
| `PublisherProcess` | the publisher command from start to exit code: cycles, idle wait, signals; extends `KafkaPublisher` and runs without a module of constant values |
| `PublisherProcess_proofs` | the theorems about `PublisherProcess` and the adapter in it |
| `BatchIngestion` | the abstract specification of ingestion: an artifact is accepted once, with its event, when it is stored |
| `LandingStore` | the landing directory and what the file system does to it |
| `BatchRegistry` | the tables of manifests and events as registration transactions see them |
| `IngestBatch` | executions of the ingestion command; extends `LandingStore`, composes it with an instance of `BatchRegistry` |
| `IngestBatch_proofs` | the theorems about `IngestBatch` |
| `MCIngestBatch` | constant values for the checks of `IngestBatch` |
| `Scan` | any machine that reads a sequence symbol by symbol, and the lemmas about all of them |
| `CsvInspector` | one inspection of a file that is read in chunks beside a writer |
| `CsvInspector_proofs` | the theorems about `CsvInspector` |
| `MCCsvInspector` | the contents, chunk sizes and changes for its check |
| `SchemaUpgrade` | the abstract specification of the schema: it moves from one whole repository to a larger one |
| `SchemaMigrations` | runs of the migration command on several hosts |
| `SchemaMigrations_proofs` | the theorems about `SchemaMigrations` |
| `MCSchemaMigrations` | the directories for its check |

Operators whose comment starts with *Mutant* are not part of a model. Each is a
mistake the code could have made; substituted for the definition it precedes, it
breaks one of the checked properties. `PROJECT.json` pairs them.

### OutboxPublisher

The row of an event is a family of functions on `Events`. `status` abstracts the
pair (`published_at`, `dead_lettered_at`) and the existence of the row; `owner` and
`expires` are `lease_owner` and `lease_expires_at`; `available`, `created`,
`attempts` and `lastError` are columns. Lease identifiers are successive naturals:
`uuid4` never repeats one. A worker has a program counter, its current lease, the
time it claimed at and the rest of its batch. `sendLog[e]` are the attempt numbers
under which `e` was handed to the producer, `stored[e]` those whose message the
broker stored; the code keeps neither, they record what Kafka has seen.

| Action | Code |
|---|---|
| `Register` | the outbox insert of `register_if_absent` |
| `LockCandidates`, `CommitClaim` | `claim_pending`: the statement selects and locks rows, the transaction commits |
| `EmptyCycle` | a cycle that claims nothing, and its idle wait |
| `Produce`, `RefuseMessage` | `publish` up to `produce()`; refused by its own checks or by the producer |
| `BrokerStores` | the broker, at any time after `Produce` |
| `Acknowledge`, `DeliveryFails` | the delivery report; an error, the local deadline, or a receipt that is rejected |
| `MarkPublished`, `Reschedule`, `MarkDeadLettered` | the outcome is written under the fence and the cycle goes on to the next event |
| `LoseLease` | the fence matches no row; the exception ends the process |
| `Abort` | crash, kill, failed database call |
| `Restart`, `Tick` | the supervisor; time |

Decisions a reader should know of:

- The claim is two steps, because its whole difficulty is what other processes do
  while its rows are locked. A row locked by an outcome statement is skipped or not
  according to whether that transaction is open: `LockCandidates` chooses.
- An outcome statement is one step. It waits for a claim that holds the row's lock,
  and PostgreSQL evaluates its condition again once the claim has committed.
- The commit of a database call whose confirmation was lost is the commit followed
  by `Abort`.
- The worker reads its clock and executes the claim in one step. The claim uses the
  value read, so a delay between the two makes the lease end earlier seen from
  everywhere; this is what `Skew` and outlived leases show as well.
- `publish()` fails retryably or not without the model saying why: the broker, the
  deadline and the receipt check can each produce both.
- Payloads, headers, topics, partition keys and the format checks on identifiers
  and dates are left out: no control depends on them for rows that the registry wrote.

Time is the `now` of a reference clock, and worker `w` reads `Skew[w]` ticks more.
`Tick` is enabled while some row waits for a later time, so that states differing
only in an irrelevant clock value are not explored.

### The properties

`PublishedAttemptIsStored`: an event is reported published only when the broker has the
message of its *last* attempt, in spite of workers that hold older attempts.
`AttemptsSentOnce`: the messages produced for an event have different attempt
numbers within `max_attempts`, so crashes cannot multiply the load on Kafka.
`DeadLetterReason`: the error code of a dead row is about its last attempt.
`SharedOnlyAfterExpiry`: two workers publish the same event only if a lease is over.
`TerminalRowsAreFinal`: no step, of a stale owner either, touches a settled row.
`ImplementsDelivery`: the whole refines the safety part of `OutboxDelivery`, with
`status` as its status and `stored` as its copies. `DeliversEventually`: it refines all
of it, so every registered event is settled.

### RetryBackoff and RetrySchedule

Durations are integers in the resolution of `timedelta`. The hash of an event and
its attempt is any fraction `r / Steps`. `TwoTo` is the power of two of the code's
`2 ** exponent`. `DelayInWindow` is what justifies the choice
of `RetryWindow` in `OutboxPublisher`'s `Reschedule`. `DelaysGrowBelowMaximum` and
`OutageIsBridged` relate the delays of successive attempts.

### KafkaPublisher and EventPublication

`OutboxPublisher` lets `publish()` succeed when the message is stored and fail when it
likes. `KafkaPublisher` shows that the adapter does no worse. A call stands in its
poll loop (`loop`); its message is in librdkafka and perhaps stored (`message[k]`);
librdkafka decides on a report (`report[k]`), which reaches the call's own callback
variables (`outcome[k]`) only inside a `poll()`, of this call or of a later one.

| Action | Code |
|---|---|
| `Refuse`, `Produce` | the event is refused before or by `produce()`; it is queued and the deadline set |
| `NotCompleted`, `TimeRemains`, `TimeOut` | the tests of `_await_delivery`, one step each, since the deadline may pass between them |
| `Poll` | `poll()` returns and has run some of the callbacks that were due |
| `Completed` | the error or the receipt of the call's own callback decides |
| `BrokerStores`, `ReportDelivery`, `TimePasses` | the broker, librdkafka and the clock, at any time |

A report is *confirmed* with the coordinates `_receipt` expects or *misplaced*; or it
is an error that may be retried or not. With `acks=all` a confirmed message is stored; one
whose delivery is reported as failed may be stored as well. `poll()` itself raises
nothing (no error callback is configured), and a callback has an error or a message.

`OwnReportDecides`: a call is decided by the report on its own message, also one served
by its very last `poll()`, and never by the late report on an abandoned call.
`ImplementsPublication`: the calls refine `EventPublication`.

### PublisherProcess

One process. `phase` is where its main frame stands, `handlers` the frames of
`request_stop` on top of it, since Python runs a handler between two instructions of the
main thread and a second one on top of the first. `stop` and `lock` are the flag and the
Condition's lock of the `threading.Event`: `set()` and `wait()` both take it and it
is not reentrant. `recorded` are the calls of `publish()` whose outcome is committed,
`exit` is the exit code on its way; the process starts with or without `--run-once`.

| Action | Code |
|---|---|
| `FailToStart`, `StartOnce`, `InstallTerm`, `InstallInt` | `main` up to the first cycle; the two `signal.signal` calls |
| `NextCycle`, `Claim`, `ClaimFails` | `run_once` begins, `claim_pending` |
| `DeadLetterUnpublished`, `DeadLetteringFails` | an event with its attempts used up |
| `BeginPublishing`, `ContinuePublishing`, `EndPublishing` | `publish()`, step by step as in `KafkaPublisher` |
| `Settle`, `SettleFails` | the outcome is committed, or the store fails: after a receipt this is the consistency error |
| `EndCycle`, `CycleAgain`, `FinishOnce`, `ReportFails` | the report, and what follows it |
| `EnterWait`, `Wait`, `NoWait`, `Wake`, `LeaveWait` | `Event.wait`, which takes, releases and takes again its lock |
| `StopSeen`, `RestoreTerm`, `RestoreInt`, `Close` | the loop ends, the `finally` clauses |
| `Interrupt`, `Set`, `HandlerReturns` | a signal, and `stop_requested.set()` in its handler |
| `KeyboardInterrupt`, `Killed` | a signal while its handler is not installed |

`unreported` says that a cycle has begun whose report is not written. A report that cannot
be written ends the process: by the clause for `ValueError`, with the configuration code,
when standard output is closed, and with a code no clause of `main` chose (`uncaught`) when
it is a broken pipe. Standard error is taken to be writable. What other workers do to the rows is in
`OutboxPublisher` and appears here as a store that fails, at the claim or at an outcome.

`ZeroMeansSettled`: exit code 0 says that every claimed event is settled, every call's
outcome committed and every cycle reported, whatever signals came.
`LostReceiptIsReported`: a message that was acknowledged and not recorded ends the command with the consistency code, or by a
signal that takes its code away. `PublishEnds`: a call ends also if its report is never
served. `StopEnds`: a signal that reaches the handler ends the process, *unless*
the handler waits for the lock a frame below it holds (the fifth finding).

### IngestBatch, LandingStore and BatchRegistry

A content (a member of `Contents`) stands for the bytes of a file, for their digest
and for the idempotency key: source system, dataset, date and schema version are
the same in all executions, so keys differ exactly when bytes do. An object is a
directory entry: the key and suffix in its path, the bytes it holds, its
modification time and whether the entry has reached the disk. `directory` is the
partition all these entries are in, with the directories above it: absent, created,
or created and on the disk. `copy[p]` is the temporary file of an execution. A manifest has
the fields that registration and the properties depend on. `source[f]` is the file
the command names, which can be written again at any time (`Extract`); these
extractions are the clock, since only their order relative to a landing matters.
The temporary file, and so the object that is linked to it, gets its time from the
file system of the landing zone, whose clock may be ahead or behind (`ClockErrors`).
Each ingestor runs `execute` for its file again and again; `created[k]` counts the
executions that reported a new batch for `k`, which the code does not keep.

| Action | Code |
|---|---|
| `Start` | the command, with the time its file was extracted at |
| `Inspect` | `LocalCsvInspector.inspect` |
| `FindNoManifest`, `FindManifest` | `find_by_idempotency_key` |
| `LookAtPath` | `land` up to `lexists`: it makes the directory and looks for the object |
| `CopySource`, `CopyDiffers` | the copy to a temporary file and the check of its digest |
| `LinkObject`, `LinkExists` | `os.link`, or the race for it lost |
| `SyncObject` | `_fsync_directory`, the receipt, and its comparison with the inspection |
| `VerifyExisting`, `RejectExisting` | `_receipt_for_existing` |
| `RefuseManifest` | the temporal rule in the constructor of `BatchManifest` |
| `InsertManifest`, `FindWinner` | `INSERT ... ON CONFLICT DO NOTHING`, and the select when it returns nothing |
| `CommitRegistration`, `Report` | the commit; the result returned to the caller |
| `Fail` | a crash, or an error of the file system or the database, at any point |
| `PowerLoss` | entries that were not synchronized may be lost, and a directory that is not on the disk with all its entries |

Decisions a reader should know of:

- Inspection and copy each read the file in one step. Both compare the file's identity,
  size and modification time before and after reading and fail when they differ,
  which is `Fail`.
- An insert that conflicts with an open transaction is disabled until that
  one ends: PostgreSQL makes it wait. With a conflict on anything but the key the
  code would raise; batch ids are fresh and a path contains its key, so it does not occur.
- All objects are in one directory, so one synchronization covers all entries of it, as
  on the real file system. `land` makes the directory with the ones above it, and
  synchronizes only the directory itself: what it made stays `"created"`, and only a
  restart that finds it shows that it was written. `FoundDirectories` says what a run starts with.
- The receipt of a new object carries the digest of the copy and the service compares it
  again, so other bytes in the copy would end the execution even if `land` did not look;
  what they would leave behind is the object.
- A commit whose confirmation is lost is the commit followed by `Fail`.
- The landing zone may hold an object somebody else put at a path (`Foreign`).
- `PowerLossSpec` adds `PowerLoss`; the other specifications leave it out, since
  without durable entries there is nothing to say about objects.

`OneBatchPerArtifact`: one manifest and one event per key, and batch ids unique.
`ResultsAreTrue`: however executions race, fail and are repeated, an artifact is
reported as new at most once and no success is reported without a manifest for it.
`ManifestsMatchObjects`: a manifest's place holds the bytes of its key with its landing
time, although other executions and the lost race came in between.
`LandedUnderOwnKey`: an object that appears has the bytes of its key, although the file
may be written again between inspection and copy; nobody could ever replace it.
`ObjectsAreImmutable`: no step changes or removes an object. `ImplementsIngestion`:
the composition refines `BatchIngestion`, so an artifact is accepted atomically with its
event and only while its object exists. `EventuallyRegistered`: a file that is not
extracted again is registered, whatever crashed before, unless its path is `Blocked`
by other bytes or by an older landing of its own bytes: an earlier one (see the third
finding), or one that a slow clock calls earlier.

### CsvInspector

A content is a sequence of named bytes: a letter, the delimiter, the quote, line feed,
carriage return, and the two bytes of an encoded letter. The inspector reads `chunkSize`
of them at a time; the incremental decoder, the text left over without a line feed, the
strict `csv.reader` with its states, and the loop over the rows are machines that take one
symbol after another: `Decoder` and `Reader` are instances of `Scan` for the step
`DecodeByte` and the step `ReadUnit`. The writer may change the file once, at any moment
between the first look at it and the last.

| Action | Code |
|---|---|
| `Open` | the file is open and `fstat` read |
| `ReadChunk` | a pass of `decoded_lines` over one chunk, and the rows its complete lines give |
| `EndOfFile` | the decoder's end, the last line, and a file that ends early |
| `Conclude` | `fstat` again, against the first and against the bytes counted |
| `Fail` | any refusal of the path or error of the system |

The generator hands out one line at a time and the reader pulls it; since nothing
else sees the state between two lines of a chunk, a chunk is one step. Every write
gives the file a new modification time. Python's buffer may hold a chunk before it is asked for; a write
in between makes the inspection fail either way. The byte order mark, other delimiters and
encodings and letter case are left out.

`VerdictIsTheContents`: an inspection accepts, counts and rejects what an inspection of
the whole content at once would, whatever the chunks cut. `DigestIsOneContent`: the
digest, size and count of an accepted file belong to one content it had all the time.

### SchemaMigrations and SchemaUpgrade

A file is its version, name, checksum and validity; a directory is a set of them, and
each run reads whichever its host has at that moment. `executed` and `inserted` are what
a run did inside its transaction; `ledger` and `history` what is committed: the
second is not in the code, it is what PostgreSQL has executed.

| Action | Code |
|---|---|
| `Start`, `RefuseConfiguration` | the command, its arguments and limits |
| `RefuseDirectory`, `Discover` | `discover_sql_migrations` |
| `Acquire`, `LockTimeout` | the advisory lock, or `lock_timeout` |
| `Verify`, `Drift` | the ledger is read and compared with the files |
| `Execute`, `Reject`, `Record` | a statement is executed or rejected; its row inserted or refused by the key |
| `Commit`, `CommitUnreported` | the transaction commits; nobody hears of it |
| `Interrupted`, `SessionEnds` | a failure or crash, whose lock stays until PostgreSQL ends the session |

`Record` keeps the wait for another transaction's row and the refusal by the primary
key although the lock makes both unreachable: without it they are what happens.
Whether the statements are sound SQL is one bit per checksum; statements that
end the transaction themselves are outside the model.

`LedgerIsHistory`: the rows are exactly the statements committed, no version twice.
`VerifiedStays`: what a successful run read stays installed as it read it.
`WholeUpgrades`: the runs refine `SchemaUpgrade`, so no part of a batch is ever visible
and a failed run leaves nothing. `AscendingUpgrades`: one commit's versions ascend.
`OverlapFailsOnlyWaiters`: a run can fail because of another one only while it waits for the
lock: whoever holds that longer than `lock_timeout` (10 seconds by default, while each
statement may take 300) makes the others end with exit code 4. A run that was given the lock
fails for a fault or a statement PostgreSQL rejects and for nothing another run does.
`RunEnds`: every run ends, also one that waits for a crashed runner's lock.

## What is checked

| Run | Question | Bounds | States |
|---|---|---|---|
| `publisher_one_event` | all safety properties, the inductive invariant, the refinement, settling | 2 workers, one clock a tick ahead, 1 event, lease 2, 2 attempts, delays 0 to 2, 2 faults | 127 thousand |
| `publisher_batch` | the inductive invariant with batches, and that every event of an abandoned batch is settled | 2 workers, 2 events, batches of 2, 1 attempt, 1 fault | 19 thousand |
| `publisher_process` | the adapter and the process with its signals | 2 calls of `publish()`, batches of 2, 2 signals | 271 thousand |
| `schema_migrations` | all properties of the migration command | 2 runners, 2 components, 8 directories, 1 fault | 182 thousand |
| `csv_inspector` | chunks and a concurrent writer, the inductive invariant | up to three units under three headers, chunks of 1, 2, 3 bytes, 1 write | 453 thousand |
| `retry_schedule` | the delays, the inductive invariant | bases 1, 2, 3, 5, maxima 3, 8, 13, 20, 5 retries, 5 fractions | 2 thousand |
| `ingest_batch` | all properties of ingestion | 2 ingestors of one file, 2 contents, 1 re-extraction, 2 faults, a foreign object or none, a directory or none, a clock on time or one tick behind | 508 thousand |
| `doc_exclusive_publication` | a documented claim that does not hold | 2 workers, 2 events, batches of 2, lease 1, 2 attempts | stops at the violation |
| `doc_attempt_limit` | a documented claim that does not hold | the same with 1 attempt | stops at the violation |
| `doc_identical_content` | a documented claim that does not hold | 1 ingestor | stops at the violation |
| `doc_synced_landing` | a documented claim that does not hold | 2 ingestors, power losses, a directory that is on the disk | stops at the violation |
| `doc_stop_signal` | a documented claim that does not hold | 1 call, 1 signal | stops at the violation |

`MaxTime` and `MaxFaults` are the bounds of the models. Two processes are what a race
needs. Two events are what a batch needs to be abandoned in the middle. Two
faults with two attempts reach a row whose attempts were used up by claims.
Lease 2 gives a tick at which a lease is neither new nor over. The safety theorems
below do not depend on any of these values. In the liveness runs of the publisher the
rows stop waiting long before tick 30, so the end of the clock plays no role: the
state count is the same with a later end. For ingestion, two contents and one
re-extraction let the file change to other bytes or stay the same between any two
steps, two faults let an execution and its retry fail, and a clock that is a tick
behind gives an object a time before the extraction of its bytes.

For the process, two calls let the report on an abandoned call arrive in a later one,
and two signals let a handler interrupt another. For migrations, the directories are the
stages of a repository of two versions and each mistake discovery or the comparison
looks for; two runners and one fault let a run die with the lock while the other waits,
and two components show that one lock serves all ledgers. For the inspector, a quoted
field, a doubled quote, a line end of two bytes and an encoded letter are at most three
units long, and chunks of one byte cut each of them everywhere.

Fairness of `OutboxPublisher` (`FairSpec`): a running worker takes its steps, a stopped one is started
again, time passes. The code loops until it is told to stop; its waits for Kafka, for a
connection and for the next cycle are bounded, and a database call that never
returns is taken to end as a lost connection does. The command is documented as a
continuous process that exits on a failure, so it runs under a supervisor. Nothing is assumed of the broker: it may
never store anything. A worker that lives on while its lease ends counts as a
fault like a crash, and faults are finitely many: a worker that is always slower
than its lease never settles anything, in the code as in the model.

Fairness of `IngestBatch` (`FairSpec`): an execution takes its next step, and the
command is started again. Every call in it ends, and the retry of the command is
what its key, its deterministic path and `deduplicated` exist for; faults are
finitely many. Nothing is assumed about extractions.

Fairness of `PublisherProcess` (`FairSpec`): the main thread takes its next step, for every
call in it returns (`poll()` and the idle wait have time limits), and the clock reaches
a deadline. Nothing is assumed of the broker, of librdkafka's reports or of signals. A
handler that waits for a lock is disabled, not unfair. The process stops: deadlock is not checked.

Fairness of `SchemaMigrations` (`FairSpec`): a running command goes on; PostgreSQL ends the
session of a dead client (TCP keepalive, or the backend's next write) and hands a lock
to its waiters in the order they came, so a waiter that sees it free again and again
gets it (strong fairness of `Acquire`). Nobody has to start the command again.

`CsvInspector` has no liveness property: a file that is written once is read to its end.

Five documented statements do not hold.

- `ports/outbox.py:11` calls a leased event "claimed exclusively for one publication
  attempt". The lease is not looked at after the claim, and its length is
  unrelated to the delivery timeout (both default to 30 seconds, for up to 100
  events published in sequence): two live workers can be publishing the same event.
  What does hold is `SharedOnlyAfterExpiry`; the fence decides whose outcome counts.
- `docs/kafka-outbox-publisher.md:87,106` describe `max_attempts` as "maximum
  publication attempts". `attempt_count` counts claims: an event can be
  dead-lettered with `attempt_limit_exceeded` without ever being handed to the
  publisher, when its batches were abandoned before its turn.
- `docs/local-csv-ingestion.md:90`: "Identical content is treated as a successful
  retry." An execution interrupted between landing and registration leaves an object;
  when the same bytes are extracted again, the retry adopts it with its old
  modification time and `BatchManifest` refuses a `landed_at` before `extracted_at`.
  So does every later retry: nothing removes the object.
- `docs/local-csv-ingestion.md:54`: "Synchronize the destination directory after
  publication." Only the process that made the link does. One that finds the
  object in between, or after its writer died there, registers a manifest whose object
  a power loss can still remove, which is what replay depends on
  (`docs/batch-manifest-v1.md:8`). There is a second way to the same loss, which the run
  leaves aside by starting with a directory that is on the disk: `land` never synchronizes
  the parents of a directory it makes, so the first objects of a new partition can be gone
  with the partition.
- `docs/kafka-outbox-publisher.md:155`: the continuous mode "reacts to `SIGINT` and
  `SIGTERM`". The handler calls `set()` on the `Event` the main frame may be just
  entering or leaving `wait()` on, or another handler `set()`: if that frame holds the
  lock, the handler waits for a frame it is on top of, for ever. `StopEnds` says
  that this is the only way a request is lost. (The other four are statements the
  documentation could be corrected for; this one is a defect.)

## What is proved

`OutboxPublisher_proofs` proves, for every set of workers, every set of events, every
policy the code accepts and every skew of the clocks, that the specification
implies each of `TypeOK`, `PublishedAttemptIsStored`, `AttemptsSentOnce`,
`DeadLetterReason`, `SharedOnlyAfterExpiry`, `TerminalRowsAreFinal` and
`ImplementsDelivery`. The assumptions are those named in `OutboxPublisher`: event ids
are naturals, the policy is one `OutboxPublicationPolicy` accepts (without its upper
limits), clocks are ahead by naturals.

None of the properties is inductive. The invariant `OutboxInv` adds what a reader of the
code has to know to believe them:

- `LeasesAreUnique`: no two cycles have the same lease, so the fence identifies a claim.
- `ClaimInProgress`: while a claim is uncommitted its rows are pending, unowned or
  expired, and the attempt number it read is still the next one.
- `ClaimHeldOrLost`: afterwards each event of a batch is either still the worker's,
  with the row as the claim left it, or it was claimed again after the lease was over,
  and then the row's attempt count is above the worker's.
- `AttemptsAreExclusive`, `SendsMatchProgress`, `LogIsConsistent`: an attempt number of
  an event is in one worker's hands, was not sent before its turn, and a receipt is
  for a stored message.
- `RowsAreConsistent`: rows that are not pending have no lease.

The proof has a lemma per action (actions with the same effect share one), and the
steps that let go of a batch or go on to the next event have lemmas of their own.
`RowSteps` says what one step can do to a row; the action property
and the refinement follow from them.

`IngestBatch_proofs` proves, for every set of ingestors, files, contents and foreign
objects and whatever the clocks show, `OneBatchPerArtifact`, `ResultsAreTrue`,
`ManifestsMatchObjects`, `LandedUnderOwnKey`, `ObjectsAreImmutable` and
`ImplementsIngestion`, from `FilesAssumption` (each ingestor has a file, there is some
content) and `LandingZoneAssumption` (foreign objects are at different paths). Its
`IngestInv` adds to the types:

- `PartitionExists`: an execution that has looked at its path, and every object, find the
  directory there.
- `CopiesAreVerified`: a temporary file has the inspected bytes, and is there from the copy
  to the receipt.
- `OnePerPath`: a directory has one entry per path.
- `ReceiptsAreTrue`: from the link or the verification to the end of an execution, the
  object it wants to register is there with the bytes and time of its receipt.
- `OpenTransactions`: a transaction is open exactly between insert and commit, for the
  manifest the execution built.
- `TransactionsAreDisjoint`: open transactions conflict with no committed manifest
  and with no other open one.
- `CreationsAreOwn`: who stands between commit and report is the only one, now and
  ever, to report the key as new; a running execution has no result yet.

Here the proof goes by conjunct: each part of the invariant has a lemma, which
treats the few actions that can disturb it and lets the rest go by the lemmas
about what a step leaves alone (`OthersUntouched`, `BytesStay`, `RegisteredStays`).

`CoreInv` is `IngestInv` without `ManifestsMatchObjects`. It is inductive under power losses
too, so `PowerLossSpec` implies `OneBatchPerArtifact`, `ResultsAreTrue` and `LandedUnderOwnKey`.
`ManifestsMatchObjects` is what a power loss can break, and `LossHasTwoCauses` says by what.
`CarefulSpec`, in the module of the proofs, allows every step and every power loss, except
that an execution verifies an existing object whose entry nobody has synchronized
(`AdoptsUnsynced`), or registers a manifest while the directory it or another execution made
is not known to be on the disk (`RegistersInNewDirectory`). There `ManifestsMatchObjects` holds,
because every receipt is about a synchronized entry and every manifest about a synchronized
entry in a durable directory (`DurableInv`). So the documented promise lacks two things: a
synchronization in `_receipt_for_existing`, and one of the directories above a partition
that may be new, by whichever execution registers in it. One of the two is not enough:
each cause alone can lose an object.

`PublisherProcess_proofs` proves, for any number of calls, any batch size and any number
of signals, `ProcessInv`, `ZeroMeansSettled`, `LostReceiptIsReported`, `OwnReportDecides` and
`ImplementsPublication`, from `CallsAssumption` and `ProcessAssumption`. The adapter comes
first, by itself: `KafkaInv` is inductive for `KafkaNext`, with `ReportsAreTrue` (a callback
has stored what was reported on its own message, and a confirmation is true) and
`OneCallOpen`. Then `ProcessIsKafka`: each step of the process is one of the adapter or
leaves it alone, so the adapter's theorems hold inside the process. The exit codes
need `SettledSoFar`: the calls whose outcome is committed are all calls but the one in
hand, in every phase and under every signal.

`SchemaMigrations_proofs` proves, for any runners, components, directories, rejected
statements and number of faults, `MigrationInv`, `LedgerIsHistory`, `VerifiedStays`,
`WholeUpgrades`, `AscendingUpgrades` and `OverlapFailsOnlyWaiters`, from the assumptions that
versions are naturals and that the lock's two special values are no runners. `MigrationInv` adds,
per run, that a run in its transaction holds the lock, that what it read from the ledger is
what the ledger is now (so nobody committed in between), that all it executed is lower
than all that is pending, and that it has a row for each statement but the last. The
lemma `LockProtects` carries it over the steps of the others, `CommitCompletes` shows
that a commit makes the ledger equal to the files, and the refinement follows.

`Scan` is about a machine with any step: if `From(s, q)` is the state after the sequence
`q` begun in `s`, then `From(s, q \o t)` is `From(From(s, q), t)` (`FromConcat`), a set of
states closed under the step is not left (`FromKeeps`), and two states that are related
and stay so symbol by symbol end related (`FromSimulates`). These are inductions. The
library's induction theorems take a predicate as a parameter; the lemmas
`NatSetInduction` and `SeqSetInduction` are about a *set* that has 0, or the empty sequence,
and every successor, and follow from the theorem that a well-founded relation has minimal
elements. The step is a constant of the module, which an instance gives a value.

`CsvInspector_proofs` proves, for every set of contents, every change a writer can make
and every chunk size but 0 (`ContentsAssumption`, `ChunksAssumption`), `InspectionInv`,
`VerdictIsTheContents` and `DigestIsOneContent`. Decoding, splitting and reading are each
shown to go in parts. The decoder hands over whether a character is open. A text is in only one
way the lines up to its last line feed and a rest without one, so the rest of a chunk,
put before the next, gives the lines of the whole. The reader hands over its state,
and once it has refused it stays so. `ReadInParts` joins the three. The
invariant is then:

- `ReadIsBeginning`: what was read of an unchanged file is its beginning.
- `ReadAsOneChunk`: decoder, rest and reader are what one chunk of all that was read leaves.
- `EndedIsWhole`: after the end of the file, what was read is a valid whole, and the reader
  has read it as such.

A verdict of the whole content is therefore the verdict of the parts, and a file whose
beginning is refused is refused as a whole (`RefusedBeginning`).

`RetrySchedule_proofs` proves, for every base delay, maximum, number of attempts and
resolution of the hash the code accepts (`ScheduleAssumption`), `ScheduleInv`, `DelayInWindow`,
`OutageIsBridged` and `DelaysGrowBelowMaximum`. `TwoTo`, a recursive function, is shown to be 1 at 0
and to double, with `NatSetInduction` and `Scan` with doubling as its step; rounding keeps
a quotient between the whole numbers it lies between (`RoundedBetween`), and the rest
is arithmetic on the sums of the delays so far.

Only model-checked: liveness, that is `DeliversEventually`, `EventuallyRegistered`,
`PublishEnds`, `StopEnds` and `RunEnds`. Each needs fairness of actions and so what is enabled in a
state, which the temporal prover does not reason about. Every other property that a passing
run checks is a theorem. The five documented statements are refuted by a run each, and
a refutation needs no proof.

## What is not modelled

- Rows the store cannot decode. `_event_from_row` runs after the claim has committed, so
  a row that violates the contract would end the process with its batch leased, again
  and again until the other rows' attempts are used up. Only the registry writes the
  rows, and it writes valid ones; `ClaimFails` has the exit code, not the persistent row.
- The manifest as data: its format checks, its JSON form and the text of the idempotency
  key (`domain/`, `adapters/manifest_json.py`). They are pure checks of names, dates and
  URIs and field-by-field conversions. What control depends on is in the models:
  the temporal rule, and the key as a function of the bytes.
- SQL, JSON and URI syntax, regular expressions on names, argument parsing, logging and
  connection pools. They are input checks or I/O without state of their own; each
  appears as the refusal or failure it can cause.
- The order of versions across runs with different directories: a version below an
  installed one is executed when its file first appears, and nothing in the code or
  its documentation says otherwise.
- Two files of the same bytes under different names: the theorems about `IngestBatch`
  hold for any files and suffixes, the runs have one file.
