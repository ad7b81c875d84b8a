# Formal models of the document classification service

TLA+ modules for the parts of this repository that run concurrently and fail
half-way, the TLC runs that check them on small instances, and theorems that
TLAPS proves about them for instances of any size.

Paths below are relative to the repository's root. The service itself is in
`src/`, the web UI with its API routes in `ui/`, the convert worker in
`worker/`, the queues and tables in `infra/`.

## The system

An upload is classified (detection in three tiers, a score, a category, a
slipsheet decision), deduplicated by the hash of its bytes, and reported: by the
Lambda (`src/handler/lambda.ts`) to a Step Functions task token, or by the UI's
classify route (`ui/app/api/classify/route.ts`) to the browser, with a row in the
`classifications` table. Documents of category *convert* are handed to a queue;
replicas of the convert worker drive the external office-convert service and
write the outcome into the row. A CronJob calls the watchdog route every five
minutes, which fails rows that hang.

| component | state it keeps | operations | talks to |
|---|---|---|---|
| classify route (`ui/app/api/classify/route.ts`, `ui/lib/runs.ts`, `ui/lib/stats.ts`) | the request under way; the run row it creates | classify, dispatch, record the run | service (call), convert queue (message), table (put) |
| convert queue (`infra/lib/convert-queue-stack.ts`) | messages, receive counts, visibility timers, DLQ | receive, delete, redrive | workers |
| convert worker (`worker/src`) | the message in hand | parse, mark converting, convert, mark done or failed, delete | queue, table (conditional updates), office-convert (HTTP) |
| watchdog route (`ui/app/api/admin/convert-watchdog`) | the rows of one run | scan, conditional update | table |
| deduplication (`src/application/ClassificationService.ts`, `src/adapters/dynamo-content-hashes`) | one record per workspace and content hash | get, putIfAbsent, replaceOnPolicyMismatch, updateOnDuplicateHit | table, read eventually consistently |
| Lambda handler, task callback (`src/handler/lambda.ts`, `src/adapters/step-functions`) | the task token | classify, archive dispatch, SendTaskSuccess or SendTaskFailure, throw | Step Functions, archive queue |
| workspace configuration (`src/adapters/dynamo-workspace-config`) | one configuration per workspace, with its policy version | get; edited by administrators | table |
| detection, scoring, categories, slipsheets (`src/domain`) | none: pure functions | detect, score, map, decide | called by the service |
| provisioning (`ui/lib/classifier.ts`) | a memoised promise per process, and the calls of failed attempts | create bucket, tables and queues, seed the default workspace | LocalStack |
| settings pages (`ui/components/AdminConfig.tsx`, `SeedConfigForm.tsx`, `ui/app/api/workspaces`) | the draft on the page; the row of a workspace | load, save | UI process (HTTP), table (whole puts) |
| transfer page (`ui/components/wizard`) | the list of files, one loop per click | add, remove, classify all, step, leave | classify route (HTTP) |
| readers of the row (`ui/app/api/stats`, `ui/app/api/runs`, Monitor, Documents, the wizard's second step) | the rows last shown, polls under way | poll, presign a download, proxy progress | table (consistent query, get) |
| statistics (`ui/lib/stats.ts`, `ui/lib/email-extractions.ts`) | counters and a bounded list in memory | record, snapshot | classify route |

What is hard: the claim is on the queue before the row is in the table; queue
deliveries are at least once and overlap; every SDK call may fail, or succeed
and lose its answer; workers are killed during half-hour conversions; three
timeouts have to be in the right order; the watchdog acts on what it scanned a
moment ago; deduplication reads stale replicas, compares versions it read long
before, and is run again after failures; several UI processes provision one
LocalStack at once, which forgets everything when it restarts; pages poll without
waiting for their last poll, and loops of the transfer page outlive it.
`PROJECT.json` lists these hazards one by one, each at its line.

What makes each part correct:

* conversion: "done" only over a complete PDF, as long as two workers are not busy
  with one document; no row out of nowhere; a claim
  acknowledged only once its outcome is recorded; the watchdog touches only rows
  that are past the cutoff at that moment, never a first conversion; deliveries of a
  claim overlap only at the visibility timeout; claims and rows do not hang;
* deduplication: no answer without a record; no hit lost; a record's first
  document is never taken over; a duplicate has an original; who is refused has
  lost against a refresh, if only its own; the record only sees the operations it is there for;
* task callback: each token ends with what its own attempt found; an archive is
  handed over before it is reported; trouble with its queue repeats the claim at most,
  never the attempt; a handler
  that returns leaves no token open; tasks end;
* provisioning: who takes it for done is right; seeding undoes an administrator's
  edit once per process at most; attempts and requests fail for a cause, nobody waits
  for a promise that is not settled, and retries succeed;
* transfer page: one request at a time, one document per file, nothing shown as under
  way that is not, no loop hangs;
* readers: a document the browser was told of is in the list, unless newer ones have
  pushed it out; pages catch up with the rows;
* pure decisions: nothing goes on that a rule is against or no consumer knows;
  settings that allow more hold nothing back; hints leave alone what the detection
  settles without asking for them.

## Modules

    RunLifecycle         what readers of a run row may rely on (abstract)
      ^ implemented by
    ConvertPipeline      route + queue + workers + watchdog + row
      ConvertPipeline_proofs, MCConvertPipeline
    HashRecord           what happens to the record of one content (abstract)
      ^ implemented by
    ContentDedup         classification tasks racing on one content hash
      ContentDedup_proofs, MCContentDedup
    Classification       detection, score, category, slipsheet decision
      Classification_proofs, MCClassification
    TaskCallback         the Lambda handler, its task token, the archive fan-out
      TaskCallback_proofs, MCTaskCallback
    WorkspaceSettings    provisioning, its waiting requests, the default workspace's row
      WorkspaceSettings_proofs, MCWorkspaceSettings
    TransferWizard       the transfer page, its loops and requests
      TransferWizard_proofs
    RunFeed              record a run, poll it; workers and watchdog are any move of
      RunFeed_proofs     the row among converting, done and failed

`Classification`, `ContentDedup` and `TaskCallback` are three views of one call of
the Lambda: what `classify` decides, what its deduplication does to the table, and
what the handler makes of the result. Each leaves open what another one says.

The state modules hold the definitions marked "Slip" next to the definition they
vary: plausible mistakes (a condition forgotten, a comparison turned round) that
are used by no action, and that each property was checked to notice.

### ConvertPipeline

One row per document and a few copies of its claim. The variables and where
they are in the code:

* `route`, `dispatch`: where the classify request is, and `convertDispatch`;
* `row`: the convert attributes of the row. `age` counts from `convertStartedAt`
  (-1 when unset), `key` is `convertS3Key`, `error` the class of `convertError`;
* `msg`: the queue's view of each copy (state, receive count, visibility timer).
  Copies are "sent", "resent" (the SDK's second attempt after a lost answer) and
  "manual" (an operator's, see `deploy/CONVERT_OBSERVABILITY.md`);
* `worker`: the program counter of one replica's `processOne` and `handle`, the
  receive count it was given, and how long its conversion call has lasted;
* `pdf`: the output object is there, and whole. office-convert writes it as it streams
  the response, so that a call that is given up, or whose worker dies, leaves a whole
  one, the old one, or a truncated one (`LeavesAnyPdf`);
* `contended`: history, the documents that two workers have been busy with at one time;
* `batch`: rows the running watchdog has still to update;
* `faults`, `crashes`: what has gone wrong so far, bounded.

Every await of the code is a step boundary. A conditional `UpdateItem` is one
action (`Update`) with three ends: carried out; refused by its condition; an
error, behind which the write may or may not have happened. The order of the
route matters and is kept: `Dispatch`, then `RecordRun`.

Time is counted in ticks of about five minutes. SDK calls are short, so `Tick`
waits for them (`Prompt`); a conversion call may take up to `CallTimeout` ticks
and is then aborted. Counting starts after `markConverting`, as `setTimeout` does.
`age` stops one past the cutoff: older rows behave alike.

Two workers that are busy with one document write to one object. The call that one
of them gives up may truncate what the other has written, and whose row says "done":
`DoneHasPdf` leaves contended documents out, and says that nothing else truncates a
PDF under a done row. One thing is assumed for this: office-convert stops writing when
its call is given up, since it writes as it streams. `RunLifecycle` has the same
exception, by the steps `Contend` and `Truncate`.

The queue moves a claim to the DLQ when it would be received for the
(`MaxReceive`+1)th time. A delete through the receipt handle of an earlier
receive may or may not delete (SQS promises neither). The CronJob's
`concurrencyPolicy: Forbid` is why one watchdog runs at a time.

### ContentDedup

One (workspace, content hash) key; other keys never meet. `table` is the item,
`older` the values an eventually consistent `get` may still return, `policy` the
policy version in the workspace's configuration, `req` the tasks with the
version they read, the timestamp they took and the item they saw; `expired`
remembers that the TTL has deleted a record. `Write` is one attempt at a
conditional write, which without an answer is sent again by the SDK or given up;
a task given up fails, or is invoked again from the beginning (`GiveUp`). So is a task
that has its answer, when the signal to Step Functions fails or the function is killed
(`Reinvoke`); `written` and `reinvoked` are the history the properties need: who has
stored a record of which version, and how often a task ran again after its end.
Configuration, `get` and write are separate steps, because the content is
streamed and hashed between the first two. `HashRecord` is the record as its readers
see it: created, counted up, refreshed as a whole for another policy version, expired;
`RecordOperations` says that the racing tasks do nothing else to it (`Visible` leaves
out `lastSeenAt`, which a slower hit sets back).

### Classification

The pure part of `classify`, in its order: `DetectInSequence` (six detectors, the
first that answers wins), `Score`, `SubCategory`, `Decide`, `Build`. The tables of
`src/domain` are sets and functions over format names. A file is what the
detectors can tell of its first 4100 bytes: a signature of its own, an OLE2
container with the class of its root storage, a ZIP with the entries seen, text
with the patterns that match, or bytes nobody knows. Parsing those bytes stays
outside: which patterns match is free. A hint may be empty or a lone dot, which
counts as an extension and names an empty format (`ByExtensionOnly`).

Most properties compare two classifications of one file, so the state is a file,
a request and the last output, and every action classifies again with one thing
changed: hint, key suffix, content type, archive depth, or the settings of the
workspace. Scores are sums of doubles; of the sums the tables can reach, `Above`
and `Below` list those that miss the decimal value, and `Rounding` moves them by a
thousandth, which is enough to tell on which side of a two-decimal threshold they
fall.

### TaskCallback

One task of the state machine and its attempts, each with a token and an
invocation of its own. `token`, `pc`, `found`, `claims`, `trouble` are per attempt:
what became of the token, where the handler is, what `classify` returned, how many
claims its archive has on the queue (the SDK sends up to three, `SendAttempts`), and
what went wrong outside the code. An
invocation whose attempt has timed out runs on, next to later ones. `Signal` is
one SendTaskSuccess or SendTaskFailure: taken, refused because the token is
settled, or answered by an error behind which it may have been taken. The catch
block reports UNEXPECTED_ERROR on the token and throws all the same, so Step
Functions often knows of the failure before the invocation ends.

Errors of S3 keep their cause, since two tables sort them: `MapS3Error` for the
first window, `ClassifyStreamError` for the stream that is hashed. The state
machine is not in the repository; after a failed attempt it tries again or gives
up, whatever the error.

### WorkspaceSettings

`ensureResourcesProvisioned` and what depends on it. Per process: `memo` is
`provisioningPromise` (unset, running, settled), `call` how far each of the calls
that run in parallel has come, `late` the calls that an attempt has left running
when one of its siblings failed (`Promise.all` rejects at once and cancels
nothing), `fresh` whether LocalStack has kept its state since the attempt began.
`store` and `row` are what LocalStack holds. `Check`, `Create` and `Seed` are the
SDK calls; `Failed` is the `catch` that forgets the promise and rejects all who wait
on it. A request (`Classify`, `Load`, `Save`) starts an attempt or joins the one
under way, is admitted when the promise settles, and ends with one read or put of
the row, whole and without a condition. `WipeLocalStack` and `KillProcess` are
restarts; a creation that is on its way arrives all the same.

### TransferWizard

`status` is the list of step 1; a file that is removed, or left behind with the
page, is "removed". Each click starts a loop (`loop`) over the list as it was:
`Sends` takes the next file or ends the loop. A request passes through "uploading"
and "classifying" and is answered (`Answered`) or breaks (`NetworkError`), behind
which the server may go on (`behind`, `GoesOn`). `documents` and `lost` count what
the server has made of each file and the answers that did not arrive. `stray` is a
ghost: a file has been taken away from a loop that still runs, by `RemoveDoc` or
`Leave`, so that the list no longer shows the loop and the button is not disabled;
`doubtful` are the files sent while that was so.

### RunFeed

`Stamp`, `Record` and `Answer` are the end of the classify route: `runTs` is taken,
the row is put, perhaps a second time after a lost answer (`RecordAnswerLost`), and the
browser is told. `Convert` is what workers and watchdog do to a row: any move among
converting, done and failed, whatever the route knows of a claim. `Expire` is the
table's TTL. `Recent` is `queryRecentRuns`, the newest `Limit` rows by `runTs`; a query
that fails gives an empty list. A page has up to `MaxFlights` polls under way, answered
in any order (`Poll`, `Shows`, `PollLost`); the wizard drops them when its pace changes,
and shows the rows of its own batch. `View` is the status a page shows. The link to the
PDF is left out: whether a row that says "done" has its PDF is `ConvertPipeline`'s.

## Runs

Bounds are in the `.cfg` files. The tick constants keep the deployed order:
visibility 30 min = HTTP timeout 30 min < cutoff 35 min becomes 2 = 2 < 3.
`MaxReceive` is 2 for the deployed 3: one redelivery and the move to the DLQ are
all a claim's history needs.

| run | question | answer |
|---|---|---|
| `convert_safety` | one document, claim sent twice, two replicas, two faults, a crash, calls given up in mid-stream: are the row's promises kept? | yes, but for documents in two workers' hands; deliveries overlap only at the visibility timeout, and the pipeline implements `RunLifecycle` |
| `convert_kinds` | DWG uploads and malformed claims, some sent by hand, a fault and a crash, and no call to office-convert: do claims leave the queue? | yes, under fairness |
| `convert_liveness` | a conversion with two replicas, calls and deletes that fail, two faults and a crash: do rows leave "converting", and claims the queue? | yes, under fairness |
| `convert_scan_page` | does the Scan's `Limit`? | **yes**: it counts rows before the filter, and the next page is never read |
| `convert_queued` | does a queued row move on? | **no**: a worker faster than `recordRun` drops the claim |
| `dedup_safety` | two uploads and an override race across a policy change, TTL, stale reads, and one fault or task invoked again after its answer | answers are recorded, hits counted up to what was repeated, originals go through, who is refused has lost against a refresh; `HashRecord` is implemented, so first documents are kept |
| `decisions` | each kind of file, each hint, content type, depth and setting, and each changed in turn | nothing goes on silently, and a change has no effect it should not have |
| `callback` | two attempts, three faults among lost signals, refused or repeated dispatches, kills and timeouts | each token ends with what its attempt found, archives are handed over and trouble with their queue makes no attempt, tasks end |
| `callback_throttled` | is trouble with S3 always retried? | **no**: while streaming, throttling is taken for a verdict |
| `provisioning` | two processes, one page, a failed call with its late siblings, a killed process, a wiped LocalStack | who trusts the provisioning is right, edits are overwritten once per process at most, requests fail for a cause, retries succeed |
| `wizard` | three files, three clicks, a lost answer, while files come and go and the page is left and reloaded | one request at a time, one document per file, no loop stops half-way |
| `feed` | a conversion and a plain run, written, expired, polled by a page with two polls under way and an error | what was told is listed, pages catch up |

The runs in bold are expected to find a violation. Each states what a comment
or a design document says, and `PROJECT.json` ("findings") quotes it:

* `convert_scan_page`: two rows and a page of one stand for a table of more than
  200 rows. The first row is no conversion; the second is stuck and never seen.
* `convert_queued` needs no fault: dispatch, receive, `markConverting` refused,
  delete, and only then the put of the row. Nothing looks at queued rows.
* `callback_throttled` needs one attempt and no other fault: S3 is busy when the
  content is streamed, `classifyStreamError` calls it unknown, and the handler
  sends INTERNAL_ERROR and returns. `mapS3Error` would have called it throttled.

Also seen while reading, without a run of their own.

In the pipeline: the HTTP timeout of a conversion and the visibility timeout of its
claim are both 30 minutes, and the latter starts first, at the receive; a conversion
that lasts is redelivered while its worker still waits for it, and two replicas
convert one document, where the helm values of the worker (`values.yaml:48-50`) say
that "never both at once" happens; `OverlapOnlyAtVisibility` is what holds instead.
When one of the two calls is then given up, by its timeout or the end of its worker, it
may truncate the PDF behind a row that the other has marked done, as the comments of
`office-convert-client.ts` (:7-10, :96-98) fear of an early end of the stream.
`markConverting` writes no request id (it comes with office-convert's response), so
that the progress route has nothing to ask about during a first conversion and follows
the call that ended before on a later one, where its comment at :15-16 has the worker
write it "when it starts the call". The watchdog's clock counts from the first
delivery (`if_not_exists`), so that from the second delivery on it may fail a row
whose conversion is alive, where the comment at the watchdog route's :23-24 speaks of
"no SQS message left to redrive"; a late "done" then follows its "failed". A late or
repeated put of `recordRun` resets a row the worker already moved on; a finished row
goes back to "converting" on redelivery; the DLQ alarm promises a failed row that may
still be queued; malformed claims are deleted, never moved to the DLQ; a DWG row is
failed without `convertError`; a failed row may name the request of an earlier call
(`markFailed` keeps the id when the response has none); with no queue configured a row
gets no `convertStatus`, where `ui/lib/classifier.ts:190-191` says "queued".

In deduplication: a task that is invoked again after its record was written (the
put's answer was lost, SendTaskSuccess failed, or the function was killed before it) is
a duplicate of itself, and a duplicate that is invoked again counts a second hit, where
BR-3-RT-4 of the handler (business-rules.md:120-125) calls the retry safe. No document
of such a content need go through as the original; `OriginalGoesThrough`, `HitsCounted`
and `RefusedForACause` say that this takes a lost call or another invocation, of the
task concerned. A conditional write that loses its race is a final
DDB_CONDITION_FAILED, where the business rules of persistence (:43, :50) have the
orchestrator read again; `lastSeenAt` may be set back by a slower hit; a slow task
may replace a record with an older policy version.

In the handler: a report of a malformed input that fails is not looked at and the
handler returns, where BR-3-FS-2 has it throw (`TasksEnd` names this exception:
without a task timeout the task hangs).

In the classifier: `file-type` says "tif" and "mov" for what `format-metadata.ts`
calls "tiff" and "mp4", so a .tif is contradicted by its own name, where BR-S-2 and
BR-S-4 of the classifier core have it corroborated; the MIME types of the macro
formats are listed in mixed case and compared in lower case, so they are never known;
some sums of doubles (0.65 + 0.05) exceed a threshold they equal, although
`SlipsheetDecider.ts:28` slipsheets equality; an ODF file is called after an
OOXML extension, even when its mimetype is read (`Tier2ZIPDetector.ts:46-47` comes
before :56, where BR-Z-4 has the mimetype decide), which `Decisive` leaves out; a ZIP
without readable entries stays a zip; the hint "." gives an empty format; hints that
name members of `Object.prototype` are found by table lookups.

In provisioning (`ui/lib/classifier.ts`): a process whose promise has settled never
provisions again, so that a LocalStack restart leaves it failing every request until
it is restarted itself, where :70-73 counts on re-seeding "across restarts" (`Stale`
in `RetriesSucceed`); the seeding put, called "a no-op observationally" at :385-386,
takes an administrator's settings back.

On the pages: a file removed while its loop runs is uploaded all the same, and no
longer disables the button, so that a second click sends what the first loop will
send too, two requests at once (`stray` in `OneAtATime`; the comment in
`TransferWizard.tsx` says "Sequential"); leaving the page within the application
stops no loop; the wizard and Documents poll without a `workspaceId`, so that
documents of other workspaces stay "queued" there (`Default` in `RunFeed`); an error
of `queryRecentRuns` becomes an empty list and wipes the rows shown, where a lost poll
is meant to "keep last snapshot"; `toRecentRecord` drops `convertError` and
`convertStartedAt`, which `runs.ts:92-95` says are surfaced; rows stamped before
"Clear" and recorded after it stay hidden; ResultPanel's fetches of details are not
cancelled, so that a late answer may be shown for another document
(EmailExtractionModal guards against this).

Why the bounds are enough: `convert_safety` has every pair of overlapping
deliveries of one row (two replicas, two copies, two receives each) with two faults,
which is what it takes for a lost answer inside a retried attempt; rows do not
interact except through the watchdog, whose Scan and batches the theorems treat for
any number of rows. In `dedup_safety` three tasks, one of them an override, meet in any
order before and after a policy change, which covers each pair of cases A to D, with
one fault or one invocation after an answer in any place. In `decisions`
each set holds one member per case the code tells apart: a name that detection
refines and one it takes as it is, a hint that agrees, contradicts or is unknown,
thresholds below, at and above the scores that occur. In `callback` attempts meet
only through the order in which they start, so two show every overlap, and three
faults are one more than the longest story needs (a lost success, a lost report
of it). In `provisioning` processes meet only in what LocalStack holds, so two show
every overlap; one resource of each sort (looked up first or not, needed by the
seeding or not) and one failed call with its siblings still running are what an
attempt can meet, and one page is enough because requests meet only in the promise
and the row. `wizard` has three files so that a loop can have one under way, one
removed and one that a second click takes; the third click is a retry. In `feed` a
list of one row makes the newer run push the older one out, and two polls under way
are the fewest that can overtake each other; both documents are in the polled
workspace, others are covered by the theorems alone. The theorems below hold without these bounds.

### Fairness

The liveness runs of the pipeline use its `FairSpec`: weak fairness of time, of each
request's steps, of each replica's steps and of its polling, of the CronJob's scan and updates, and
of the queue's redrive. The code justifies it: the poller is an endless loop that
backs off for two seconds after an error, the CronJob fires every five minutes,
calls have timeouts. Nothing is assumed of faults, crashes, lost answers,
operators, nor that office-convert answers: the local timeout ends its call. Of SDK
calls it is assumed that they end, with an answer or an error, within a tick, and of
replicas that each runs, or is started again. `faults` and `crashes` being bounded means: once
nothing more goes wrong, things settle.

`callback` uses weak fairness of each attempt's handler, of Step Functions noticing
an invocation that ended with an error, and of its next attempt or giving up.
The Lambda runtime runs an invocation to its end unless it is killed, which counts
as a fault. Nothing is assumed of task timeouts: tasks end without them.

`provisioning` uses weak fairness of each process's attempt (SDK calls are answered
or fail), of each admitted request, and of a page that was refused: `RetriesSucceed`
speaks of those who try again. `wizard` uses weak fairness of each loop's request,
which has no timeout of its own: the server answers or the connection breaks, and
that much is assumed of both. `feed` uses weak fairness of each page's timer and of
the answers to its polls; workers and watchdog owe it nothing.

## Proofs

The seven modules `*_proofs`, for any finite set of documents or requests, any
workers, copies, attempts, timeouts, faults and crashes, any formats, hints and
settings, any processes, pages, resources, files and clicks, under the named
assumption on the constants that each module makes (`ConstantsAssumption`,
`DedupAssumption`, `ClassificationAssumption`, `CallbackAssumption`,
`SettingsAssumption`, `WizardAssumption`, `FeedAssumption`). These say what kind of
thing each constant is. One theorem asks for more: `FirstCallSafe` for
`CallTimeout <= StuckAfter`, which the deployment satisfies.

| theorem | argument |
|---|---|
| `ConvertPipeline_proofs!TypeCorrect` | `TypeOK` with `HoldsClaim` (a busy worker holds a claim, an idle one none): without it the row a worker updates has no type |
| `DoneHasPdfAlways` | `PdfInv`: a worker in "markDone" has its PDF, or has met another one over the document; one that calls has set the row to "converting", and nobody else marks it "done" meanwhile (`CallingNotDone`), so that a call given up truncates no done row; `MeetingsKnown` says when `contended` remembers a second worker |
| `NoPhantomRowEver` | every update of the row is listed by case; all but `PutRow` need the row to exist |
| `StartedAtKeptAlways` | from the same case list, and that no put follows the end of the request |
| `LifecycleRefined` | each action is a step of `RunLifecycle` or a stutter (`LifecycleStep`); a worker's "done" needs `MarkDoneHasPdf`, and a call given up `CallingNotDone` |
| `AckAfterOutcomeAlways` | only the ends of `Update` lead to the delete (`UpdateOutcome`); an unreadable claim has no row, because its document never passes the route (`MalformedNoRow`) |
| `ReapsOnlyStuck` | `BatchInv`: a row in the batch belongs to a finished request, so nobody puts it anew, and is past the cutoff or gone; `AgeInv`: a row past the cutoff cannot belong to an open request, since no tick passes during its put |
| `FirstCallSafe` | `ClocksAgree`: while a document's claims have been received only once, the row's clock, which that delivery starts, is not ahead of the call's timer; rests on `HeldReceived` and on claims never losing a receive (`FreshClaims`) |
| `OverlapOnlyAtVisibilityAlways` | `LeaseInv`, for as long as the queue has not redelivered early: a claim held by a replica whose call has not reached the visibility timeout is in flight, and what is left of its timer with what the call has lasted makes up that timeout; a step that gives a claim a second holder (`HolderMoves`) finds the timer run out |
| `ContentDedup_proofs!TypeCorrect` | `TypeOK` with `PolicyRead`: a task on its way has read a policy version |
| `FirstDocumentKeptAlways` | a task about to replace has seen a version other than its own (`ReplacesStale`), and the condition holds the item to the version seen |
| `AnsweredIsRecordedAlways` | also needs that a record any read may return implies there is one (`Recorded`) |
| `HitsCountedAlways` | hits against the cardinality of the set of duplicates, with `ControlInv`: tasks on their way are unanswered, overrides count no hits, the first policy version is never replaced; each step that counts and does not answer is a fault, and each that forgets an answer is counted in `reinvoked` |
| `OriginalGoesThroughAlways` | `Sourced`: the first document of every record a read may return has written it; `Credited`: whoever has written one was answered "not a duplicate", has lost a call, or runs again |
| `RefusedForACauseAlways` | `RefusedInv`: until it expires a record has one version, or someone has refreshed it to the one it has (`OneVersion`, by `written`); a conditional write can only be refused over that, and its writer is another task or one that repeats itself (`Credited`) |
| `RecordOperationsRefined` | the four ends that store something (`Stores`) are the four operations of `HashRecord`; a replacement changes the version, because the task saw another one than its own (`ReplacesStale`) |
| `Classification_proofs!TypeCorrect` | what the tiers of the detection, the score and the decision may return |
| `NeverSilentAlways` | `OutputInv`: the output is always what `Classified` makes of the file and the request; `Settings` and `Decided` say what that is |
| `LaxerSettingsForwardAlways` | a step compares two outputs of one file (`AgainStep`); both are unfolded by `Decided` |
| `BytesDecideAlways` | two extensions for which the bytes are decisive are detected alike (`DecisiveDetection`), and one modifier moves a score by 0.2 and two roundings at most (`ScoreMoves`) |
| `OwnNameHelpsAlways` | the same detection twice (`DecisiveDetection`); the own name is never a mismatch (`NameModifiers`), and its 50 thousandths outweigh a rounding of one (`ScoreGains`) |
| `TaskCallback_proofs!TypeCorrect`, `OwnOutcomeAlways`, `ArchiveHandedOverAlways` | `Good`: what the place of an invocation means for its token, its result, its claims and its trouble; an invocation in the catch block has a reason to be there. `SignalGood` treats the signals once for all callers |
| `ArchiveRepeatedByTroubleAlways` | also `InOrder`: a later attempt has started only after the loss of all earlier ones, and a lost attempt that held a document had late trouble; `Good` also says that a second claim of an attempt comes with trouble of the queue |
| `ReturnedIsSettledAlways` | from `Good`, which says of each place where a handler returns what became of its token |
| `WorkspaceSettings_proofs!TypeCorrect`, `SettledMeansProvisioned` | `Sound`: as long as LocalStack keeps its state, what an attempt counts as there exists, and nobody takes it away; the seeding comes last |
| `SeedsAreFew`, `FailuresHaveCauses` | every seeding put ends an attempt, which settles, was failed by a counted call, or ended with its process |
| `WaitersAreHeardAlways`, `RequestFailuresHaveCauses` | `Attended`: a page waits only for a process that remembers a promise; `Heard`: the calls of a running attempt have all begun. A request fails with the attempt it waits for, and that has its causes, or at the row, which only a restart takes away |
| `TransferWizard_proofs!TypeCorrect`, `SentOneAtATime`, `OneDocumentEach` | `Calm`: without a stray, the one loop that runs shows in the list, so the button is disabled; `Counted`: a file's documents, with the requests that may still make one, against its lost answers |
| `BusyIsTrueAlways` | an invariant of its own with the two ways a file becomes busy or stops being so (`SendsBusy`, `SettledBusy`); no other step touches a busy file but to take it from the list |
| `RunFeed_proofs!TypeCorrect` | `TypeOK` with the time stamps of the requests stamped so far (`NextStamp`) |
| `ToldAreListed` | `PutKept`: a put that has landed has its row until it expires |

Lemmas `RowSteps` and `Steps` say once what a step may do to a row and to the
item; the theorems argue by cases on them. `MsgMoves`, `RouteMoves` and `WorkerMoves`
do the same for claims, requests and workers.

Only model-checked: liveness, that is `ClaimsSettle`, `ConversionsEnd`, `TasksEnd`,
`RetriesSucceed`, `BatchEnds` and `PagesCatchUp` (fairness and ENABLED are outside
what the prover handles). Their safety half is proved, each by an invariant that no
run has, since the liveness runs imply it: `ReturnedIsSettled` for `TasksEnd`,
`BusyIsTrue` for `BatchEnds`, `WaitersAreHeard` for `RetriesSucceed` (nobody is
forgotten; that time does the rest is for TLC). In the same way `NoPhantomRow` and
`FirstDocumentKept`, which the refinements imply, and `FailsForACause` of the attempts
behind `RequestsFailForACause`, are proved without a run. `AckAfterOutcome` and the watchdog's
properties are checked by TLC on an office document only; for DWG uploads and
malformed claims they rest on the theorems.

## Not modelled

The byte-level detectors, wording and logging, authentication, the CDK and Helm
declarations beyond their numbers (retention, timeouts, receive counts are
constants). office-convert, SQS, DynamoDB, LocalStack and Step Functions appear as
the code uses them. Batches of more than one message per receive are not modelled;
the deployment uses one (`PromptButForBatch` shows what `OverlapOnlyAtVisibility` would
then say). Abstracted away inside the modelled parts: contents, names,
timestamps beyond their order.

Of the UI: ResultPanel and EmailExtractionModal (display of one answer; the one race
there is named above), paging and filtering of Documents, the charts and tiles of the
Monitor, the progress route (it relays what office-convert says and changes
nothing), the counters behind the tiles and the bounded cache of email extractions
(synchronous code of one process, whose loss on a restart is intended).

Composition: `Classification`, `ContentDedup` and `TaskCallback` leave each other's
results open instead of being composed; `RunFeed` has free moves of the row in place of
`ConvertPipeline`, more of them than the pipeline makes.

## Plan

Done: `ConvertPipeline` and `RunLifecycle` with all safety theorems and the
refinement, `ContentDedup` with `HashRecord`, `TaskCallback`, `Classification`,
`WorkspaceSettings`, `TransferWizard`, `RunFeed`, each with its theorems.

Left, in this order:

1. `TaskCallback` over `ContentDedup`: a re-invoked attempt and its older
   invocation on one record, in place of the open result of `classify`.
2. The worker's batches (`sqsMaxMessages` above 1), whose messages age behind one
   another.
3. Fetches of details in ResultPanel and EmailExtractionModal: which document an
   answer belongs to when it arrives.
