# AutoFarm: a verification project

AutoFarm finds trends, writes and films short videos, has them reviewed by a
human and publishes them, for six brands on five platforms. It is a set of cron
jobs, one web server and a library of classes around one SQLite database in WAL
mode. This directory holds TLA+ models of its classes, TLC configurations for
small instances, and proofs that TLAPS checks.

All paths below are relative to the repository's root.

## 1. The system

### Components, their state and operations

| Component | Code | State | Operations |
|---|---|---|---|
| Job state machine | `modules/infrastructure/job_state_machine.py`, `save_job_state` in `database/db.py` | table `job_states`: state, previous state, retry count, age | create, transition, retry, daily clean-up of orphans |
| Resource scheduler | `modules/infrastructure/resource_scheduler.py` | active jobs and a semaphore, per process | can_start_job, wait_for_resources, acquire and release a slot |
| Review gate | `modules/review_gate/{gate,approval_tracker,approval_server}.py`, the Telegram and e-mail senders | tables `reviews`, `approval_tokens` | create and send a request, approve and reject routes, token expiry, flush of stale reviews |
| Content queue | `modules/queue/content_queue.py` | table `content_queue` | add, next ready, mark, flush, next slot |
| Circuit breaker | `modules/infrastructure/circuit_breaker.py` | table `circuit_breakers` and a cache per process | check, allow, record success or failure, reset |
| Publisher | `modules/publish_engine/publisher.py`, `base.py`, one class per platform | `content_queue`, `publish_log`, `published_videos` | publish due rows, retry, give up, cancel |
| Publish scheduler | `modules/publish_engine/{scheduler,schedule_config}.py` | reads the queue | next publish time, batch schedule |
| Rate limits | `modules/compliance/{rate_limit_manager,rate_limits}.py` | table `rate_limits` | check and increment, reset |
| Accounts | `account_manager/`, `database/credential_manager.py` | table `accounts` | create, refresh, disable and enable |
| Retry handler | `modules/infrastructure/retry_handler.py` | none | decorated call with back-off |
| Shutdown handler | `modules/infrastructure/shutdown_handler.py` | a flag, running operations, callbacks | signal, register and end operations, shut down |
| Idle guard | `modules/infrastructure/idle_guard.py` | its thread | keep the machine from being reclaimed |
| Brain and LLM router | `modules/ai_brain/` | table `scripts`; per object: which provider is healthy, what was used today | generate for a brand, duplicate check, script, hook, hashtags, provider fall-back |
| Content forge | `modules/content_forge/` | files, most of them one per brand; table `background_library` | voice, background, B-roll, music, captions, assembly, thumbnail, variants |
| Trend scanner | `modules/trend_scanner/` | table `trends`; per scanner object: quota, blocked flag | scan seven sources, store, consume, clean up |
| First comments | `modules/marketing/first_comment.py` | table `first_comments` | comment under a new post, retry the pending ones |
| Connection pool | `database/connection_pool.py` | a connection per thread, a file lock | execute, write with lock, checkpoint |
| Others | brand, compliance, feedback loop, marketing, storage, network, notifications, dashboard | own tables | see `PROJECT.json` |

### How they interact

* **Through the database.** Every process opens the same file; every statement
  commits on its own (`connection_pool.py:103`). A method that reads and then
  writes is two transactions, and any other process may run in between. This is
  the interleaving that all models have.
* **Through threads.** The scheduler is a singleton of one process; the approval
  server answers each click on a thread of its own.
* **Through calls to the outside.** Platforms, LLM providers, Telegram and the
  mail server answer late, never, or with an error.
* **Through signals.** A shutdown flag ends waits.

### What is hard, and what makes each part correct

| Part | Hard behaviour | Correct means |
|---|---|---|
| Job states | read, validate and write are three statements; the clean-up writes from a list it read earlier; drivers die | recorded history follows `VALID_TRANSITIONS`; nothing is released unreviewed; a row jumps, or has a double, only where calls raced; an abandoned job is flagged |
| Scheduler | check, permit and registration are three lock regions around a CPU sample of a second | bounded assemblies, no lost permit, registry equals reality, waits end |
| Review | two clicks at once, expiry during a click, second request for one video, a server killed half-way, marks that overwrite each other | no publication without a decision; a decided link is dead; a decision takes effect; what left the queue stays out |
| Queue | slot calculation races with insertion | no two videos in one slot |
| Breaker | a private cache that is filled once and rows overwritten blindly; late answers | a process keeps away after its failures; no circuit is open for ever |
| Publisher | overlapping runs without a claim, failures after the post exists | what is marked published is; bounded retries and reposts; retrying ends |
| Rate limits | check-then-increment; quota charged before a later check refuses | limit never passed by more than the processes in flight; the gap kept as far as posts are recorded |
| Accounts | credentials and status in separate writes | a disabled account stays disabled; racing refreshes keep the newest token; expired ones recover |
| Shutdown | operations registered after the signal or never completed, a second signal | the shutdown ends |
| Trends and scripts | look-then-insert scans, generations that race for a trend, trends that expire under them, two dates of one row, a clean-up over a foreign key | no trend is used up without a script; rows and scripts of a topic are bounded by what races |
| Scan | quota over midnight and restarts, retries inside loops inside loops | bounded requests; a scan ends |
| Texts | one router per class, each with its own count; fixed sentences returned like a model's answer | bounded requests; no stand-in is stored as a script |
| Forge | files shared by the videos of a brand, broken downloads, steps that fail without a transition | a video has its own parts; a listed clip is complete; a forge ends |
| First comments | look-then-insert, a pending row that a retry takes up, lost answers | a second comment only after a lost outcome or a race |

The hazards, each at its line and with the property that covers it, are listed
in `PROJECT.json`.

### A caveat on the entry points

Several scripts in `jobs/` call the classes with signatures the classes do not
have: `Publisher(db=db)` and `publish_due_videos`, `db.initialize`,
`process_auto_approvals` (`jobs/check_auto_approvals.py:34`; the class has
`check_expiry`), `ReviewGate` without its arguments, `refresh_all_tokens`
(`jobs/refresh_tokens.py:34`; the class has `refresh_all_expiring`).
`ShutdownHandler` is really `GracefulShutdownHandler`, `can_run_job` really
`can_start_job`; the platform classes ask their rate limiter to `acquire`
(`modules/publish_engine/base.py:106`), which `RateLimitManager` does not offer. Tables `publish_log` and `published_videos`
have no `CREATE` in `database/schema.sql`. The models therefore describe the
classes, and cron enters as a caller that runs their public methods at the times
the scripts say. Some methods have no caller at all in the repository:
`flush_stale_reviews`, `flush_expired`, `check_expiry`, `acquire_job_slot`,
`retry_job`, `get_retryable_jobs`, `cleanup_orphans` of the state machine,
`update_token`, `mark_published` of the database, and the consuming half of
`ContentQueue`. They are modelled as the API they are.

## 2. The modules

Every model takes a SQL statement (or a region under a lock) as one step and
lets every other actor run between two of them. Definitions that are called
"Faulty variant" are used by no specification: each is a plausible slip of the
definition after it, and the properties are sensitive to it.

### JobStates, JobLifecycle, JobStateMachine

`JobStates` holds the states and the transition map. `JobLifecycle` is the
abstract promise: one state per record, that is per job and job type; a record is
created, moved along the map or flagged by the clean-up, and once two calls for its
job overlap it is "contested" and nothing more is promised. `JobStateMachine` is the
code.

| Model | Code |
|---|---|
| `rows[<<j, t>>]` | rows of `job_states` of a job and a type, a sequence since nothing makes the pair unique (`schema.sql:411`) |
| `newest`, `Current` | the latest `updated_at`, by which `get_current_state` chooses among all rows of a job whatever their type; rows written in one second tie |
| `pc`, `call` | a process inside `transition` or `save_job_state`, and its locals |
| `orphans` | the list `cleanup_orphans` iterates over |
| `CreateJob`, `Transition`, `RetryJob` | the methods up to their first statement; a job may be created again, or under another type |
| `BumpRetryCount`, `RetryTransition` | `retry_job`: count first, validate afterwards |
| `SaveSelect`, `SaveWrite`, `CallEnds` | the two statements of `save_job_state`, or an exception or a death at any of them |
| `ListOrphans`, `FlagNext`, `CleanerCrash` | the clean-up |
| `aged`, `Age` | `updated_at` more than 24 h back |

The code keeps nobody from calling for a job that another process is moving, and
neither does the model: any driver may begin any call at any time, and the
clean-up's list grows old while drivers go on. `overlapped` is history: the jobs for
which a call, or the clean-up with a list, began while another was under way. The
refinement mapping shows `JobLifecycle` the state of a record until then and
"contested" afterwards. A retry's target is any state, as in the code: `transition`
validates it. The limit of `get_retryable_jobs` is left out, since `retry_job` does
not look at it.

### ResourceScheduler

| Model | Code |
|---|---|
| `active`, `counter` | `_active_jobs`, `_job_counter` |
| `permits` | the semaphore |
| `CheckExclusive`, `CheckConflicts`, `Measure` | the lock regions and the sampling of `can_start_job` |
| `TakePermit`, `Register` | the rest of `acquire_job_slot` |
| `PopSlot`, `ReturnPermit` | `release_job_slot` |
| `WaitForResources`, `Poll` | the waiting loop, its seconds counted in polls |
| `Signal`, `shutdown` | the shutdown handler's flag |

RAM, CPU and disk are outside: any answer is possible whenever a type has a
threshold. A type that `THRESHOLDS` omits is always allowed.

### ReviewWorkflow

| Model | Code |
|---|---|
| `connected` | whether the server's gate was built with a `content_queue`; its own `__main__` builds it without (`approval_server.py:462`) |
| `stage`, `status`, `token` | how far `process` got, `reviews.status`, `approval_tokens.status` |
| `numbered` | the requests whose token has the id of their row; the others have 0, which `gate.py:216` gives when `execute` answers no integer |
| `pc`, `request`, `decision`, `todo` | the server's threads |
| `MarkRead`, `MarkWrite`, then `Approve`, `Reject` or `NoSuchReview` | the route: the tracker's two statements, whose answer it ignores, then the gate |
| `Enqueue`, `EnqueueFails` | `add_to_queue`, platform by platform; the exception of one is swallowed |
| `overdue`, `autoApproved` | the list of `check_expiry`, and what it returns |
| `queue`, `lastId`, `taken` | the rows of `content_queue`, the `AUTOINCREMENT` id, and the row each consumer works on |
| `TakeReady`, `MarkRow`, `Cancel` | `get_next_ready` claims nothing; marks and `cancel_scheduled` overwrite whatever status is there |

`clicked` is history: a decision taken while the token was pending; `struck` too: the
requests hit by a death between token and queue, a refused `INSERT`, or a row that
was flushed. `INSERT OR IGNORE` under `UNIQUE(video_id, platform)` is modelled as
such. The times that a row is scheduled for are in `PublishSlots`. Telegram and
e-mail are modelled by whether the request arrives.

### CircuitBreaker

One circuit, its `row`, and a `cache` per process. The methods of the class are
coroutines without an await, so a call is one step within a process; the load of
the cache is separate. `opens_until` is the time left. `streak` and `quiet` are
history, kept to say what a process should do after its own failures.

### Publisher

Runs (`pc`, `todo`, `current`, `caught`) over queue rows (`status`, `due`), the
log (`succeeded`, `failures`), `published_videos` (`recorded`), tables and files
they depend on, and `posts`: how often the platform really got the video. A call
of a platform comes to a member of `Outcomes`: does the post exist, and does the
method believe so. The sets are translated from each platform's class: TikTok and
YouTube look for a confirmation, the other three take the id out of any answer.
`caught` follows Python's `try`: an exception under it goes to
`_handle_failure`, one raised in there ends the run. One platform per row is
enough, since the rows of a video share nothing but `videos` and `Cancel`.

### RateLimits

A behaviour is about one `call`, a platform and an endpoint, since the rows of
two are never looked at together; `hourly`, `daily` and `quota` are its rows.
`CheckHourly`, `CheckDaily`, `Charge`, `CheckPostGap`, `CountHour` and `CountDay`
are the statements of `check_and_increment` in their order, the platform of a call
selecting the branch; a process may die between any two (`Abort`), and both
resets run at any time. `recent` says that the last post of the brand on record
is less than the minimum gap back. The record is a row of `publish_jobs`, which
`mark_published` writes (`Record`) and `Publisher` does not (`LeaveUnrecorded`, also
for a caller that dies between its post and the record). `through`, `burst` and
`unrecorded` are history: what the platform was sent since the limiting rows were
reset, the posts made since a gap on record was over, and those of them that were
never recorded. The header calls the manager thread-safe
(`rate_limit_manager.py:8`); the properties say how far it is. Limits that no
check reads (`max_uploads_per_day_per_channel`, `max_posts_per_24h_per_account`)
are in no model.

### Accounts

One row of `accounts` (`status`, `token`, `expires`), since no statement looks at
two. Tokens are numbered as the platform issues them; `rotates` says whether it
takes a refresh token only once. The cron job, the daemon at the end of
`token_refresher.py`, a publisher and the operator are all processes that may run
any method.

| Model | Code |
|---|---|
| `ListExpiring`, `ReadCredentials` | the list of `refresh_all_expiring`, then the row as `refresh_token` reads it |
| `Answered`, `Rejected`, `Unanswered` | what a `_refresh_...` method comes to: a token or, where the old one stays good, only an access token; `(None, None)`; an exception that is retried |
| `Malformed` | an answer without the fields that the method reads: an exception that is not retried, or the old token once more where the method has a default (every field for TikTok and Snapchat, the refresh token for YouTube) |
| `StoreCredentials`, `Activate`, `SetExpired`, `Refused` | the writes after it, and the `except` |
| `GetActiveAccount` | the look-up that notices an expired token |
| `UpdateToken`, `WriteMerged` | `update_token`: it reads all credentials, replaces one key, and writes all of them back, the refresh token it has read included |
| `CreateAccount`, `Register`, `SaveCredentials`, `DeleteCredentials`, `UpdateStatus`, `EnableAccount` | what the operator calls |

`early` and `lost` are history: who was under way when the account was last set
aside, and whether a fault, a deletion, a login that crossed another write or an
`update_token` that wrote an older one back dropped the newest token. `update_status` first looks whether the row exists;
rows are never deleted, so look and write are one step.

### TrendSources

One process and its seven scanners. A behaviour goes through the brands, the
sources of a brand, the kinds of request of a source and the requests of a kind;
what is found is only whether anything was, since that decides about fall-backs.

| Model | Code |
|---|---|
| `Start`, `NextBrand`, `NextSource`, `Store` | the loops of `scan_all_brands` and `scan_brand` |
| `RedditScan` ... `SnapchatScan` | which kinds a source's `scan` asks, and after what |
| `Retried`, `Failed`, `Done` | `retry_with_backoff` around a request, and the loop that swallows what is left |
| `blocked`, `used`, `stale` | what a scanner object remembers: Reddit's refusal, YouTube's quota and its date |
| `RedditPosts`, `YouTubeCategory` | the two requests that read and write these |
| `NewDay`, `Restart`, `Signal` | midnight, a new process, the shutdown flag, which is looked at between brands |

`calls` and `renewals` are history. `PARTS` says how many requests of each kind a
configuration asks for.

### ContentSupply

The table `trends` and the scripts written on it, for one brand, with any number
of processes that scan (`Look`, `Insert`) and generate (`NextTrend`, `CheckTopic`,
`WriteFails`, `StoreScript`, `ReadScriptId`, `Finish`, `ConsumeRead`,
`ConsumeMark`). A scan's findings are any topics. A row has two dates: `discovered_at`
is set when the scan finds the topic (`base_scanner.py:61`) and is what the next scans
look for (`Old`), `expires_at` is counted from the storing (`base_scanner.py:141`) and
is what generations and the clean-up look at (`Expired`). `age` counts the days since
the first, `lag` says how many of them had passed at the second, and `Day` lets a day
pass for rows and scans alike. `EXPIRY` is `TREND_EXPIRY_DAYS` and `DELAY` the longest
time between finding and storing; that a scan takes at most half of the expiry is
assumed. `by`, the process that stored a row, is history. Scripts are counted per trend:
`recent` for the last thirty days, `older` for the rest, as the duplicate check and
the foreign key of `scripts.trend_id` tell them apart. `Cleanup` is enabled only
when its `DELETE` violates no key, since it fails as a whole. `JOBS_FIT` says
whether `create_job` can be called in the way `brain.py:261` does; with the class
in this repository it cannot (see the observations), and the model is checked for
the class the call was written for. `topicOf` is history.

### ScriptTexts

The four classes of one process that ask a language model while a script is made,
each with its own `LLMRouter` (`ollama`, `groq`, `requests`, `dated`, by class). A
text is what its readers tell apart: written by a model, poor, a fixed sentence,
the fall-back script, a template. `SelectProvider`, `CallOllama`, `CallGroq` and
`GetCachedResponse` are the router; `GenerateHook`, `GenerateBody`, `StoreScript`,
`ClassifyScript` and `GenerateHashtags` are what is made of its answer. A call of Groq
is two steps, the request (`AskGroq`) and what comes of it: an answer that can be read
and is counted (`GroqAnswers`), a refusal (429), after which the router asks no more
(`GroqRefuses`), or any other failure, which the router counts nowhere (`GroqFails`).
`calls`, all requests made of Groq today, `unread`, those that failed without a
refusal, and `stored` are history.

### ContentForge

`forge_video` step by step (`pc`), for processes that forge videos of one brand or
fill its library. `shared` says whose each of the four files is that a brand has
one of (captions, prepared background, mixed audio, key frame), and `taken` what
each part of a video was made of. When ffmpeg makes no key frame, not even of one
colour, the file is touched: the frame an earlier video left is kept, and `taken` says
`"kept"` (`thumbnail_maker.py:335`). One clip stands for the library: its file is
absent, partial or whole (`clip`), it may have a row (`row`), and `load` is where a
download is. The job's state follows the map of `JobStates`; a transition that is
not allowed raises. `overlapped` and `doubled` are history.

### PublishSlots

The times of the rows of `content_queue`: the first one by `_calculate_next_slot`,
and a later one by `calculate_publish_time` after a failure. Reading and writing
are two steps. Time has no unit; what counts is the order of the posting windows,
the interval and the delays. `seen`, and a row's `alone` and `moved`, are history.

### FirstComments

The rows of `first_comments`, `post_first_comment` and `post_pending_comments`.
The handlers of the four platforms do the same here: an exception outside their
`try` (rate limit, credentials, session) leaves the row and ends a batch, anything
inside it is a failure. `live` is what is really under a post, and `doubt` is
history: an outcome that was lost, or two processes at work on one post.

### GracefulShutdown

One process: signals, operations and callbacks that are registered at any time, and
the daemon thread that waits, calls back and cleans up. A second signal, or the end
of the main thread, ends the process in the middle of it.

### MCGuards and MCServices

Three guards that others ask before they work (`RateLimits`, `CircuitBreaker`,
`ResourceScheduler`) share nothing, and `MCGuards` checks them in one run: a
behaviour chooses one at its beginning (`which`) and leaves the others' variables
alone. `MCServices` does the same with five. Neither adds a behaviour to any of them;
the fairness of each is stated for its own behaviours. But for the types of the five,
the theorems are about the specifications of the components themselves.

The five are `TrendSources`, `ScriptTexts`, `PublishSlots`, `FirstComments` and
`GracefulShutdown`.

## 3. What is checked

| Run | States | Shows |
|---|---|---|
| `job_states` | 1.45M | recorded history, the number of rows, release after review, and the refinement of `JobLifecycle` |
| `orphans` | – | a job left in the pipeline is never flagged, since nothing calls the clean-up (finding) |
| `guards` | 451k | three components: how far racing callers pass a limit, in the counter, at the platform and in the gap; quiet processes, circuits that are tested again; bound on assemblies, permits |
| `waits` | 14k | the end of the scheduler's waits |
| `review` | 2.09M | decisions, dead links, rows that left the queue, and what may keep a decision from taking effect |
| `auto_approval` | – | an expired token with auto-approval leads to no queue row (finding) |
| `publisher` | 164k | truth of the marks, bounds on retries and reposts, the end of retrying, cancellations that hold |
| `accounts` | 4.12M | an account set aside stays so for whatever begins later; racing refreshes keep the newest token |
| `expired_accounts` | – | an account marked `token_expired` is never refreshed again (finding) |
| `content` | 1.97M | a used trend has its script; how often a topic is stored and written about |
| `forge` | 649k | videos of their own parts, complete clips in the library, no job marked without its video, the end of a forge |
| `services` | 1.39M | types of the five; requests to YouTube and Groq, bodies that a model wrote, times of the queue, comments, the end of scans and of the shutdown |

The type invariants of the other modules are theorems (section 4), and no run
repeats them; so are `OpenHasDeadline` and `SlotsMirrorJobs`.

### Bounds

* `job_states`: one job suffices, since jobs share no row and no action looks at
  two of them except the clean-up's list; two types, for a job whose current row is of
  another type than the one that is written; two drivers and the cleaner give every
  pair of interleaved calls. `MaxCalls` 4 bounds the calls the drivers begin: one to
  create a record, one under the other type, and two that race over them.
  `orphans` needs one driver, one type and two calls.
* `guards`, `ResourceScheduler`: three threads, for an owner, a contender and one
  between the check and the permit; the semaphore at 1, its value in the code; one
  exclusive, one conflicting and one unlisted type. `MaxSlots` 3 bounds the slots ever
  handed out (guard of `Acquire`): a released number is never used again, so further
  slots repeat earlier behaviour. `MaxPolls` 1 makes the timeout meet every other step.
* `waits`: the same with two threads, one to hold what the other waits for, and two
  polls, so that a wait may go on and not only end.
* `review`: two requests about one video meet in the same queue row; two server
  threads race on one token; one request with auto-approval, one without.
  `MaxRows` 2 allows the row to be flushed and inserted again; two consumers take the
  same row. Threads are symmetric, and so are consumers.
* `guards`, `CircuitBreaker`: two processes are the writer and the one whose cache is stale;
  a threshold of 2 separates one failure from enough; a timeout of 2 ticks
  separates started from half over; two requests in flight give late answers.
* `publisher`: two runs, `MAX_RETRIES` 2, one fault (`MaxFaults`) anywhere; two
  rows of one video, one on a platform that confirms posts, one on a platform
  that `_get_publisher` does not know.
* `guards`, `RateLimits`: two processes race; the bounds grow by one call for each further
  process, which the proofs cover. One call of each kind: hourly, daily, charged,
  and one without a limit. The quota (5) is no multiple of the units (2), as 10000
  is none of 1600. No call starts from a counter at `MaxCount` 4, which is beyond
  the limit (2) and its overrun (1). `MaxLost` 1 post stays unrecorded; each further one
  adds the same again to the bound, which the proofs cover.
* `content`: two processes race; the bounds grow with the processes, which the proofs
  cover. One topic, since topics meet only in the
  duplicate check's word comparison, which is a free choice. One script a run and
  two attempts tell the last attempt from another. An `EXPIRY` of two days and a `DELAY` of
  one are the smallest that the assumption allows with a delay at all; `MaxTrends` 2
  lets a topic be stored by a race, or by one scan in the gap between its two dates; `MaxScripts` 5 is beyond the bound
  of 4 that `RepeatsBounded` states, so that it is not the guard that keeps it.
* `forge`: two processes overlap; the waits (12 and 24 in the code) are 1 each, since
  a wait changes nothing but its counter. One clip, since files of two clips never
  meet.
* `services`, `TrendSources`: two brands for what a scanner remembers between them;
  `PARTS` gives Reddit two subreddits (two requests each), YouTube two categories,
  Google and the news two batches, the others one of each kind; `ALLOWANCE` 2 is
  passed by the retries of a category (3 attempts, as in the code). `MaxRenewals` 3
  bounds the restarts of a day: two, or one after a midnight within a scan.
* `services`, `ScriptTexts`: `MARGIN` 1 is reached at once by each of the four
  routers; two attempts; the templates are there, as in the repository; `MaxUnread` 1
  request fails unseen, and with it the bound is reached.
* `services`, `PublishSlots`: two processes and three rows (`MaxRows`), a day of four
  ticks with two windows on two best days, an interval of two; `MaxTime` 3 lets slots
  pass.
* `services`, `FirstComments`: two posts and two rows (`MaxComments`), so that a row
  of a post can be a second one, two processes.
* `services`, `GracefulShutdown`: two operations, three looks (24 in the code: five
  seconds in two minutes), two callbacks (`MaxCallbacks`).
* `accounts`: three processes, for two refreshes that race and somebody who changes
  the row between them; one retry (`MaxRetries`) tells the last attempt from
  another; three tokens (`MaxTokens`), for one that is in the row, one in a hand
  and one that crosses it. `expired_accounts` needs one process.

### Fairness

* `orphans`: a day passes for an abandoned row (weak), and a save or a clean-up that
  was begun goes on: it is not killed and its statements are not refused every single
  time (strong, on `FlagNext` and the two statements). Nothing is assumed of drivers,
  and nothing of `ListOrphans`, which the code never calls. With weak fairness of
  `ListOrphans` the property holds: a clean-up that was scheduled would do its work.
* `waits`: a thread inside a method continues (weak). Nothing makes a job end
  or a thread call.
* `auto_approval`: the half-hourly job finds late tokens (weak) and is not killed every
  time (strong), and server threads go on (weak); this shows that the video is not
  queued although everything runs. The property is stated for a gate that has a queue
  and a token that has its review's id, so that neither is the reason.
* `guards`, of the circuit breaker only: time passes, requests are answered, and a process with work asks for
  the circuit again and again (strong: it may ask while a request is under way).
* `publisher`: scheduled times come and runs continue (weak). Faults are bounded,
  not fair.
* `expired_accounts`: the daemon's loop comes round and a refresh goes on (weak), and a
  platform that is asked for ever answers and its answer is written (strong). This is
  more than the code guarantees, which makes the counterexample only stronger; the
  property is stated for platforms whose refresh tokens stay good, so that no lost
  token is the reason.
* `services`: a scan makes its next step (weak, on `ScanStep`): every request has a
  timeout and every wait an end. The shutdown thread is run (weak, on
  `ExecuteShutdown`); nothing is assumed of operations or of the main thread.
* `forge`: a forge makes its next step (weak, per process). Nothing is assumed of
  the scheduler's answer: the wait has its own bound.

Deadlock is checked but for `review`, where everything may have been decided, and
`services`, where a process may be gone and bounds are reached.

### Findings

1. `job_state_machine.py:13` says that orphaned jobs are flagged by a daily clean-up.
   `cleanup_orphans` is called by nothing; the daily `jobs/cleanup_orphans.py` removes
   files only.
2. `approval_tracker.py:7` says that an expired token with auto-approval moves the
   video to the publish queue. `check_expiry` updates the token and returns a
   list that nothing takes to the queue.
3. `token_refresher.py:4` promises refresh for all accounts, and `token_expired`
   is said to need it; the list takes `active` accounts only, and one failure
   moves an account out of it.

### Observations

What was met while the code was read, and which no run states:

* `resource_scheduler.py:16` says that speech and LLM never run together with a
  video assembly. `video_assembly` has no `conflicts_with`, so an assembly starts
  while they run (`ResourceScheduler` has these behaviours).
* `circuit_breaker.py:13` says one test request; `HALF_OPEN_MAX_TESTS` is never
  read, and every request in `HALF_OPEN` is let through (`CircuitBreaker` too).
* `publisher.py:248` says that the database is updated after a successful publish;
  for Facebook, Instagram and Snapchat an error answer without an id counts as one.
  `PublishedIsTrue` speaks of the post itself only for the other two.
* `get_current_state` keys rows by job and `save_job_state` by job and type: a job that
  is created under a second type has two rows, and `transition` goes on with whichever
  was written last (`JobStateMachine` has these behaviours).
* `approval_server.py:462` builds its gate without a `content_queue`, so that
  `handle_approval` queues nothing, while the page says that the video "has been added
  to the publish queue". `gate.py:216` gives the token the id 0 when `execute` answers a
  cursor; `handle_approval` then finds no review and the page says the same.
* `AUTOFARM_V6_IMPROVED.md:3065` says that the minimum gap between posts is enforced.
  `Publisher` never writes `publish_jobs`, where the gap is looked for;
  `Database.mark_published`, which does, has no caller, and no call in the repository
  asks `check_and_increment` for an endpoint that posts.
* `credential_manager.py:176` calls `update_token` atomic; it reads, replaces and
  writes back without a lock around them. It has no caller either.
* `llm_router.py:77` says that 80 % of Groq's limits are never exceeded. Requests that
  fail are counted nowhere, and each class has a router and a count of its own;
  `GroqCallsBounded` says how far this goes.
* `base_scanner.py` looks for a topic by `discovered_at` and lets its row live until
  `expires_at`, seven days after the storing: for the minutes in between one scan alone
  stores the topic a second time.
* `thumbnail_maker.py:335` touches the key frame when ffmpeg fails; the brand has one
  such file, and nobody removes it, so a thumbnail can show an earlier video.
* `brain.py:261` calls `create_job` without its `job_id`, and `brain.py` names a
  state `SCRIPT_APPROVED` that `JobState` lacks: with the classes of this repository
  every generation fails at its first statement.
* `script_writer.py:121` swaps the arguments of the cross-brand check and takes its
  dictionary for a truth value: it never refuses.
* `scanner.cleanup` deletes no expired trend as long as one of them has a script:
  the foreign key refuses the whole statement.
* The cached templates are never used: no caller names its brand. `check_health`,
  which alone would make a router try Ollama again, has no caller.
* `assemble_video` ignores its `broll_clips`. `forge_video` passes state names to
  the state machine it is given, which are not members of `JobState`.
* Every scan wraps `urllib3`'s `Retry.__init__` once more.
* The shutdown thread calls `close` on a pool that has none, does not end the
  process, and is a daemon: the end of the main thread cuts it off.
* `oci_storage.py:323`: a compressed object that is downloaded to a name without
  `.gz` is opened for reading and writing at once, and removed; the answer is True.
* An exception of the rate limiter in a first comment leaves its row pending and
  the rest of the batch undone. `FirstCommentPoster` has no caller.

## 4. What is proved

Each `...Proofs` module extends its model and shows, for all values of the
constants that satisfy the named assumptions, `Spec => []...`. Every safety property
and every action property that a passing run checks is the statement of one of these
theorems; what the runs alone show is liveness.

| Module | Theorems | Inductive invariant and the argument |
|---|---|---|
| `JobStateMachineProofs` | `TypeCorrect`, `RecordedEdgeAlways`, `ReleasedAlwaysReviewed` | What a process is about to write must itself be an edge: the invariant relates `call` to the transition map while `pc` is `select` or `write`. Validation is against what the process *read*, so it holds under every race. For the review: a call that carries a release state comes from a job that was approved or failed, and both sets only grow. |
| | `DuplicatesAlwaysBounded` | `CountInv`: the rows of a record and the processes about to insert one are together at most the drivers, since a process looks and finds none only while there is none. The cleaner never inserts: its record has a row. |
| | `LifecycleRefined` | `LifeInv`, about jobs that never were `overlapped`: at most one call, or the clean-up's list, concerns the job (`Apart`); each record has one row (`Single`); what a call read, and found, is what the row still says (`TrueCalls`, `TrueLooks`, `TrueList`). Each statement then maps to a step of `JobLifecycle`: `SaveWrite` to a move, a creation or a flag, the begin of a call that overlaps another to `Contest`, all others to a stutter. Nothing is assumed of the callers. |
| `GuardsProofs` | `SchedulerTypeCorrect`, `AssembliesAlwaysBounded`, `PermitsAlwaysAccounted`, `SlotsAlwaysMirror` | Free plus owned permits is the limit; each step adds or removes at most one owner (a lemma on cardinalities). A running assembly is an owner, whence the bound. For the registry: slot numbers never exceed `_job_counter`, so a new one is fresh. |
| | `BreakerTypeCorrect`, `OpenAlwaysHasDeadline`, `ThresholdAlwaysBlocks` | A process with a streak knows its count (`streak <= count` of its cache), and while it should be quiet its own cache is `OPEN` with at least that much time left. Other processes write the row, never its cache: this is why the property holds, and why it speaks of one process. |
| | `LimitsAccounted`, `LimitsTypeCorrect`, `OverrunIsBounded`, `ThroughIsBounded`, `BurstIsBounded` | A process past a check has spent a part of the limit that no counter shows. The invariant adds to each counter the processes at the places between its check and its increment, with their units for the quota, and each statement moves one process from one sum to the other. A reset is covered since no more than all processes are under way. For the gap, the posts and the processes past the check are at most the processes and the unrecorded posts; while nothing is on record, every post is unrecorded or its process is about to record it. |
| `ReviewWorkflowProofs` | `ReviewTypeCorrect`, `AlwaysDecidedByReviewer`, `DecisionAlwaysClosesToken` | A thread past `Click` carries a decision in `clicked`, and a thread at the gate has a token that is no longer open (`TokenInv`). |
| | `SettledAlwaysStaysOut`, `DecisionAlwaysTakesEffect` | One row per video and platform (`OneRow`), which every statement keeps: what sets a status sets no waiting one, and an insert meets no row. A thread that marks a token goes on to the gate in the same request, and for each platform of an approved review there is a row or it is still in the thread's `todo`; the steps that break this put the request into `struck`. |
| `PublisherProofs` | `PublisherTypeCorrect`, `PublishedIsAlwaysTrue`, `CancelledAlwaysStaysOut` | A run at `mark` or `insert` has a row with a success in the log, one at `log_success` on a confirming platform has a post; log, posts and `published_videos` only grow. A list is made of rows that wait, so a cancelled row that is in no list gets into none. Any number of runs, rows and faults. |
| | `RepostsAlwaysBounded`, `RetriesAlwaysBounded` | `TriesInv`: while a row waits, its posts are at most its logged failures, the faults, and the runs between the call and the mark (`Paid`), and its failures are below the limit but for the faults and the runs between the log and the count (`Counted`); once it waits no more, no new run takes it up, and what is left are the runs that have it in their lists. `RetriesAlwaysBounded` has the hypothesis `MAX_RETRIES > 1`: with 1, two runs that fail together exceed it. The code has 5 (`publisher.py:19`). |
| `AccountsProofs` | `AccountsTypeCorrect`, `StatusAlwaysHolds`, `NewestIsAlwaysKept` | `lost` excepted: as long as the newest token is not in the row, exactly one process has a token to write, it is the newest, and nobody asks the platform with that one; so the platform answers no second process until it is stored. Once it is in the row, only an `update_token` with an older one in its hand can drop it, which sets `lost`. |
| `ContentSupplyProofs` | `TypeCorrect`, `UsedAlwaysHasScript`, `RowsAlwaysBounded`, `RepeatsAlwaysBounded` | `TInv` adds to the types that a process holds one item at a time, that attempts are left while it writes, and that ids were given. `SInv`: a process that is about to consume has an item with a script, and scripts only grow older. `RInv`: a process that is about to insert a topic has found its own rows of it old (`Found`), and nobody else adds one of its rows; so of two rows that it stored of a topic the first was old when the second was stored (`Apart`), and ids tell rows apart. `BInv` is of the same form for scripts: those on a topic and the attempts that are left to processes writing about it are together at most all attempts. A process begins to write only when the check found nothing, which means no script at all: the foreign key holds the row of a script (`Held`), and a row has the topic of its id (`Fits`). |
| `ServicesProofs` | `ServicesTypes` | The types of the five, each by itself. |
| | `CallsAlwaysBounded` | `QuotaAccounted`: the answers are at most `used` and a budget for every earlier counter of the day. A category is begun only below the allowance, and within it `attempt` bounds how far `used` can pass it. |
| | `GroqCallsAlwaysBounded`, `BodyIsAlwaysWritten` | The requests are at most what the four routers have spent of their margins, that is what each has on record and its refusal (`Spent`), a request under way, those that failed, and one made on yesterday's count; a router asks only below its margin, and never after a refusal. With the templates in place a body on its way to the table was written by a model. |
| | `CommentedOnceAlways` | Of a post that is not in doubt (`Undoubted`): one process at most is at work on it, one row at most is pending, and a comment is live exactly when a row says so or its process is about to. |
| | `SpacedAlways`, `DeferralsAlwaysBounded` | A process about to insert before which nothing happened to the table has a time that is an interval after all rows that wait (`Ahead`). For deferrals the rows of a day together with the processes that are about to defer one to it are at most the limit and one for every other process: who defers has counted fewer than the limit. |
| `ContentForgeProofs` | `OwnAlwaysUnlessOverlapped` | Two forges at a time have both been marked `overlapped`. One that is not keeps its files: what others leave in them is written while they forge, and `OwnShape` says for each place of the forge which files are its own already; a key frame that is kept is taken as such. |
| | `RowIsAlwaysWhole` | Who is about to insert a row has a complete file, who is writing was the last to open it, or somebody emptied it under another. |
| | `AssembledAlwaysHasVideo` | `JobShape`: the job's state for each place of the forge. |

Assumptions: the named `ASSUME`s of each model (bounds are naturals, `None` is
outside the sets it is added to, sets of processes are finite where something is
counted). TLC evaluates them on every run. Those of the components that run side by
side are stated in `MCGuards` and `MCServices`, where their constants are declared.
One theorem has a hypothesis of its own, `MAX_RETRIES > 1`; it is named above and holds
in the run.

Only model-checked: every liveness property (`WaitReturns`, `OpenIsTested`,
 `RetryingEnds`, `ForgeEnds`, `ScanEnds`, `ShutdownEnds`), since
fairness is out of the prover's reach, and the three findings, which are violations.

## 5. Not modelled

* What media and texts contain: rendering, speech, prompts, relevance and quality
  scores, captions, reports. They enter as a choice of result.
* Encryption, HTTP and SQL themselves; the WAL and the pool. A statement is atomic,
  which is what SQLite gives, and the pool's lock is held within one statement.
* What only reads: `get_jobs_in_state`, `get_pipeline_stats`, the dashboard, the
  health monitor, the configuration check.
* What nothing calls and nothing waits for: `schedule_batch`, `reoptimise_windows`
  (which only logs), `retry_operation`, `update_hook_performance`.
* The feedback loop, A/B tests, brand safety and anti-spam: arithmetic over reals and
  text similarity, in tables that no other component waits for.
* Object storage and the backup job, which does not import; notifications; network
  identities, a table per brand; the idle guard, which shares nothing.
* The delays of `retry_with_backoff` and the spacing between brands of a network in
  `calculate_publish_time`: times within a window, which no property tells apart.

## 6. Plan

In this order; the most important behaviour first.

| # | Modules | Composes | Properties worth stating | Proof |
|---|---|---|---|---|
| done | all of section 2 | `JobLifecycle` is refined by `JobStateMachine`; `ReviewWorkflow` holds gate, tracker, server and queue; `ContentForge` uses the map of `JobStates`; `MCServices` checks five components side by side | section 3 | section 4 |
| 1 | more proofs | – | bounds on the requests of the other sources, as for YouTube | the same argument |
| 2 | `Pipeline` | `ContentSupply`, `ContentForge` and `ReviewWorkflow` on one job table | a job that is released was forged and reviewed | from `RecordedEdge` |
| 3 | `ConnectionPool` | the pool's lock file and its connections | the lock is given back on every path | mutual exclusion of writers |
