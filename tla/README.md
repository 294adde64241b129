# A verification project for envoy-files

envoy-files is an Envoy dynamic module that serves static files. This directory
holds TLA+ specifications of its state machines, TLC runs on small instances and
TLAPS proofs for every instance. Paths below are relative to `src/crates/`.

## The system

| Component | State | Operations | Interaction |
|---|---|---|---|
| Per-stream filter, `envoy-files-filter/src/filter.rs` | `Phase` (Idle, ResolvingFile, ResolvingIndex, Streaming, Done), the candidates left, and while streaming the handle, chunks, `ready` map, two cursors, in-flight count, watermark depth | `on_request_headers`, `on_scheduled`, the two watermark hooks, `on_stream_complete` | Submits to the engine; the engine's callbacks push an event on the bridge and then commit to Envoy's scheduler, which runs `on_scheduled` on the worker thread |
| Event bridge, `envoy-files-filter/src/eventbridge.rs` | `Inner`: Closed, Empty, Single, Multiple | `send`, `process`, `close` | Shared by the worker and the I/O threads under a mutex |
| I/O engine, `envoy-files-io/src/{engine,lib}.rs` | command channel, `next_id`, table of open files, cache of canonical parents, spawned tasks | `open_stat`, `read`, `read_dir`, drop of a handle, `shutdown`; `run_reactor` | One reactor thread; tasks interleave at their awaits |
| Ranges and body layout, `envoy-files-core/src/range.rs`, `response_plan.rs`, `execute_plan` and `file_chunks` of the filter | none (algorithms) | `plan_ranges`, `multipart_parts`, Content-Length, chunk layout | Called by `serve_file` |
| Response plan and validators, `envoy-files-core/src/{response_plan,validators}.rs` | none | preconditions, If-Range, ETag, headers | Called by `serve_file` |
| Request paths, `envoy-files-core/src/path.rs` and the mount prefix in the filter | none | `resolve_request_path`, `strip_mount_prefix`, `url_for` | Called when the headers arrive and when a redirect or listing is written |
| Encoding negotiation and content types, `envoy-files-core/src/{encoding,mime}.rs` | none | `negotiate_precompressed`, `content_type_for` | Called when candidates are built and a file is served |
| Configuration, `envoy-files-filter/src/config.rs` | none | `Config::parse` | Read by every stream |
| Directory listing, `envoy-files-core/src/listing.rs` | none | `render_listing` | Its links come back as requests |
| Error mapping, `envoy-files-core/src/error.rs` | none | tables | Called by the filter |
| Filter configuration lifecycle, `envoy-files-filter/src/lib.rs` | the engine | start, shutdown on drop | Shared by all streams |
| Integration test harness, `envoy-files-itest/src/{lib,envoy}.rs` | on disk: the cached Envoy, module directories, admin files; in memory: registered pids, a counter, servers | `start`, `fetch_envoy`, `await_ready`, `request`, `Drop`, `kill_spawned` | Threads of a test process, Envoy processes, the next test process |

What is hard here: completions arrive in any order and several at a time; the
push of an event and the commit that announces it are two steps; Envoy may call a
watermark hook inside a send, and may destroy the filter after a terminal send; a
read can fail after the head was sent; a handle can be dropped with reads queued
behind it; the configuration, and with it the engine, is dropped while streams live;
files and directories change under the server; the streamed bytes and the announced
length are computed apart; what the server writes into links and redirects comes back
through the parser; shared caches answer for the server; a test process may be killed
anywhere in its fetch or with Envoys running. `PROJECT.json` lists each hazard at its
line, with the properties that would catch it.

## Modules

| Module | Models |
|---|---|
| `Filter` | One stream: worker thread, I/O threads, Envoy's callbacks and a document root that changes |
| `MCFilter` | Its constants for TLC, and the statements of comments and docs that the runs refute |
| `FilterProofs` | Its theorems |
| `Mailbox` | What `Filter` relies on from the bridge: a queue that is emptied at once and shut for good |
| `EventBridge` | The bridge's variants, lock regions and two-step drain |
| `EventBridgeProofs` | Its theorems, and that it implements `Mailbox` |
| `Operations` | What a stream relies on from the engine: an operation calls back at most once, and never after a stop |
| `Engine`, `MCEngine` | Channel, reactor, tasks, open files, canonical-parent cache, shutdown |
| `EngineProofs` | Its theorems, and that it implements `Operations` |
| `Server`, `MCServer` | A configuration, its engine (`Engine`, extended) and the streams that share it |
| `ServerProofs` | Its theorems, on top of `EngineProofs` |
| `Body`, `MCBody` | Range planning, Content-Length, chunk layout |
| `BodyProofs` | Its theorems |
| `Conditional`, `MCConditional` | Validators, preconditions and If-Range, seen by a client that caches and resumes |
| `ConditionalProofs` | Its theorems |
| `Path` | Decoding, segment rules, mount prefix |
| `Encoding` | Negotiation with q-values and wildcards, content types |
| `Config` | What a configuration document is refused for, and the values of one that is not |
| `Site`, `MCSite` | These three together: a mounted document root behind a shared cache, and a client that browses it |
| `SiteProofs` | Theorems about `Site`, and lemmas on the three |
| `Harness`, `MCHarness` | The test harness: test processes, their threads, the disk and Envoy processes |
| `HarnessProofs` | Its theorems |

`Filter` uses the bridge as a plain sequence `bridge` and a flag `closed`; that is
justified by the refinement of `Mailbox`. It uses the engine as a set of submitted
operations that complete in any order with any result the engine can give; `Engine`
looks inside, and `ImplementsOperations` is the refinement that justifies it. `Server`
puts several, simpler streams and the engine together, which is where ownership of
handles and shutdown can be spoken of. `Filter`'s response plans are sequences of chunk kinds; `Body` shows
which bytes those chunks carry.

Definitions whose comment says *Mutant* are deliberately wrong variants of the
definition after them. No specification uses them; each run's property is known to
fail when the variant takes the definition's place.

### Filter

`phase`, `pending` and the streaming variables are the fields of `Phase` and
`Streaming`. `pc` says where the worker is: in Envoy's event loop (`Idle`), in the
event loop of `on_scheduled` (`Events`; `InHeaders` when `send_response_headers` is
on the stack), in the flush loop of `pump` (`Pump`; `InData` inside a
`send_response_data`) or in its issue loop (`Issue`). The watermark hooks may run in
`Idle`, `InHeaders` and `InData`. Each iteration of a loop is a step, so that the
hooks can come between two of them. `io` holds what the engine has not completed;
`uncommitted` counts I/O threads between `bridge.send` and `scheduler.commit`;
`commits` the scheduled callbacks. `wire` and `reply` record what Envoy was sent.

A path is a name and the tree says what an open of it finds. A request carries the
outcome of the parsers: whether it is under the mount, the verdict on its path, and
the paths of the encodings it accepts, in order. `CompleteOpen` chooses the plan that
`plan_response` may give the request, and whether the prefetch covers chunk 0.

Assumptions about Envoy: request headers come once; `on_stream_complete` is the last
callback of a stream and comes between two callbacks, not inside a non-terminal send;
scheduled events of a destroyed filter are dropped; low watermark callbacks never
outnumber high ones.

### EventBridge

One action per lock region: `send`, the locked half of `process`, one `CallF` per
event handled after the unlock, `close`. The worker is `Gone` after `close`.
(`process` leaves `Empty` whatever it found, so it would reopen a closed bridge; the
filter never calls it after `close`.)

### Engine

One action per client call, per command received, and per await of a task. A task
records where it is in `open_stat` or `read_at`. A path is its parent directory and
what its last component is; `canon` says whether a directory leads into the root. A
file is its length. A read returns between one byte and all that is available, or
fails. Every read asks for a whole chunk: the code asks for less at the end of a range
(`filter.rs:677`), which for the end of a file returns the same bytes. The callback of an
open keeps the handle or, when its stream is gone, drops
it. `seen` and `last` are histories. The unix code path is modelled; on Windows the
first open differs.

`Operations` is the abstract engine: submitted, pending and answered operations, and
a stop that drops what is pending. `ImplementsOperations` maps `Engine` to it: the
commands in the channel and the running tasks are what is pending.

### Server

`Server` extends `Engine` and gives it clients. `Become` is a stream's step: its new
phase, the open it submits and the handle it drops on return (which sends a `Close`). A handle is
in a stream's phase, in an event of its bridge, or dropped; `owner` and `asker` are
what the closures of `open_stat` and `read` capture. `Reactor(step)` is a step of
`Engine` with the callback that ends a task: `Waker::deliver` to the bridge of the
stream that asked, or, if that is closed, the drop of the event and its handle on the
reactor's own thread. `Load`, `DropConfig` and `JoinReturns` are the configuration's
life; `DropConfig` may happen with streams alive. Watermarks, inline chunks and the
batch of `process` are in `Filter` and left out here. The candidates of a request
stand for encodings, the file and index files alike. `ServerAssumption` says that an open
asks for no prefetch or for one chunk, as `submit_open` does, and that the bounds
`MaxOpens` and `MaxReads` leave room for all that the streams can ask for; `Become` and
`IssueRead` stop at them. The tree stands still: truncations and renames are in `Engine`.

### Body

A range-spec is what its text parses to: blank, malformed, a suffix, open-ended, or
a pair; numbers above `U64Max` fail to parse. `OutcomeMatchesBytes` says what the bytes
that a spec names ask for if all numbers fit, and that the header counts as absent if one
does not; `LargeRange.cfg` holds the second half against the comment on
`parse_one_spec`. A pair whose last position is before its first is taken as one that
selects nothing, as the code does. The states step through the loops of
`plan_ranges`, `multipart_parts` (while `framing` holds), `execute_plan` and
`file_chunks`. Part headers have one length, plus
the two bytes of the CRLF that precedes all but the first. A header without
`bytes=` is the header with no spec: both give the whole file.

### Conditional

`plan_response` and `validators.rs` are operators, applied to the version of the file
that an open finds. The rest is the environment that makes them matter: a client that
downloads (and may lose the connection half way), revalidates with the tag and date it
was given, and resumes with If-Range or If-Match; an intermediary that weakens its tag;
a file that is replaced, also by an older version. Comparison of tags and dates is the
`headers` crate's, modelled from the tests in `validators.rs` and from how the crate
decodes a list of tags: lazily, so that a malformed If-Match or If-None-Match is a list
in which nothing matches, while a malformed date or If-Range is no header. A request is one step:
the stat and the plan are made by one handler from one open file. An encoded variant
is one more version: its size and modification time, which may be before the epoch.
`mtime_parts` makes one time of all those; `Alike` are the versions that no validator
can tell apart for that reason, and the properties name them as their exception.

### Path, Encoding, Config and Site

A URL path is a sequence of segments, each a name and whether it is written escaped.
Of a name only these things matter: the rule that `reject_reason_for_segment` has for
it, what it reads as when it is written into a URL unescaped (`%41` reads as `A`,
`a?b` as `a`), whether it then cuts the path, whether a listing escapes it (`Escaped`:
its escaped form is then another text, also when it would read as itself), and which
name with the suffix of which encoding it is (`Stem`, `Suffix`). So decoding and encoding
are not the identity. The mount prefix is compared with the URL as text (`Spells`).
`max_path_len` is counted in segments. An Accept-Encoding header is the
sequence of its items with their q; its text is split elsewhere. A configuration
document is a function from keys to typed values, and `Refused` has one disjunct per
error of `parse`. A prefix is any sequence of names: `parse` takes only slashes at its
end away, so that `/a//b` and `//static` are prefixes with empty names (`TrimEnd`).
Names of index files are not validated by `parse` and are opened as
they stand, so `NothingForbidden` makes an exception of them: one document of the run
names `con`. That an index name is a single name is assumed.
A coding may be named twice in a header; the first item decides.

`Site` applies them: `Answer(url)` is the whole way from the request line to the
answer, over a tree that does not change (`Filter` has the steps in between). A page
records the file that was opened for it, which for a variant has a name of its own
(`VariantsOf`). A directory with an index name that is a directory gets the page
`Endless`: the code never answers it. `Enter`, `Follow`, `Click`, `Up` and `NextClient`
are browsers, and `Leave` is one that a Location with two slashes in front sends to
another host; the cache stores responses and
honours Vary. `Link` and `Parent` are the links of `render_listing`, resolved as a
browser resolves them.

### Harness

One action per effect of `start`, `fetch_envoy`, `await_ready`, `request` and `Drop`,
by each test's thread. `Kill` may come between any two of them and leaves the disk and
the Envoys as they are; `Exit` runs the `atexit` hook. `lazy` is the `LazyLock` of
`envoy_binary`: a panic in its initializer poisons it. A static server whose start
panics is poisoned likewise. Envoys are external: they write their admin address, open
a listener, crash, hang (they take connections and never answer), and end on SIGTERM.
Temporary names are the pid and a counter; the counter's two increments in `start` are
one step, since each is an atomic `fetch_add` and only their distinctness matters.

## Runs

| Run | Shows | Bounds |
|---|---|---|
| `stream` | `ReadAccounting`, `WindowCovered`: the window of reads is exact, no chunk is lost or doubled. `NeverStranded`: no lost wakeup. `DepthNeverAhead`: a drained client is not held back. `ResponseExact`: one head, then the chunks in order, nothing after the end, all of them unless a read failed. `InertNeverRead`. `Answered`: every request is answered to the end, unless the client goes away | Whole files of 1 and 3 chunks, a range of 2 and a two-part multipart of 5; window 2, so that three chunks exceed it; two nested high watermarks; a file, a directory with and without index file, one change of the tree |
| `resolve` | `ReplyMatchesTree`: the answer is the one that the code's rules give for the document root (`deny` included, see `Deny.cfg` below). `OneResolution`: one open or listing at a time, none once the stream streams | All directory modes, 0 to 2 index files, 0 to 2 encodings, every reject reason, all trees over five paths (index files that are directories apart, see below), a directory read that succeeds or fails with any kind of error |
| `bridge` | `Shape`, `Lossless`, and `ImplementsMailbox` | Two producers, two events each: all four variants, sends during a drain and after close |
| `files` | `NoLeakedFile`; `ReadsExact`: a read finds its file and returns all it has; `TypeOK`, with the bound of the cache of canonical parents, and `VerdictExact`, that it makes no difference; `Drained`: everything submitted is answered and every file is closed; `ImplementsOperations` | Two opens, one read or listing, one truncation or rename, files of 2 and 3 bytes read in chunks of 2, a directory, two parents and a cache of one, links in and out of the root |
| `server` | `FilesReachable`: no descriptor is lost between the threads. `OwnFile`: streams never get each other's files. `ShutdownReturns`, `QuietAfterJoin`: the drop of a configuration ends, and nothing runs after it. `FilesReclaimed`, `StreamsAnswered` | Two streams, a file of two chunks or a directory and its prefetched index file, window 1; four opens and four reads, which is all that they can ask for |
| `conditional` | `RevalidationExact`: 304 exactly for a current copy, however close in time two versions are, but for two of one size from before the epoch. `ResumedFromOneVersion` | Seven versions: two of one size before the epoch or at it, within one second, in different seconds, too short for the range; three replacements |
| `body` | `OutcomeMatchesBytes`, `BodyIsSelection`, `LengthAnnounced` | Up to two range-specs over numbers 0 to 5, sizes 0, 1, 3, 4, chunks of 2, at most 1 or 2 parts, `U64Max` 4 |
| `site` | `LinksLead`, `RedirectsLand`: what the server writes into a page leads where it says, through escaping, mount and decoding. `NothingForbidden`: no spelling gets a file opened under a name that is not served, but for configured index files and the variant of the root. `NegotiatedWell`: also behind a shared cache, no client gets an encoding it did not ask for, and a file has one type. `TypeOK`: an accepted configuration is within its limits | Names for every rule and four with the suffix of an encoding, 15 documents (7 of them refused, one with a `?` in its prefix, one with empty names in it), three trees four levels deep, one with a directory named as the index file, every file and directory with and without slash and mount, 9 odd spellings, `max_path_len` of three segments, so that some redirects and links are too long, five Accept-Encoding headers, one stored response |
| `harness` | `WholeBinary`: only a whole, executable Envoy is run. `NoSurvivors`: none outlives a process that exits. `OwnEnvoy`, `InUseUntouched`: a test talks to its own Envoy, and nobody takes it away. `ProcessEnds`: a test process ends, unless a test is in a call that has no timeout, to an Envoy that hangs or in the download | Two tests, on one static server or on two of their own (one stopped with SIGKILL); two processes, one after the other; one Envoy that crashes or hangs; two attempts of a request instead of three (the last and one before it) |

The window, the limits and the chunk size matter only by comparison with the number
of chunks, reads or bytes; the bounds put both sides of each comparison within reach.
The engine, server and range runs end when their inputs are used up, a refused
configuration serves no page, and the last test process ends, so these runs do not
check deadlock; the filter runs do, with `Finished` as the only way to stop.

Runs in which a statement of the repository does not hold:

| Run | Statement | What happens |
|---|---|---|
| `index_directory` | README, `index_files` and `directory` | An index name that is a directory is treated as the requested directory: the index search starts again, without end |
| `buffering` | README, `max_inflight_reads` bounds buffering | It bounds the reads under way; chunks that completed behind a slow one pile up in `ready` |
| `redirect_names` | `filter.rs` on `url_for`, README on `redirect_trailing_slash` | The Location is not escaped: the directory `%41`, asked for as `/%2541`, is redirected to `/%41/`, which is the name `A` |

Six more statements do not hold either. They are not among the runs of `PROJECT.json`;
`tlc -config X.cfg M` gives the trace. The properties of the passing runs and the
theorems are about what the code does, and name these cases where they are exceptions:

| Configuration and module | Statement | What happens |
|---|---|---|
| `Deny.cfg`, `MCFilter` | `DenyAfterIndex`: README, `directory` and `index_files`; `config.rs:12` | With `deny` a directory is answered 403 before any index file is tried. The README says so only of a directory with no matching index, the comment in `config.rs` says 404 |
| `LargeRange.cfg`, `MCBody` | `WellFormedSpecsCount`: `range.rs:93`, on what `parse_one_spec` returns | A well-formed spec with a number above `u64` is taken for an invalid one, and the file is sent whole |
| `PreEpoch.cfg`, `MCConditional` | `TagIsFingerprint`: `validators.rs:24`, times before 1970 are part of the ETag | `mtime_parts` makes 0 of all of them: two versions of one size share their ETag, and a stale copy is confirmed with 304 |
| `IfMatch.cfg`, `MCConditional` | `UnparseableIgnored`: `validators.rs:57`, a header that cannot be parsed is ignored | A malformed If-Match is decoded as a list in which nothing matches: 412 |
| `Dotfiles.cfg`, `MCSite` | `DotfilesNotServed`: README, `serve_dotfiles` | `/.` resolves to an empty path that does not end in a slash; its gzip variant is the dotfile `.gz` of the root |
| `RedirectAway.cfg`, `MCSite` | `RedirectsStay`: `filter.rs:835`, redirects point back through the mount | `/.` is redirected to `//`, which a client reads as the start of a host name; so are all directories under a prefix that begins with two slashes |

Some smaller differences met while modelling, without a trace of their own:

* `engine.rs` says that the cache of canonical parents does not change the
  open-then-verify model. A race ends with the open; a cached parent has no expiry.
  `VerdictExact` therefore speaks of trees without renames; `VerdictFresh`, its
  conclusion, fails after one.
* `response_plan.rs` says that headers of a validator that is not enabled are treated
  as if the client never sent them. If-Range is the exception (`Effective`): it is
  evaluated against an ETag or date that the server does not send.
* An If-Range date is compared by order, as the tests in `validators.rs` ask, and not
  for equality: after a rollback to an older file a download that is resumed by date is
  mixed. `ResumedFromOneVersion` says for whom this can happen.
* `filter.rs:813` says that a prefetched chunk 0 is not read a second time. The flush
  loop sends it, and so takes it from `ready`, before the issue loop looks for it
  there: it is read again, and the second copy is dropped with `ready`.
* A high watermark that comes before `Streaming` is not counted (`filter.rs:262`): the
  sends go on above it, and the low watermark that follows is saturated to zero.
* Listing links are relative. Under a URL without a trailing slash (the bare mount
  `/static`, or any directory with `redirect_trailing_slash: false`) they resolve
  against the parent; `LinksLead` therefore speaks of URLs that end in a slash.
* The prefix of a mount may contain `?`: requests are matched with it as text, but a
  browser takes what follows for the query and resolves links elsewhere. It may contain
  dot segments too, which a browser takes out before it asks. `LinksLead` and
  `RedirectsLand` are for prefixes that clients send as they are (`SentAsItIs`).
* A redirect adds a slash and a link a name. At `max_path_len` the server answers its own
  location with 414 (`Leads`).
* Listings show names that the server refuses to serve (dotfiles, reserved names).
* A redirect drops the query.
* In Accept-Encoding `Q=` is not recognised as `q=`, and a q of `identity` is ignored.
* A request for `/docs` is served `docs.gz` when that exists, also when `docs` is a
  directory.
* `directory`, `ranges`, `default_content_type` and `cache_control` with a value that is
  not a string are silently the default; values of other keys are errors.
* `run_reactor` holds a sender (`closer`), so its branch for "all senders dropped" is
  never taken. Commands behind a Shutdown are dropped with the channel.
* Harness: a pid that was reaped stays registered, so `kill_spawned` (`lib.rs:303`,
  "SIGKILL survivors") may signal a process that got the pid since. Two processes that
  fetch at the same time write the same `.envoy.partial`. A killed process leaves its
  Envoys. An admin file that a killed process left is not removed before a process with
  the same pid starts; processes are numbered in the model, so pids do not recur. A start
  that panics leaves the module directory before the `EnvoyServer`
  exists and the admin file after it; static servers' directories always stay. That
  retries never hide a product bug holds for faults that are not intermittent only.

### Fairness

`Filter!FairSpec`: weak fairness of the worker's steps (Envoy's dispatcher runs what
is posted to it), of completions (the engine's part, see `Drained`), of commits (an
I/O thread that pushed goes on) and of the low watermark (a client that stays
connected reads; one that does not is timed out, which is `OnStreamComplete`). High
watermarks, resets and changes of the tree are not forced. `Engine!FairSpec`: weak
fairness of receiving, of the tasks (the kernel completes what it was given; no error
is forced), and of dropping handles (streams end). `Server!ServerFairSpec`: weak
fairness of the reactor and its tasks, of the join, of each stream's own steps, and of
the completion of a stream that was answered. No client goes away and no configuration
is dropped by force. `Harness!Fairness`: as long as a test's thread
that is not `Waiting`, the exit, or an Envoy that was sent SIGTERM and does not hang can
take a step, one of them does. It is one weak fairness for all of them, since each has
finitely many steps in a process and a thread that waits for another has none. Nothing is assumed of an Envoy that starts: the way on is the deadline in
`await_ready`. `Waiting` are the calls that have no timeout and need not return: the
download of Envoy, an HTTP call (`agent()`, of `request` and of `discover_port`) to an
Envoy that accepts and does not answer, which also outlasts the deadline of
`await_ready`, and the wait of `Drop` for an Envoy that ignores SIGTERM. Such a thread may
go on or stay for ever, and `ProcessEnds` says that nothing else keeps a process.

## Theorems

`FilterProofs` proves for every set of requests, configurations, trees and plans and
every window, from `FilterAssumption` (the constants have their types, plans are not
empty, the window is at least 1, the kinds of paths are disjoint): `TypeCorrect`,
`ReadAccountingCorrect`, `WindowCoveredCorrect`, `NeverStrandedCorrect`,
`DepthNeverAheadCorrect`, `OneResolutionCorrect`, `ResponseCorrect`,
`InertNeverReadCorrect` and `ReplyCorrect`. The last is about what the code's rules give,
for any error of a directory read; where the documentation says otherwise of `deny`,
`Deny.cfg` shows the difference.

None of these is inductive alone. The invariant `Inv` is the conjunction of

* `Control`: where the worker may be in each phase;
* `Token`: a resolving stream has exactly one operation, in the engine, in the
  bridge or in the batch; a streaming one has only reads. This is what makes it
  right that `handle_opened` does not look at the phase;
* `Window`: the reads in the engine, the bridge and the batch are disjoint and
  distinct, they and `ready` do not overlap, and together they fill the gap between
  the cursors; inline chunks not sent are in `ready`;
* `Counting`: `inflight` is the cardinality of those reads. It needs `Window`: a
  completion moves one element from one disjoint part to another, and a handled one
  removes exactly one;
* `Wakeups`: events in the bridge have a commit coming, and a worker back in its
  event loop without one has flushed and issued all it could. With `Counting`, a
  full window means a read is somewhere, which gives `NeverStranded`;
* `InertSeeded`, `Held`: the inert handle's only chunk is in `ready`; only a
  streaming filter is held back;
* `OnWire` with `ResponseExact` (`WellFormedResponse` and `BodyComplete`): while streaming the wire
  has one message more than `next_send`, and none of them ends the stream.

`TypeOK` is proved first and each part is then proved step by step from `TypeOK`
and `Inv`; the resolution's many paths are first reduced to three kinds of step (an
answer, one more operation, the start of a body). `Inv` was checked by TLC on the
instance of `stream` before it was proved.

`ReplyCorrect` (`ReplyMatchesTree`) rests on a second invariant, `Traced`: as long as the
document root stands still, the one operation of a resolving stream, be it in the engine,
in the bridge or in the batch, is the one that its phase calls for. An open is that of a
path of the candidates or of the index files (`Opening`), `pending` is exactly what
follows it, and no path before it is a file; an index search and a listing have found the
path to be a directory that may be entered (`Entered`). The event of an open says what
the tree holds. From there every way through the handlers ends in an answer that
`Replies` has or in the operation that is called for next (`Outcome`), also when an index
name is a directory and the search starts again. TLC checked `Traced` on the instances of
`resolve`, `stream` and `index_directory`.

`EventBridgeProofs` proves `ShapeCorrect`, `LosslessCorrect` and `Refinement`
(`Spec => Box!Spec`) for any producers and any number of sends. `send` is `Put`, the
locked half of `process` is `TakeAll`, `close` is `Shut`, and handing an event to `f`
changes nothing the mailbox shows. For `Lossless`, a send appends its event to `All`
(handled, in hand and queued) and no other step on an open bridge changes it; the new
event's number is above all of its producer's there.

`EngineProofs` proves `TypeCorrect`, `LeaksNoFile`, `ReadsAreExact`, `VerdictIsExact` and
`Refinement` (`Spec => ImplementsOperations`) from `EngineAssumption` (types of the
constants; a cache, and reads, of at least 1), for any files, directories and links and
any number of opens, reads, truncations and renames. `Inv` is the conjunction of `Basics` and `Cache`
(types and the cache), `Sound` of every task, `Answer` (the last callback) and `Flow`,
which is about the channel:

* `Once`: an operation is one command or one task, never both, and was submitted. It is
  what makes a callback unique, and with that the refinement go through;
* `Unused`: an open that has not called back has given out no handle, so no read or
  Close of its id can be anywhere;
* `Found`: a live handle has its file, its Close is not sent, and in the channel a Close
  is behind all the reads of its handle. This is the order on which `ReadsExact` and the
  drop of a handle with reads queued rest;
* `Halted`: a reactor that has ended keeps no command, task or file;
* `Sound`: an open has read nothing before it knows its file, and without a rename has
  seen where its directory is; a read has found its file and read no more than there was.

`ServerProofs` proves `FilesStayReachable`, `StreamsKeepApart` and `QuietOnceJoined`, for
any number of streams, any candidates and any window, from `EngineAssumption` and
`ServerAssumption`. `ServerInv` is `Inv` of `EngineProofs` with

* `Asking`: streams list no directories through this engine, a read in the channel or at
  a task was asked for by the owner of its file, and prefetches at most a chunk;
* `Waiting`: a stream has at most one open that is not answered or whose event it has not
  handled, and holds no handle meanwhile. Without it two handles could meet in one
  `Close`, and an answer could replace a handle that nobody has dropped;
* `Holding`: the live handles are exactly those in phases and events. With `NoLeakedFile`
  it gives `FilesReachable`;
* `SoundEvents`, `OwnHandles`, `Inert`: an event carries the handle of its own open; a
  body on the inert handle has its only chunk, so that no read is sent for handle 0.

The engine's invariant is not proved again for the streams: `FlowSends` shows it for any
step that closes handles and asks for at most one operation, and `Become`, `IssueRead`
and `OnStreamComplete` are such steps. `QuietOnceJoined` is an action property: with
`Halted`, an engine that has been joined cannot take a step.

`ConditionalProofs` proves `RevalidationCorrect` and `ResumeCorrect` from
`ConditionalAssumption` (types of the constants only), for any versions and any
replacements. `TagsApart` shows that versions with one tag are `Alike`, through what
`mtime_parts` keeps of a time (`TimeParts`, `PartsApart`). The invariant relates the
client's copy to its validators: the tag, when sent, is that of the version in the copy's
first half (`Tagged`); the date may come from a later 304, but is never younger than that
version (`Dated`).

`BodyProofs` proves `OutcomeCorrect`, `BodyCorrect` and `LengthCorrect` from
`BodyAssumption` (types of the constants; chunks and framing are not empty; a file's size
fits `u64`), for any header, file size, policy, chunk size and length of framing. A header
with a number that does not fit `u64` is answered as if it were absent; that this is not
what the comment says is what `LargeRange.cfg` shows. `Inv` follows the loops:

* `Parsing`: one range for each parsed spec that selects something, in order, naming the
  same bytes, and as many as such specs; if neighbours ascend, all do (`Ordered`). From it
  `AscendingBytes` shows that the comparison of bounds decides what the bytes decide;
* `Course`: the parts to come are those of the ranges to come, and `offset` is in the
  range begun last;
* `Carried`: the file chunks are the selected bytes below `offset`, in order. A part's
  start may jump ahead because, by `Ordered`, no selected byte is in the gap;
* `Summed`: a function `g` of the number of parts, `g[k]` the length of the first `k`,
  is what `multipart_parts` adds up, and what is laid out plus the rest of the range is
  `g` of the parts begun. A witness in the invariant that grows with the loop takes the
  place of an induction over a recursive sum.

`SiteProofs` proves `TypeCorrect`, `ForbiddenCorrect`, `NegotiatedCorrect`,
`RedirectsCorrect` and `LinksCorrect` from `PathAssumption` (types of the names and
rules; the empty name is not rejected, and only what is cut at its first character reads
as it; a name that is not escaped reads as itself) and `SiteAssumption` (types of URLs,
headers and documents, with a prefix of any names, empty ones too; an index name is not
`..` and has no slash; `SuffixRule`: the suffix of an encoding alone is a dotfile, and a
suffix does not change the rule of a name that is plain or a dotfile; `IsTree`: what
`read_dir` returns has a name other than `.`, a path is a directory or a file, the
parent of a directory is one), for any names, documents, trees, URLs and headers and a
cache of any size. The exceptions are in the properties themselves; `Dotfiles.cfg`,
`RedirectAway.cfg` and the runs `redirect_names` and `index_directory` show them. Most of
the work is in lemmas on the functions:

* `LeastNat`, `FirstIs`: a set of indices has a least one, from the well-foundedness of
  `<`; it stands for the loops that stop at the first match;
* `PlaceTaken`, `Kept`: keeping some elements in order yields each of them, since every
  place up to the number of kept indices is that of one; with `NotRejected`, every name
  that a path resolves to was looked at by the rules (`Resolved`);
* `Places`, `Negotiated`: sorting by q and then by rank gives every accepted encoding a
  place of its own, and a better place means no lower q. `FirstOffered` follows: the
  first variant that exists is one that the client wants most. `VariantAllowed`: the
  variant of a path that is served has a name that is served, unless the path is empty;
* `Parsed`: a document that is not refused gives values in their ranges;
* `KeepGrows`, `NamedMore`: the names a path stands for (`Named`) when one segment is
  appended: one more, or the same if it is dropped. Every argument on links appends
  segments to a path whose names are known, so no induction over paths is needed;
* `MountedRest`, `MountedFrom`: what is written behind the segments that spell the mount
  is what `strip_mount_prefix` leaves, and a URL under the mount that ends in a slash has
  all of the mount before its query. The second needs a prefix without `?`;
* `AnswerTo`, `Reaches`, `Refuses`: a path that is not cut, under the mount, is answered
  with what it names, with 414, or, if it has a name that is never served, with an error.

The invariant `Sound` says of the page, and of all that the cache holds, that it is
`Fine` for the header it was made for; by `FineForOther` a response without Vary is
fine for any header. A link, a parent link and a redirect are URLs again
(`LinksAreUrls`, `LocationIsUrl`), so what holds of any URL holds along any walk.

For redirects and links the invariant `Current` adds that a redirect or listing is the
server's answer to the URL the client is on: only files are stored. `FromDirectory` reads
off that answer that the names shown were decoded from the URL and accepted, so the same
names, written by `url_for` (`RedirectLeads`) or kept in the base of a relative link
(`ListingBase`, `ChildLeads`, `ParentLeads`), are accepted again.

`HarnessProofs` proves `SpawnsWholeBinary`, `LeavesNoSurvivors`, `TalksToOwnEnvoy` and
`LeavesUsedServers` from `HarnessAssumption` (a server that several tests use is in a
static; a request is attempted at least once), for any tests, attempts, servers, killed processes and Envoys that crash or hang. `Inv` says what the point
at which a test is implies: who is at a point of the fetch holds the lock, and what it
renames is executable (`Fetching`); names of temporary files are taken once per process
(`Naming`) and admin files have the names their Envoys were given (`Files`); an Envoy of
this process is registered (`Spawning`); no two tests that share a server both start or
stop it (`Sharing`); the Envoy and the directory of a server in use are there (`Usage`).

Each invariant was checked by TLC on the instance of its run before it was proved.

Model-checked only: the liveness properties (`Answered`, `Drained`, `ShutdownReturns`,
`FilesReclaimed`, `StreamsAnswered`, `ProcessEnds`), which need fairness and are out of
the proof system's reach. Every invariant and every action property of a passing run is
proved.

## Not modelled

* Wording of headers, HTML and order of listings, sizes and dates shown, logging.
* How header text is split into items, YAML itself, repeated request headers
  (`RawRequestHeaders::collect`).
* Preconditions within a stream: `Filter` lets any plan be chosen that the request's
  method and Range header allow.
* A chunk that comes back short because the file shrank: `Filter` sends it as a chunk,
  as the code does; how many bytes it has is in `Engine` only.
* Windows' open path and the choice of the compio driver.
* In the harness: bootstrap documents, fixtures, stats, the build of the module, and
  processes that run at the same time.
* The benchmark (measurement only) and the module's entry point (registration only).

## Plan

Every safety property and both refinements of the passing runs are proved. Possible
extensions are the parts listed above as not modelled; when the code changes, `map` in
`PROJECT.json` says which definition to look at.
