# eClip: formal model

TLA+ specifications of eClip, a clipboard that is shared between machines of
one network (Go, `src/`), their model checking with TLC and machine-checked
proofs about them with TLAPS. Every definition is a translation of the Go code;
`PROJECT.json` names, for each of them, the lines it stands for.

## 1. The system

eClip is one process. `cmd/eClip/main.go` reads the configuration, starts the
goroutines below and waits for SIGINT or SIGTERM; the end of `main` cancels
one context (`monitorCtx`) and runs deferred calls of `Stop` and `Close`.

| component | state it keeps | operations | what makes it correct |
|---|---|---|---|
| clipboard manager, `core/clipboard/clipboard.go` | `lastContent` of the manager, `lastContent` of the Monitor goroutine, a channel of one item | `SetText`, `GetText`, `Monitor` | the items are an ordered sample of the clipboard, wrong only where a read failed unnoticed; none is lost; the reader catches up with a clipboard at rest |
| clipboard server, `network/clipboard_handler.go` | `listener`, `running` | `Start`, `acceptConnections`, `handleConnection`, `Stop` (called twice, by two goroutines) | only texts of other hosts are applied, once each; silent peers hold nobody up; one connection at most comes in after the cancellation; the shutdown logs no failure |
| peer manager, `network/mdns/peer_manager.go` | `knownPeers` under `mu`, `discoveryRunning` | `StartDiscovery` (two goroutines), `handleRemotePeer`, `SendToPeers` (a goroutine per peer), `Stop` | activity follows the last sighting; sends go to recently seen peers at an address that can be dialed; a node should not be its own peer, and can become one (section 5) |
| LRU history, `core/history/lru_cache.go` | list, map, under a mutex | `Add`, `Get`, `GetAll`, `Remove`, `Len` | list and map agree and together are a bounded list of the most recently used items |
| asynchronous logger, `logger/async_logger.go` | `closed` under an RWMutex, a channel of 100 messages | `log`, `processLogs`, `Close` | no send on a closed channel, order kept, everything accepted is printed before `Close` returns, every call returns |
| configuration and first run, `config/manager.go`, `core/first_run/first_run.go` | `cfg`, `once`; the files `config.yaml` and `.first_run_complete` | `IsFirstRun`, `Setup`, `Init`, `SaveConfig`, `GetConfig` | whatever crash or failure strikes, the flag file vouches for the saved answers; eClip runs with what was entered, unless it could not examine the flag file before a setup was complete, and starts in the end |
| main, `cmd/eClip/main.go` | `clipHistory`, the context | the goroutine that reads Monitor's channel, the start, the shutdown | the history is what was received; what came over the network is on the clipboard as it was sent; a started node can be reached; whatever fails, what was acquired is released; a signal ends the goroutines |
| mDNS browser, `network/mdns/browser.go` | `closed`, channels of ten | `NewBrowser`, `Browse`, `Close` | entries are passed on in order, and none is lost before the cancellation |
| mDNS registration, `network/mdns/service.go` | none; it opens the listener and announces the service | `RegisterService`, `selectInterfaces` | the listener is closed on every error path; the addresses it records can be used |
| history storage, `core/history/storage.go` | a cache that `ClearHistory` replaces | `AddItem`, `GetItem`, `GetAllItems`, `ClearHistory` | what was cleared is not handed out to calls that begin later, and what is added later is not lost, whoever still uses the discarded cache |
| platform clipboards, `core/clipboard/clipboard_{darwin,windows}.go` | `lastContentHash` | `Monitor`, `GetCurrentContent`, `SetText`, ... | what is sent was on the clipboard; a text set by a peer comes back only after a poll that could not read it; only a discarded send loses a change; Monitor ends though nobody reads |
| daemon, security, protocol | none | process set-up, empty files | - |

Interaction. Peers connect to the server, whose handlers (one goroutine per
connection) call `SetText`. Monitor polls the clipboard every second and sends
changes on a channel; a goroutine of `main` takes them, adds them to the history
and calls `SendToPeers` when their Source is local. mDNS feeds the discovery
goroutine. All but the server, which uses Go's `log`, write to
the asynchronous logger. One cancelled context ends all of it.

Hard behaviour: `SetText`, Monitor and other programs write and read the
clipboard with no lock, and on Windows neither a failed read nor a failed write is
reported; a blocked channel send and a blocked `Accept` are not
interrupted by the context; `running` is shared without a lock; sightings race
expiry and sends; the logger's read lock is held across a channel send while
closers wait; a crash or an error may leave a file
truncated or cut short, or come between the two files of a first run; each step of the start may fail, and what was
acquired before is released by deferred calls or by hand; the platform managers
read three formats at three times and share a hash with `SetText`; a call on the
history storage may still work on a cache that `ClearHistory` has replaced and hand
out what it finds there. The list of hazards, with the line where
each bites and the properties that guard it, is in `PROJECT.json`.

## 2. Modules

| module | models | kind |
|---|---|---|
| `ClipboardShared` | the texts, the connections and the context both parts below have in common | declarations |
| `ClipboardManager` | Monitor, `SetText`, the channel and its reader | state machine |
| `ClipboardServer` | accept loop, handlers, both `Stop` calls, the kernel's backlog | state machine |
| `RecentLists` | lists of items with distinct keys in order of use, and what adding and reading make of them | operators |
| `RecentItems` | what a history promises | abstract specification |
| `LRUCache` | list, map and every operation of the cache; refines `RecentItems` | state machine |
| `HistoryStorage` | callers of the storage, the cache in use and the discarded ones, each as a list of items | state machine |
| `HistoryCache` | the storage working on an `LRUCache`, which `ClearHistory` may take from under its callers | composition |
| `AsyncLogger` | `log`, `Close`, `processLogs`, the RWMutex, the channel | state machine |
| `PeerManager` | discovery, expiry, `SendToPeers` and its dialers, time | state machine |
| `ConfigStartup` | one start after another, with crashes, errors and edits | state machine |
| `PlatformClipboard` | the managers of darwin and Windows, with the build as a variable | state machine |
| `MdnsBrowser` | the goroutines of `Browse` and of discovery, and the library | actions, used by `Lifecycle` |
| `Lifecycle` | `main` from its first step to its end, `RegisterService`, discovery beside it | composition |
| `ClipNode` | manager, server, history and main in one process | composition |
| `ChannelLemmas` | facts about sequences used as channels | lemmas |
| `HistoryProofs` | theorems about `LRUCache`, `HistoryStorage` and `HistoryCache` | proofs |
| `ClipNodeProofs` | theorems about `ClipboardManager`, `ClipboardServer` and `ClipNode` | proofs |
| `*Proofs` | theorems about the module of that name | proofs |
| `MC*` | small constants for TLC | model checking |

### How state and actions correspond to the code

A goroutine is a variable that holds its program point (`monitor`, `acceptor`,
`call[c]`, `conn[c]`, `caller[c]`, `closer[k]`, `discovery`, `expiry`, `pc`);
its steps are what other goroutines can see. Code under a mutex is one step
(the cache, `knownPeers`). Code that two goroutines run without a lock is cut
where they can meet:

* `ClipboardManager`: `SetText` is `SetTextBegin`, `SetTextWrite`, `SetTextRecord`;
  instead of the write there may be `SetTextFail`, an error, or `SetTextLost`, a
  failure of the library for Windows that nothing reports
  (`clipboard_windows.go:391-394`). `Poll` is a tick whose `GetText` succeeds with a
  new content; a tick that finds nothing new or whose `GetText` returns an error
  changes no state. `Misread` is a tick whose read fails without an error
  (`clipboard_windows.go:386-389`): it is an empty text, reported like any other
  content; `failed` remembers where. The ID of an item is the time of its poll in
  nanoseconds; two polls are a tick apart, so it is counted in items.
  `MonitorSend` is the
  blocking `items <- item`. The clipboard is kept as the sequence of the
  contents it held, so that an item can be traced to the moment it was read.
* `ClipboardServer`: `StopFlag` and `StopClose` are the two statements of
  `Stop`. `CheckContext` is the select at the top of the loop; `Accept` and
  `AcceptFails` are the two results of `Accept`; `AfterFailure` is the error
  branch, which reads `running`. `HandleMessage` covers decoding and the two
  tests, `SetTextReturns` the rest.
* `PeerManager`: `Advance` lets a sync interval (2 s) go by. `LastSeen` is kept
  as the age of the sighting, and ages above 8 intervals, which nothing tells
  apart, are one value: time has no bound. The ticker's countdown is `untilTick`.
* `AsyncLogger`: `RLock`, `Check`, `Send` or `Drop` are the steps of `log`;
  `Lock`, `Mark`, `CloseChan`, `Wait` those of `Close`. The RWMutex keeps readers
  out while a writer waits, as Go's does.
* `ConfigStartup`: `os.WriteFile` truncates and then writes, so each save is
  several steps with a possible crash (of the process) or error between, and a part may have been
  written (`WritesPart`): that part does not parse, or it parses and has lost the
  password or the end of a credential. `Dies` can strike anywhere. `StatFails` is a
  `Stat` of the flag file that fails though the file may be there.
* `ClipNode` extends `ClipboardManager` and `ClipboardServer`, which share the
  connections (their handlers are the callers of `SetText`) and the context, takes
  the operators of `RecentItems` for the history, and joins the steps the parts
  share: a handler that accepts a message begins a `SetText`; a signal cancels the
  context of both; the consumer's receive adds to the history, with the ID of the
  item as its key. The steps of a part
  inside the node are steps of its own specification (`NodeSteps` in `ClipNodeProofs`),
  so what holds of the parts by themselves holds there; `origin` remembers over which
  connection each content of the clipboard came.
* `PlatformClipboard`: `SetTextWrite` and `SetTextRecord` are the command and the
  assignment to `lastContentHash`; a write may fail unnoticed (`SetTextLost`). A poll is
  `Tick`, then up to three reads
  (`Finds`, `Misses`, `ReadFails`) at different times, then `NoChange`, `Send`,
  `Discard` or `MonitorStop`. Comparing and recording the hash is one step, which
  loses nothing: a `SetText` that records between the two ends like one
  that records before or after both. A hash is represented by the bytes it was
  computed from (SHA-256 does not collide); the item type is not part of it.
* `HistoryStorage`: the caches that were ever in use are a sequence, each one the list
  of its items; the last one is `s.cache`. A call reads that
  pointer (`LoadsToAdd`, `LoadsToGet`, `LoadsToGetAll`), then works on the cache it
  pointed to (`AddItem`, `GetItem`, `GetAllItems`, each under the mutex of that
  cache), then returns what it found. `ClearSwaps` puts an empty cache at the end.
  The other branch of `ClearHistory` (`storage.go:80-93`) is for a `NewLRUCache` that
  fails, which it does only for a size that `NewStorage` does not let through: it
  cannot be reached and is left out. The pointer is read and written as a whole, and a
  call begins after a clear when what the clear wrote is visible to it.
  `HistoryCache` has list and map of `LRUCache` for the first of the caches: each call
  that works on it takes the step of the cache of the same name, before and after the
  clear. `Remove` is an operation of `LRUCache` that nothing in the program calls, so no run takes it;
  the theorems about `LRUCache` cover it.
* `PeerManager`: what mDNS reports of a service is any of its addresses, IPv4, IPv6 or
  both; of the node's own service, any of those it announced. The name test compares
  names as the code does, and the names it compares are as `service.go` and the
  library make them.
* `MdnsBrowser`: two goroutines and two bounded channels; the library reports services
  any number of times and may close its channel at any time.
* `Lifecycle`: `step` walks through `Start`, the steps of `main` with those of
  `RegisterService` in their place. `held` is what the process has
  acquired, `deferred` the stack of deferred calls. Each call that returns an error
  may fail; `Fatalf` skips the deferred calls, a panic runs them, a
  signal kills the process until `signal.Notify` was called. The operations of the
  manager and the server themselves are in `ClipNode`.

External, modelled from how the code uses it: the clipboard of the operating
system, the commands `pbpaste`, `pbcopy` and `osascript` and what they print, the
kernel's TCP, `container/list`, `sync.RWMutex`, mDNS (zeroconf), the
network interfaces, the file system, the user.

Definitions such as `UncheckedTop`, `NoClosedCheck` or `FlagFirst` are plausible
bugs: each property comes with one that breaks it (`mutants` in `PROJECT.json`).

## 3. What TLC checks

| run | bounds | properties |
|---|---|---|
| `server` | 2 connections, 2 types, 1 text, 2 hosts | `ServerTypeOK`, `AtMostOneLate`, `QuietShutdown`, `OnlyForeignTexts`, `PeersAreServed` |
| `history` | 3 keys, 2 values, size 2, 3 list elements, 2 users of the storage, 1 clear | `TypeOK`, `Consistent`, `IsRecentItems` (refinement), `CacheHoldsItems`, `ClearedIsGone`, `AddedIsFound` |
| `logger` | 2 callers with 2 calls each, 2 closers, channel of 2 | `TypeOK`, `NoPanic`, `FlushedOnReturn`, `CallsReturn` |
| `node` | 2 connections, 2 texts, 2 writes, history of 2 | `HistoryIsLatest`, `TextsAsSent` |
| `node_live` | 1 connection, 2 texts, 2 writes, 1 misread, history of 2 | `TypeOK`, `StreamInOrder`, `NothingLost`, `HistoryCatchesUp`, `ShutdownEnds` |
| `peers` | one remote service and the node's own, 1 IPv4 address, 2 IPv6 addresses (one unusable), 1 item; no bound on time | `TypeOK`, `ActivityFollowsAge`, `FreshTargets` |
| `platform` | both builds, 3 contents (one empty), 3 kinds of clipboard, 1 caller of `SetText`, 3 contents over time, 1 failed read or silent write | `TypeOK`, `EchoSuppressed`, `FaithfulSample`, `CatchesUp`, `MonitorEndsAlone` |
| `lifecycle` | 2 interfaces in 3 states, 1 change of them, 2 services, 3 reports, channels of 1 | `TypeOK`, `Ready`, `CleanExit`, `EntriesInOrder`, `EntriesArrive` |
| `startup` | 3 names (one blank, one what is left of the other), 5 faults (crashes, failed system calls, edits) | `TypeOK`, `FlagMeansSaved`, `RunsAsAnswered`, `SetupOnce`, `StartsInTheEnd` |
| `node_echo` | 1 connection, 2 texts, 3 writes, history of 1 | `NetworkTextStays`, violated |
| `peers_own` | as `peers` | `SkipsItself`, violated |
| `startup_init` | 1 fault | `InitTellsTheTruth`, violated |

Why these bounds are enough. Two callers and two connections are the smallest
numbers at which goroutines of one kind meet. Three keys in a cache of
two evict, with every order of use, and a known key may get a new value; of two users
of the storage one is at work on a discarded cache while the other clears the history and
then works on the new one. In `node` two peers write at the same time, in either order,
beside a user; liveness is checked with one peer and a user, since it forbids the symmetry
that keeps `node` small. There two writes after the first content fill the buffer and the blocked
send, and one of the reads may fail anywhere among them. On the platform clipboard three contents are one before
Monitor starts, one that is set and one that races it; one item in the buffer and one
change more are a discard. Three reports fill both channels of one and the hand
between them, and two services tell their order; one change of the interfaces
may come before the selection, between selection and reading, or after. Two messages in the channel
show their order, and two callers with two calls each fill it and make one wait
while two closers compete. Five faults allow a crash in the first setup, in the
second and in between, with an edit and an error. The bounds are `MaxWrites`,
`MaxMisreads`, `MaxClears`, `MaxLogs`, `MaxFaults`, `MaxFailures` (reads of the platform
clipboard that fail and writes that fail unnoticed), `MaxReports` and `MaxChanges`; `Size` and `Capacity` are parameters of the code.

`CHECK_DEADLOCK FALSE` is given where the program may stop: no more writes, both
goroutines ended, nobody starts the process. The history storage never stops and is
checked for deadlock.

### Fairness

* Goroutines that can take a step take one (weak fairness of each): the Go
  scheduler does not starve a runnable goroutine.
* The ticker keeps ticking and `GetText` does not fail for ever, with an error or
  without (`Poll`).
* The reader of the channel, the consumer of `ClipNode`, reads or ends.
* A `select` does not prefer for ever an item over a context that is done
  (`ConsumerEnds`): Go chooses at random.
* The kernel does not pass one waiting connection over for ever (strong fairness
  of `Accept(c)`), and `Accept` on a closed listener returns. The former leaves out so many
  silent peers that no file descriptor is left for a new one: handlers wait for their
  peers without a deadline, so that this may happen in the code.
* The commands that read the clipboard end, and the `select` of a platform Monitor
  that meets a cancelled context again and again takes it once (strong fairness of
  `MonitorStop`); its reader is not assumed to read.
* `main` goes on from step to step, and the goroutines of discovery run; that the
  library finds or closes anything is not assumed.
* Standard output does not block for ever (printer of the logger and the warning
  about a dropped message).
* The user answers the questions of the first run and starts eClip again.

Nothing is assumed of peers, of other programs, of signals, or that an error
does or does not happen. `ClipboardManager`, `PeerManager`, `LRUCache`, `HistoryStorage` and `HistoryCache`
have no liveness property and no fairness of their own.

## 4. What is proved

The proofs hold for every value of the constants. Assumptions: the named
`ASSUME`s of the modules (the empty text is a text; size and capacity are
positive; the markers for "no message" and the like are not messages; ...).

`ClipNodeProofs` holds what is proved of the manager, of the server and of the
node they form: of the first two for their own specifications (`ManagerSpec`,
`ServerSpec`), with any number of callers and of peers that do as they like, and
then of the node, which is shown to take only their steps.

| theorem | of | argument |
|---|---|---|
| `TypeCorrect`, `ManagerTypeCorrect`, `ServerTypeCorrect`, `StorageTypeCorrect` | each module's type invariant | inductive by themselves, except the ones of `ClipNode`, of `Lifecycle` and of the cache and the storage, which need the invariants below: the cache, for instance, keeps its types only while list and map agree |
| `ManagerReportsAreInOrder`, `ManagerReportsOnce`, `ManagerReportsArrive` | `StreamInOrder`, `NoRepeatedReport`, `NothingLost` | inductive with `PolledIsReported`, the content Monitor remembers is that of the last item it reported (the code compares with the remembered content, the property with the reported one), and `IDsArePlaces`. The same content is reported again without a write in between only when a failed read, seen as an empty text, stands between |
| `ServerLateBound` | `AtMostOneLate` | `LateInv`: after a late `Accept` the loop is on its way to the context check and never back at `Accept` |
| `ServerShutdownIsQuiet` | `QuietShutdown` | `ShutdownInv`: a listener is closed only with `running` cleared, and an error due to the closing is handled only afterwards |
| `ServerForeignTextsOnce` | `OnlyForeignTexts` | `AppliedInv`: a handler in `SetText` has an applicable message, and an applied connection is closed |
| `PartsKeepPromises` | `StreamInOrder`, `NoRepeatedReport`, `NothingLost`, `AtMostOneLate`, `QuietShutdown`, `OnlyForeignTexts` in the node | the invariants of the parts carry over: a step of the node is one of a part or leaves the part alone (lemma `NodeSteps`) |
| `HistoryKeepsLatest` | `HistoryIsLatest` | the ID of an item is its place among the reported ones (`IDsArePlaces`) and the consumer receives them in that order (`NothingLost`), so the item it takes has an ID that is not in the history, whose keys are the IDs of the last items received (`HistoryInv`) |
| `TypeCorrect`, `NetworkTextsAreAsSent` of the node | `TypeOK` of `ClipNode`, `TextsAsSent` | `HandlersAreCallers`: a connection waits for `SetText` exactly while its handler is in it, with the text its peer sent. `WrittenInv`: a handler that has written is about to record, or is closed and among the applied ones, so it never writes again; a message under way is applicable (`AppliedInv`) |
| `MapMatchesList` | `Consistent` | inductive with the types; lemmas about dropping and moving elements of sequences without duplicates |
| `CacheIsRecentItems` | `IsRecentItems` | step by step, with what `GetAll` returns as the abstract list: two lists are equal when they are so element by element, and removing a key from one is removing it from the other |
| `ClearLeavesNothing` | `ClearedIsGone` | `NothingGone`: what is gone for a call is not in the cache it has loaded, nor in what it holds; a call still at work on a discarded cache began before, and what it adds there no later call loads |
| `StorageUsesTheCache` | `CacheHoldsItems` | the invariants of cache and storage together: a step of the whole is one of the storage, and one of the cache or none (`HistorySteps`), and the cache does to `GetAll` what the storage does to its list |
| `AddedStays` | `AddedIsFound` | `UsedLast`: in front of what was added since the clear there are only items used since, each once (`PlacesFit` is the pigeonhole argument), so the one that is evicted has as many others used after it as fit |
| `NeverPanics`, `PrintsInOrder`, `CloseFlushes` | `NoPanic`, `PrintedInOrder`, `FlushedOnReturn` | `LockInv`: readers are exactly the callers inside `log`, and exclude the writer; `ClosedInv`: once closed is set nobody is in the send, and one closer at most is between mark and wait |
| `ActivityBound`, `TargetsAreFresh` | `ActivityFollowsAge`, `FreshTargets` | `AgeInv`: the age of an active peer plus the time to the next tick is at most 8, an inactive one is older than 6 |
| `FlagVouches`, `RunsWithAnswers`, `SetupIsFinal` | `FlagMeansSaved`, `RunsAsAnswered`, `SetupOnce` | `PointInv`: what `cfg`, the file and the flag are at each program point; behind the setup without a flag there is only a start whose `Stat` failed |
| `EndsClean`, `ReadyWhenStarted` | `CleanExit`, `Ready` | `ReleaseInv`: at each step of the start what is held is what the deferred calls release (`CallsAt`, `HeldAt`), and of the calls that are left while the process unwinds the same is true (`Owned`); so after the last one nothing is held. `AddrInv` for the address |
| `NothingLost` of `Lifecycle` | `EntriesInOrder` | by the actions of the browser, on associativity of concatenation: a step moves a service from one place to the next, or the context is cancelled and the goroutine ends. `StartedOnce` is needed since a second start after a loss would break it |
| `EchoIsSuppressed` | `EchoSuppressed` | `SettledInv`: from an undisturbed return of `SetText` until the next write no call is about to record another hash, and a poll finds that text, or nothing; it knows the hash unless it has forgotten it, that is unless a poll found nothing before |
| `SamplesAreFaithful` | `FaithfulSample` | `PollInv`: the item of a poll was seen after the one sent last, on a clipboard that only grows (`StepExtends`) |

`ManagerTypeCorrect`, `StorageTypeCorrect`, `ManagerReportsOnce`, `PrintsInOrder` and
`PartsKeepPromises` are proved for formulas no run lists by themselves: what the runs of
the node, of the server, of the history and of the logger check covers them.

Every invariant and every action property of a passing run is stated by a theorem; a run
shows it on a small instance, with a mutant of the code that breaks it. Only
model-checked are the liveness properties (`CatchesUp`, `PeersAreServed`,
`CallsReturn`, `HistoryCatchesUp`, `ShutdownEnds`, `MonitorEndsAlone`,
`EntriesArrive`, `StartsInTheEnd`): fairness speaks of ENABLED, which is out of
the prover's reach. The three violations of section 5 are of course not theorems.

## 5. What the code does otherwise than it says

Shown by runs:

* `node_echo`: the comment at `cmd/eClip/main.go:203-205` relies on `SetText` to
  fill in the Source; Monitor always leaves it empty, so a text received from a
  peer is sent to the peers again.
* `peers_own`: `isLocalPeer` means to tell the node's own service from others
  (`peer_manager.go:56`), but the name it compares ends in `.local` (`service.go:97-100`)
  where mDNS reports `.local.`, so the name test never matches, and of the addresses it
  compares only IPv4 ones (`:63`). An entry with IPv6 addresses only, or with addresses
  the machine has lost since, is taken for a remote node: the node dials itself.
* `startup_init`: `Init` returns nil when an earlier `Init` failed, and
  `GetConfig` then panics, though its comment says it panics only without a
  successful `Init`.

Noticed while reading, without a run of their own:

* The dial goroutine writes nothing to the connection, the serialisation being a
  comment (`peer_manager.go:252-254`), and logs that it sent the item (`:255`).
* The logger ignores its `filePath` (`async_logger.go:63-65` against `:86`).
* A read of the clipboard that fails on Windows is an empty text without an error
  (`clipboard_windows.go:386-389`): Monitor reports it as an item and then the
  unchanged content again. A write that fails there is not noticed (`:391-394`).
* A poll of a platform manager that finds nothing clears the hash
  (`clipboard_darwin.go:250-256`), so the text of a peer that is still on the
  clipboard is then reported as if the user had copied it.
* A `Stat` of the flag file that fails, for whatever reason but a missing file, is
  taken for a flag (`first_run.go:30-33`): if no setup was complete eClip then runs
  with the defaults or a part of the answers.
* The configuration is written in place (`manager.go:127`): a write cut short may leave
  a file that does not parse, and every later start fails until the user removes it.
* A `GetItem` that began before `ClearHistory` may return a cleared item after it
  (`storage.go:57`): `ClearedIsGone` is about calls that begin later. The fallback of
  `ClearHistory` (`:80-93`) cannot be reached.
* `Setup` accepts blank credentials, which `config.yaml:3` calls required; the
  default history capacity in the code and in `config.yaml` differ; the log level
  is fixed at `main.go:69`; `mdns_enabled` is not read.
* `NewManager` does not call the `newManager` of a platform, though the comment at
  `clipboard_darwin.go:29` says it does: `main` runs the generic manager, which is
  therefore the one in `ClipNode`.
* `GetText` of darwin means to treat exit code 1 of `pbpaste` as an empty clipboard
  (`clipboard_darwin.go:40-43`), but tests the type of an error that line 402 has
  wrapped, so it returns the error.
* The windows Monitor compares an error with "failed to open clipboard after
  retries" (`clipboard_windows.go:273`), which no error it can get equals.
* The hash of a platform manager is of the content alone: a text and a file list
  with the same bytes are one content. When nothing could be read the hash is
  cleared, so that an unchanged clipboard is reported again after a failed poll.
* An item of a platform manager carries the host name as Source, `main.go:206`
  compares it with a name that ends in `.local` (`service.go:98`): such an item
  would be taken for one of the network unless the host name ends so too.
* zeroconf reports a service once as long as it stays, and an entry that is not
  seen again becomes inactive after six sync intervals, so a peer that is still
  there is not sent to.
* When `NewBrowser` fails, `discoveryRunning` stays set (`peer_manager.go:113`); no
  caller starts discovery again.
* The listener is closed before the service is unregistered, so for a moment a
  peer finds an address that does not answer.

## 6. Not modelled, and the plan

What the runs check for safety is proved. What is left:

1. What the liveness properties rest on, as far as it can be said without ENABLED:
   that a step which is taken brings the goal nearer (a variant).
2. Theorems about actions the runs do not single out, for instance which steps may
   change `lastContentHash`.

The model may also grow to a network of nodes (whether a text goes round between
two of them). That is left out as long as the dialer writes nothing to its connection:
today no text leaves a node.

Left out for good:

* `daemon` (calls of the operating system; `main` has them commented out),
  `pkg/security`, `pkg/protocol` (empty), `clipboard_other.go` (a placeholder).
* The windows functions that call the clipboard API directly
  (`clipboard_windows.go:109-235`) where nothing calls them, and the writers of images and files,
  which are stubs.
* `parseServiceType`, `parseLogLevel`, the formatting of log messages, the fields of the
  configuration other than the two credentials.
* The fallback of `ClearHistory` for a `NewLRUCache` that fails, which is never reached.
* Torn reads of `s.cache`, which `ClearHistory` replaces under a lock its readers do not
  take, and a pointer read from an older write: a call loads the current cache or, when
  it loaded earlier, a discarded one.
* Torn reads of `lastContentHash`, which Monitor and `SetText` share without a
  lock: the model reads and writes it as a whole. The TLC instance has one caller of
  the platform `SetText`.
* What `osascript` prints when it finds nothing is external; the model takes the
  comments at `clipboard_darwin.go:68` and `:94` as they are.

`HandleMessage` treats image and file messages as the code does: they are logged
and dropped.
