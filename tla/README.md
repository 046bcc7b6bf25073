# Verification of go-exp

go-exp is a collection of small, independent Go programs. This directory holds
TLA+ models of the eleven that have concurrency, failure handling, persistent
effects or an algorithm worth checking, the TLC configurations that check them
and, for each of them, TLAPS proofs. The code is the reference throughout: every
definition has an entry in `PROJECT.json` ("map") with the lines it models.

Contents: [Parts of the system](#parts-of-the-system) ·
[Modules](#modules) · [Runs](#runs-and-what-they-show) ·
[Fairness](#fairness) · [Proofs](#proofs) ·
[Disagreements](#where-the-code-disagrees-with-what-is-said-of-it) ·
[Abstractions](#abstractions) · [Not modelled](#not-modelled) · [Plan](#plan)

## Parts of the system

The programs share no code and never call each other: each is its own Go module
and process. What interacts is inside a program (goroutines, locks, channels)
or between a program and its surroundings (network peers, the kernel, files, a
later run of the same program).

### sctptunnel (`client.go`, `server.go`, `stream.go`)

Carries many TCP connections over one SCTP association ("like socat but over
SCTP", main.go:16).

* State: a map of streams per side, never shrinking; a channel `In` of 1024
  slices per stream; two unbuffered `getChannel` channels per connection; one
  read array that the server reuses for every message.
* Operations: accept (client), dial at the first message (server), the reader
  of the association, `SendToStream`, `pipe`, `getChannel`, discarding after a
  failed dial.
* Interaction: per side one reader goroutine, and per connection one `pipe` and
  two `getChannel` goroutines; they meet in the map, in `In` and in the
  association, which is bounded too.
* Hard: data of one connection is in up to seven places at once; slices of the
  shared array are queued; three kinds of blocking (full channel, full
  association, busy `pipe`) can close a cycle; closing and failure anywhere.
* Correct means: each direction of a connection is a byte stream; nothing stops
  for ever while data can move; ends of connections are passed on.

### sshproxy (`main.go`)

An SSH server for port forwarding that limits the addresses a user connects
from.

* State: `activeSessions`, user to slice of (IP, last use), under `rwLock`.
* Operations: `connPolicy` on each login and each forwarding request; the
  cleaner goroutine, every 10 s.
* Interaction: handlers run concurrently; the cleaner reads the map and the
  slices without the lock and locks only to remove "the entry at index i".
* Hard: check and use of an index are separated by the wait for the lock;
  slices share or replace their arrays; expiry (30 s) races renewal; removal
  inside a `range` loop.
* Correct means: the list stays bounded, without doubles, holds what was
  granted, loses only what is old, and old entries do go.

### siemsend (`sentinel.go`, `opensearch.go`, `elastic.go`, `splunk.go`)

Sends the lines of stdin to a SIEM by one of four sub-commands.

* State: the batch and its counter (sentinel), the line counter used as
  document ID (opensearch), the bulk indexer's queue (elastic), the connection
  map (splunk); outside the process, the index and what was printed.
* Operations: scan, send a batch, print it on failure, finish.
* Interaction: the bulk indexer's workers; the next run, which may be fed what
  this one printed (README.md:5).
* Hard: requests refused, lost or answered late; a retry of what was stored;
  lines longer than the scanner's buffer; the last, shorter batch.
* Correct means: no line is lost without being printed (sentinel), batches are bounded,
  IDs are line numbers, each line elastic reads is stored or its failure told before the
  run ends, and the run ends.

### fakedns (`main.go`)

A DNS server that answers names by rules from a file and forwards the others.

* State: one map and two ternary search trees built at start, if a rule file is given; one
  upstream connection under `dnsLock`.
* Operations: `LoadDomainsCsv`, `inDomainList`, `ApproperiateIP`,
  `processQuestion`, `performExternalAQuery`.
* Interaction: one goroutine per query; they share the upstream connection.
* Hard: one map serves three match modes, so lines interfere; suffixes are
  prefixes of reversed names; concurrent queries on one connection; reconnect; a start
  without rules, which leaves the trees nil.
* Correct means: the tables say what the lines say, replies belong to the name
  asked, every query is replied to (with rules: without them the first ends the server).

### gopherchain (`main.go`, `tun2socks.go`, `dns.go`)

Creates a named network namespace whose traffic goes through a TUN device to a
proxy.

* State: the namespace and its name under `/run/netns` (which outlives the
  process), which namespace each OS thread is in, what is set up.
* Operations: sixteen set-up calls in order, deferred removal, the engine's and
  the DNS listener's goroutines, signals.
* Interaction: goroutines share OS threads, and a namespace belongs to a thread;
  runs share the name.
* Hard: failure of any call; kill or interrupt at any point; the scheduler moves
  a goroutine between `netns.Set` and what should happen inside the namespace.
* Correct means: once the user is told to go ahead the engine runs and only a signal ends the
  run; a run that returns leaves nothing behind; no run removes another's name; `main`
  does not hang; the engine works inside the namespace.

### allhash (`main.go`)

Five digests of one file at once.

* State: one open file with one offset, the slice `c.Hashes`, a wait group.
* Operations: open, `io.Copy` of md5, sha1 and sha256 from the shared file, tlsh and
  ssdeep from the file's name, an append each, the print.
* Interaction: five goroutines share the offset and the slice, without a lock.
* Hard: who reads which chunk; two appends that overlap; an error that ends the
  program while others run.
* Correct means: each hash printed is of the given file (README.md:3-4, main.go:1), what is
  printed has each algorithm once, main waits for all. (The first is so for tlsh and ssdeep only, see
  [below](#where-the-code-disagrees-with-what-is-said-of-it).)

### elasticdump (`elasticdump.go`)

Dumps the indices of an Elasticsearch server into a file each.

* State: a scroll cursor on the server, an answer in hand and a file per index; the
  unbuffered `done` channel.
* Operations: list the indices, search, create the file, write a page, ask for the
  next, tell main; `check`, which panics.
* Interaction: a goroutine per index; main counts answers; a deferred send comes
  before a panic ends the program.
* Hard: no answer, another answer, half an answer, a failed write, in any goroutine
  at any time.
* Correct means: each file is a stream of its index's pages, complete if nothing went
  wrong; main takes as many answers as there are goroutines and ends.

### pebble-cli (`main.go`, `flags.go`)

Puts lines into a pebble database, removes, queries and dumps them.

* State: the open batch, what was committed but not synced, the database on disk,
  which later runs find.
* Operations: `index`, `remove`, `query`, `dump`; a kill or the end of the process
  at any point.
* Hard: the last, shorter batch; commits without sync and no `Close`; a line that is
  no pair.
* Correct means: the disk always holds the whole batches of a first part of what was
  read, nothing is dropped between batches, reads show what was written.

### redlineparser (`main.go`)

Turns a folder of a stealer's logs into Parquet files, one for each kind.

* State: per reader the entry being collected; the rows; the output files, which
  later runs find; `UniqueID`.
* Operations: six readers, one after the other; `writeParquetFile`; several runs into
  one output folder.
* Hard: where an entry ends, and what it leaves to the next; a line that is too long; a
  reader, a row or the writer's end that fails; a panic between two kinds.
* Correct means: every row is of one block of its text, each field the last of its
  name; an output file is one run's and whole, or the run told of it.

### mhs (`main.go`)

An HTTP server that takes Splunk HEC requests and logs their events.

* State: the shared log; per request where its handler is.
* Operations: `tokenAuth`, the handlers of five paths, others.
* Interaction: a goroutine per request, all writing one log.
* Hard: a bad line after good ones were logged; requests in between.
* Hard, too: the body is read without a time limit, so a client may hold a handler as long as it likes.
* Correct means: the answer tells what is in the log, each event is logged once and in the
  order of its body, every request whose body has come is answered.

### sniplex (`main.go`)

Forwards TLS connections by the name they ask for.

* State: the map of names to backends; the routes made from it in Go's random order.
* Correct means: a connection goes to the last backend given for its name, or to the
  default.

### The others

spitcurl, proxyenv, sockstls, identme, oauth2. See [Not modelled](#not-modelled).

## Modules

| module | what it is | code |
|---|---|---|
| `ByteStream` | abstract specification: one direction of a connection | what sctptunnel promises |
| `Tunnel` | the tunnel, both sides, association included | `sctptunnel/` |
| `MCTunnel` | instances for TLC | |
| `TunnelProof` | theorems about `Tunnel` | |
| `SessionTable` | abstract specification: a user's sessions as a table | what sshproxy's list promises |
| `SshProxy` | `connPolicy`, slices, cleaner, time | `sshproxy/main.go` |
| `MCSshProxy`, `SshProxyProof` | instances; theorems | |
| `Siemsend` | the four sub-commands over several runs | `siemsend/*.go` |
| `MCSiemsend`, `SiemsendProof` | instances; theorems | |
| `RuleServer` | abstract specification: rules and replies | what fakedns promises its clients |
| `FakeDns` | loading, lookup, concurrent queries | `fakedns/main.go` |
| `MCFakeDns`, `FakeDnsProof` | instances; theorems | |
| `Gopherchain` | set-up, threads, signals, several runs | `gopherchain/*.go` |
| `MCGopherchain`, `GopherchainProof` | instances; theorems | |
| `AllHash` | goroutines on one file and one slice | `allhash/main.go` |
| `AllHashProof` | theorems about `AllHash` | |
| `DumpStream` | abstract specification: the dump of an index | what elasticdump promises |
| `ElasticDump` | main, the goroutines, the channel, the server's cursors | `elasticdump/elasticdump.go` |
| `ElasticDumpProof` | `ElasticDump` implements `DumpStream`; what it tells is so | |
| `PebbleCli` | the four commands over runs and kills | `pebble-cli/*.go` |
| `Redline` | main and the output files over runs | `redlineparser/main.go` |
| `RedlineParse` | the six readers | `redlineparser/main.go` |
| `Mhs` | requests, handlers, the log | `mhs/main.go` |
| `Sniplex` | flags, map, routes, choice | `sniplex/main.go` |
| `MCTools` | instances of these seven, which share a run | |
| `ToolsProof` | theorems about `PebbleCli`, `Redline`, `RedlineParse`, `Mhs` and `Sniplex`, and about the run that the seven share | |

How state and actions correspond to the code:

* **Tunnel.** A chunk `<<s, k>>` is the k-th read from the TCP peer of connection
  `s`. Its way is a sequence of variables, one per place in the code: `ch2` (offer
  of `getChannel`), `b2` (`pipe`'s local), `net` (association), `pend` (the slice
  the reader is blocked on in `s.In <- b`), `inq` (`In`), `ch1` (offer), `b1`,
  `out` (the other TCP peer). `hnd` is the state of the handler goroutine. The
  server queues `Shared`, a reference to its array `buf`, and `CopySlice` reads
  `buf` when `stream.Read` copies: it may be another message by then, or `Torn`
  while the next `SCTPRead` writes. Actions have the names of the code's steps;
  `SelectStream`, `SelectTcp`, `WriteTcp` and `WriteSctp` are `pipe`.
  `Tunnel` implements `ByteStream` in the download direction (`Down!Safety`).
* **SshProxy.** `active[u]` is a slice as Go has it: a backing array and a length,
  so that in-place shifting, appending within capacity and reallocation are
  distinguished; `view` is what the cleaner's `range` still reads. `req` is the one
  request inside the lock. The `range` loop of `connPolicy` works on a copied
  element and breaks at the first expired one: `Swept`. It implements `SessionTable` with
  `table` the function from the addresses in the slice to their ages (`Tabled`): the
  order of the entries, the array behind them and the cleaner's place do not show.
* **Siemsend.** `pc` is where the run is, `stored` and `out` are the service and
  stdout, `failed` the lines the indexer's failure callback told of, `RunNext` the next run: on a new
  file, or sentinel on what was printed. A request of any sub-command may be stored although its answer is
  lost; a line of elastic's is then both in `stored` and in `failed`.
* **FakeDns.** `ruleFile` is whether `-rule` is given (`NoTrees` is what a query does without
  it, `LoadFails` a file that cannot be opened); `table`, `prefixes`, `suffixes` are the map and the trees'
  keys; `h[q]` is a handler goroutine; `wire` is what the shared connection was
  asked last. It implements `RuleServer` with `rule` what `ApproperiateIP` finds for each name, from
  the moment it serves, and `call[q]` the handler with all that it does before its reply as one state.
* **Gopherchain.** `at` is the call `main` is at; `ns[t]` the namespace of a
  thread; `on[r]` the thread a goroutine is on; `Migrate` the scheduler; `Tell` the message that
  tells the user to go ahead (main.go:233), which comes before `signal.Notify` (261); `SetNs` the engine's
  `netns.Set`, which may fail like every other call; `End` the
  end of a process, after which only `named` remains.

* **AllHash.** `hashSt[a]` is the goroutine of algorithm `a`, `fed[a]` the chunks its
  digest is of, `offset` the open file's. An append is two steps, so two may meet; from then
  on `raced` holds and nothing is claimed of the slice.
* **ElasticDump.** `g[i]` is where the goroutine of index `i` is, `cursor[i]` how many
  pages the server has handed out, `offered` what main's loop over the list of indices has
  not looked at, `hit[i]` the answer in hand, `file[i]` the pages
  written. The recursion of `getNextScroll` is the loop `page` - `scroll`. It implements
  `DumpStream` with `served <- cursor` and `kept <- file`.
* **PebbleCli.** `batch` is the open batch, `wal` the batches this run has committed,
  `disk` the database as it was opened. A run ends with some first part of `wal` on disk.
* **Redline.** `stage` and `rlPc` are where main is; `output[k, u]` is the file of kind
  `k` and `UniqueID` `u`, with the rows it has, each known by its run, and whether the
  footer is there.
* **RedlineParse.** A line is its kind; a field's value is the number of the line it is
  from. `entry` is what the reader has collected, `fresh` the rows of the file at work. `Says`
  is what makes a block not blank, which for processes a comma does.
* **Mhs.** `ask[q]`, `mhsSt[q]`, `at[q]` are a request and its handler, which is at "body" while it
  reads what the client sends; `events` the log.
* **Sniplex.** `flags` are the flags as given, `routes` an order of the map's entries.

Operators commented **`Mutant:`** are not part of the specifications. Each is a
plausible bug (a dropped guard, an off-by-one, a missing reset) in the place of the
definition that follows it; with it in place TLC must refute the property it is
paired with in `PROJECT.json`. So no property holds merely by the model's shape.

## Runs and what they show

Deadlock is not an error in any run: each system may really stop (all data is
delivered, all runs are used up, the process has ended or panicked). Where
stopping would be wrong, a liveness property says so.

| run | question | bounds | result |
|---|---|---|---|
| `TunnelFaults` | Is the download an unbroken run of chunks in its seven places, and a byte stream, under close, reset, failed dial and lost association? If one side writes no more than a channel takes, is a reader that stays blocked blocked by a stream whose handler has ended? | 1 connection, 3 chunks each way, capacities 1 | holds |
| `TunnelComplete` | With nobody closing: if one side writes no more than a channel takes, is all that is read written on the other side, in both directions and on both connections? Is an upload never an older chunk? | 2 connections, one with 3 up and 2 down, one with 1 up, capacities 1 | holds |
| `TunnelCorrupts` | Is what an upstream is written of its own connection? | 2 connections, 2 up | violated |
| `TunnelDuplex` | Are both directions delivered when both are used? | 1 connection, 5 each way | violated |
| `SshProxySafety` | Is the list bounded by limit + 1 and without doubles, is it a table of addresses to its callers (what is granted is listed, a decision takes out at most one session, no step but the loss of one session comes between decisions), does `connPolicy` remove only what is old, and does every expired entry go though the cleaner's index is stale? | 1 user, 3 addresses, limit 1 | holds |
| `SshProxyPanic` | Does the cleaner's index stay inside the list? | the same | violated |
| `SiemDelivers` | Is no line lost by sentinel over several runs, are batches bounded, are IDs line numbers, is each line elastic read stored or its failure told, does every run but splunk's end? | files of 3 and 1 lines, batches of 2, 3 runs, each line plain, nested, long or huge | holds |
| `SiemReads` | Is all of the input read? | the same, sentinel | violated |
| `FakeDnsAnswers` | Do the tables agree with the lines, is the server to its clients a rule or none for each name, with each reply to its own question, is every query of a server with rules replied to? | no rule file and every one of 2 lines, names of 1 or 2 letters of 2, 2 queries | holds |
| `GopherSetup` | Once the user is told to go ahead, does the engine run until a signal ends the run? Is nothing left or taken from another run, does `main` never hang? | 3 runs, 2 threads, every call may fail | holds |
| `GopherOutside` | Is the engine inside the namespace? | 1 run | violated |
| `ToolsWork` | allhash: is each algorithm printed once, tlsh and ssdeep of the whole file? elasticdump: is each file a stream of its index, complete when all went well, does main end? pebble-cli: is the disk a first part of the input? redlineparser: are rows blocks, are files one run's? mhs: does the answer tell what was logged? sniplex: does a name go to its own or the default? | see below | holds |

`ToolsWork` is one run for the seven small programs: its variable `tool` says which of them is at
work, the others stay where they begin, so its states are the sum of theirs. Its properties are
conjunctions of a program's parts: `DumpTold` (`DumpComplete`, `ExitAfterAll`), `LinesKept`
(`NothingDropped`, `DiskIsLines`), `FilesOfRuns` (`OneRunPerFile`, `WholeOrTold`,
`PanicKeepsOrder`), `RowsOfText` (`RowsAreBlocks`, `FieldsOfBlock`), `ToolsEnd` (`HashEnds`,
`DumpEnds`, `RequestAnswered`). Likewise `NameIsOwn` of gopherchain is `NameOnlyLeaked` and
`OwnNameOnly`. `ClientInOrder` of the tunnel needs no run of its own: `DownInFlight`
implies it.

Why the bounds are enough for the cases in question:

* Capacities of 1 in the tunnel make every channel and the association full at
  once, with a message still behind it; three chunks are one more than is needed
  for a gap, a repetition and a swap to be distinct. A second connection is needed
  only for mixing and for one stream blocking another, hence `TunnelComplete` and
  `TunnelCorrupts`. In `TunnelComplete` three uploads of one connection fill its channel (one place)
  and block the server's reader on it, with the other connection's upload behind; a later chunk
  can take the place of an earlier one in the array. The deadlock of `TunnelDuplex` needs both
  directions to fill seven places, hence five chunks each. `Delivered` and `ReaderReleased` speak of the
  behaviours in which one side's peers write no more than `InCap` chunks to a connection
  (`OneSided`): the run that refutes `DuplexDelivers` shows that without it they would be false. The program's 1024 delays it, no more.
  The order and absence of gaps in the download are proved for all values.
* Limit 1 and three addresses give a list at the limit, one over it, and one more
  address that is refused; slices go through capacity 1 and 2, so all of shifting,
  in-place appending and reallocation occur while the cleaner is anywhere in its
  loop. Expiry 1 gives three ages: fresh, at the boundary (still kept, the code
  compares with `>`), and old. Bound, distinctness, `TableSafe` and `PolicyKeepsFresh` are
  proved for all values; only the liveness property rests on the instance.
* Three lines with batches of two give a full and a shorter last batch; the
  second file and third run give opensearch a second numbering and sentinel a retry of
  a retry.
* Two lines suffice for one line to take another's mode, hide it, or be longer;
  names of two letters make prefix, suffix, both and equality distinct.
* Three runs of gopherchain: one killed, one that finds the name, one after it.
* allhash: two chunks for three readers, so a digest may be of all, part or none of the
  file; proved for all values. The five algorithms are the code's.
* elasticdump: an index of two pages and one of one, listed in either order or alone, with
  every fault: a page is followed by another, and one goroutine ends before the other. That
  each file is a stream is proved for all values.
* pebble-cli: two keys and values, `BATCH_SIZE` 2 and three lines (`PebMaxLines`): a full
  batch and a shorter one, a key written twice and in two batches; two runs
  (`PebMaxRuns`), so that a run begins on what another left.
* redlineparser: three of the six kinds (`ThreeStages`: the first, which sets `UniqueID`, one
  that reads a file and one that reads a directory; main treats the other three as one of
  these), one row each (`MaxRows`), two runs (`RlMaxRuns`) that may have one HWID and today's
  date. The readers get every text of up to four kinds of line (`RpMaxLines`) in up to
  two files (`RpMaxFiles`): two fields, their end, and a field of the next entry.
* mhs: two requests, bodies of up to two lines (`BodyMax`): a bad line after a good one, with
  the other request's events in between.
* sniplex: two names, two backends, three flags (`FlagMax`): a name given twice, with a
  default or without.

## Fairness

* `Tunnel`: weak fairness of the program's steps together. Each uses up data or a
  handler state, so a behaviour has finitely many; none can be passed over for
  ever. TCP peers need not write, connect or close.
* `SshProxy`: the holder of the lock and the cleaner run; strong fairness for the
  cleaner's lock, because a Go mutex hands over to a starving waiter. Nobody has to connect.
* `Siemsend`: a run goes on; nobody has to start another.
  Requests get an answer or an error in the end.
* `FakeDns`: loading goes on; strong fairness of each handler for the same mutex.
  The upstream exchange ends with an answer or an error (the DNS client's timeout).
* `Gopherchain`: `main` and each goroutine that can run, do; signals need not come
  and the scheduler need not move anything.
* `MCTools` (`ToolsSpec`): weak fairness of a program's own steps together: allhash's and
  elasticdump's goroutines (no one of them can be passed over for ever, as each has finitely
  many steps), redlineparser's main and mhs's handlers. Requests to
  elasticdump's server get an answer or an error in the end. Clients of mhs need
  not send anything: `ReadBody` and `BodyFails`, which end the wait for a body, have no fairness,
  since `http.ListenAndServe` (mhs/main.go:39) sets no time limit. So `RequestAnswered` says that a request is
  answered or its handler waits for the body.

## Proofs

Checked by TLAPS for every value of the constants that the named assumptions allow
(`TunnelAssumption`, `SshAssumption`, `HashAssumption`, `DumpAssumption`, `GopherAssumption`,
`DnsAssumption`, `SiemAssumption`, `RedlineAssumption`, `ParseAssumption`, `PebbleAssumption`,
`MhsAssumption`, `SniAssumption`; TLC
evaluates them in its runs). In each module the way is the same: an invariant that says of every
place of the code what the property needs to know of it, a lemma for each action, and
the property from the invariant.

**`TunnelProof`** (assumes capacities and write counts to be naturals, capacities positive, and the
SIDs to be other values than the three marks).

* `TypesHold`: `TypeOK`, which includes that each hand-over place holds at most one
  chunk.
* `DownloadInFlight`: `DownInFlight`. `ClientInOrder` is not inductive: to know
  that the next chunk written is the right one, one must know what is in all
  the places behind it. `DownInFlight` says that the seven places, concatenated,
  hold one unbroken run from chunk 1, that the server's read counter is its
  end, and that nothing moves before the connection is accepted; after the client's
  handler has ended only what was delivered is claimed. The proof has lemmas on
  runs of chunks (append, prefix, concatenation), one on the handing over from
  place to place, and a step for each action.
* `DownloadInOrder`: `ClientInOrder`, from it.
* `DownloadIsByteStream`: `DownSafe`, the refinement: the initial state maps to
  `ByteStream`'s, `TcpRead` of the server to `Send`, `WriteTcp` of the client to
  `Deliver`, all else to a stutter.
* `UploadInFlight`: `UpInFlight`, the upload's counterpart, from which
  `UploadNeverOlder`: `NeverOlder`. The server queues references to its one array, so what is
  delivered is what the array holds when it is copied. The invariant counts: the
  messages of `s` the server has taken are one for one in its five places (`UpCount`),
  what is still in the association is the unbroken run after them, and what the array holds of
  `s` is the last one taken (`UpQueue`). A copy therefore is as new as its place or
  newer, and stays so on its way (`NotOlder`). That it *is* newer at times is
  `TunnelCorrupts`.

**`SshProxyProof`** (assumes the limit to be an integer and the expiry a natural).

* `IndInvHolds`: `TypeOK /\ DistinctIPs /\ SessionBound` is inductive. They need each
  other: the bound holds because an entry is added only after the length was
  compared under the same lock, which needs the slice's length to be within its array;
  distinctness needs that what is removed at *any* index (the cleaner's may be stale) leaves
  a subsequence, and that the policy adds only what it did not find in the slice
  that is left.
* `TypesHold`, `BoundHolds`, `DistinctHolds`: its three parts. There are lemmas on
  removal, refreshing and appending of slices.

* `TableHolds`: `TableSafe`, the refinement. Since no address is twice in a slice, a slice is as
  long as its table is large (`TableSize`) and each operation on it is one on the table:
  removal at any index takes one address out (`RemoveTable`), refreshing renews the caller's
  or, when an expired entry came before it, changes nothing (`RefreshTable`), the sweep is
  `Pruned` (`SweptTable`), appending lists (`AddTable`). With these a decision of `connPolicy`
  is an `Admit` or `Refuse`, the cleaner's removal, whatever its stale index finds, a `Forget`,
  and every other step of it a stutter.

* `GrantHolds`, `KeepsFreshHolds`: the action properties `GrantListed` (which no run checks: `TableSafe`
  says more) and
  `PolicyKeepsFresh`, by a case for each way out of `connPolicy`. Only `connPolicy` decides a request
  (`OnlyPolicyDecides`); what is appended is held (`ExtendHolds`, which needs the room the
  invariant gives); the sweep removes one entry, an expired one (`SweptKeeps`).

**`AllHashProof`** (assumes the number of chunks to be a natural, some algorithm to share the
file, and none to be in both sets).

* `HashInvHolds`: `HashInv`. What the readers of the shared file have read is in disjoint parts, each in the
  file's order, together what is before the offset (`SharedOnce`). That needs that nothing was read
  beyond the offset (`Within`), so that the next chunk is new to all. `PrintedOnce` needs where each entry
  of the slice is from (`Listed`: while no appends have met, the entries are of the goroutines that
  are done, one of each) and what a goroutine had read when it stopped reading (`FedAll`).
* `PrintedOnceHolds`, from it; and `AtMostOneWholeHolds`: of md5, sha1 and sha256 at most one is ever of the
  whole of a file that is not empty. This is no merit: it says how far the code is from `HashesOfFile`,
  for every file and every schedule.

**`ElasticDumpProof`** (assumes no index twice in an answer, natural numbers of pages).

* `DumpIsStream`: `DumpSafe`, the refinement. A file is appended to only from a hit in hand, so
  the invariant `Streams` says: the file has no page later than the cursor, and a
  goroutine that holds hits holds the page at the cursor, which is not in the file yet.
  With it each page written is a `Keep` of `DumpStream`, each page the server hands out a `Serve`,
  all else a stutter. No fault is excluded.

* `DumpToldHolds`: `DumpTold`, from `ToldInvHolds`. `Proper` says of an index whose answers and
  writes were proper what is in its file at each place of its goroutine: all pages handed out, or all
  but the one in hand. `CountInv` says that main has taken as many answers as there are
  goroutines that have sent theirs; the list has no index twice (`ListInv`), so when that
  is the length of the list it is all of them.

**`SiemsendProof`** (assumes that a line's number is no other line's, in one file or two: it stands for
the line as it was given, not for its text).

* `SiemBaseHolds`: `SiemBase`, types and where each sub-command can be; `SiemTypesHold` and
  `BatchBoundedHolds` from it.
* `DocIsLineHolds`: `DocIsLine`, from `SiemOrder`: what is still to be read is the file from the counter on.
* `NothingLostHolds`: `NothingLost`, from `SiemKept`: each line given to sentinel that its scanner can
  read is to come, in the batch, stored or printed, or both parts of it are. The two
  hard steps are the print of a batch, which cuts lines in two, and the run on what was
  printed, whose input is now parts. What a printed batch holds is a fold, so this
  is by induction over its length, from the least number without the property (`Least`).
* `SiemAccountHolds`: `Accounted`: each line elastic has read is queued,
  stored or told as failed, whatever is refused, fails or is lost. `ElasticAccountsHolds`:
  `ElasticAccounts`, from it. A line whose answer was lost is stored and told, so neither says "one of the two".

**`FakeDnsProof`** (assumes that "free" is no query's name).

* `DnsInvHolds`: `DnsInv`. `Loaded` says what map and trees hold of the lines loaded: the last line of a
  name, each prefix and suffix, nothing else. `Turn` says that who waits for upstream
  holds the lock and that the name on the wire is its own.
* `LookupHolds`, `AnswerMatchesHolds`, from `Loaded`: that the longest prefix in a tree is the rule the
  lines give needs that reversed suffixes are prefixes of the reversed name.
* `OwnAnswerHolds`, from `Turn` (no run checks `OwnAnswer`: `RepliesSafe` says more).
* `RepliesHold`: `RepliesSafe`, the refinement, with a rule file and without. `inDomainList` decides who is to answer and `ApproperiateIP`
  what, each by searches of its own; they agree (`SearchesAgree`: what a search accepts has an entry in the
  map). Who turns to upstream was asked a name without a line, and as the tables stay while it serves,
  that is so when the answer comes (`ForUpstream`); that it is the answer to its question is `Turn`.

**`GopherchainProof`** (assumes "main" to be no other thread's name).

* `GopherInvHolds`: `GopherInv`. `Progress`: the steps done are those before main's own. `Apart`: no goroutine
  is on main's locked thread, whatever the scheduler moves, so main stays where
  `netns.NewNamed` put it.
* `InsideHolds`: from it. `NameHolds`: the action property `NameIsOwn`, by a case for each action.
* `ToldHolds`: `ToldUntilSignal`, for any calls that may fail. The telling comes late in the order of the steps
  (`TellIsLate`), after it no call is left that may fail (`ToldLate`), and what was up when the user
  was told stays up (`EngineUp`), so the only ends left are the signal's and the kill's.

**`ToolsProof`** (assumes that the marks for no backend and for a closed connection are no
backend's names; of redlineparser what `RedlineAssumption` says of kinds and names).

* `OwnOrDefaultHolds`: `OwnOrDefault`, from `SniInv`: the map holds the last flag of each name, the
  routes are entries of the map, and once connections are taken the map stays.
* `FilesOfRunsHold`: `FilesOfRuns`, from `RlInv`: the kinds before the one at work are whole or told of, those
  after it have no file of this run, and what is written of the one at work is in its file.
* `AnswerTellsLogHolds`: `AnswerTellsLog`, from `MhsInv`: a request is before its lines, with nothing in the log;
  among them, with just the events before the line it is at; or answered. Entries of other requests
  move none of its own (`LogGrows`, `ReqFrame`).
* `RowsOfTextHold`: `RowsOfText`, from `RpInv`, which describes the six readers at once: the rows made
  so far are those the lines read make (`RowsMade`), and a field of the entry being collected
  is the last line for it since its block began, or, for the Value of an autofill, since the last
  row (`Collected`). What a line more does to each of these is a lemma about texts
  (`BlockGrows`, `LastGrows`, `MadeGrows`).
* `LinesKeptHolds`: `LinesKept`, from `PebInv`: the commits and the open batch share out the
  lines (`Parts`), and while index reads every commit is of `BATCH_SIZE` lines (`FullBatches`), so that
  any first part of the commits, which is what a kill leaves, is the lines up to a multiple of it.
  Replaying operations onto what some lines left gives what those lines and the
  operations leave (`PlayLast`, by induction over the operations). Assumes `BATCH_SIZE` to be positive.
* `ToolsTypesHold`: `ToolsTypeOK`. The run in which one of the seven programs is at work is a run
  of each (`EachRuns`), so that its types are theirs: for four their invariants say them,
  for the others `RpTypesHold`, `DumpTypesHold` and `PebTypesHold` add what these leave open: that a
  line is one of the reader's kinds and a file at work one of the directory (`RpRest`),
  that main takes no more answers than its list has (`DumpRest`), that finitely many keys have
  a value, so that dump has an order to print them in (`DumpPrints`). The proof showed that
  the directory must be allowed a file (`RpMaxFiles` is positive: `ParseAssumption`).

Only model-checked: all liveness (`Delivered`, `ReaderReleased`, `ExpiredGoes`, `RunEnds`,
  `QueryReplied`, `ComesUp`, `ToolsEnd`), which is out of the prover's reach. Every invariant and every
  other action property that a run finds to hold is a theorem.

## Where the code disagrees with what is said of it

Each has a run that TLC must refute, and an entry under "findings".

1. `TunnelCorrupts`: uploads are queued as slices of one array and delivered with a
   later message's content: an upstream is written a chunk of another connection's client
   (server.go:43, 71).
2. `TunnelDuplex`: `pipe` writes from the goroutine that also drains the other
   direction; with both directions full all wait for each other (stream.go:110).
3. `SshProxyPanic`: the list is shorter than the cleaner's index when it gets the
   lock: the server panics (main.go:155).
4. `SiemReads`: a line of 64 KB ends sentinel's input as if it were complete
   (sentinel.go:186).
5. `GopherOutside`: the engine's goroutine does not lock its thread and may go on
   in the host's namespace (tun2socks.go:140).

The modules state further properties that TLC refutes in a few steps. No run is
spent on them; each is noted at its hazard.

| module | property | what happens |
|---|---|---|
| `Tunnel` | `AcceptedIsDialed` | the upstream is dialed by the client's first byte: one that speaks first is never heard |
| `Tunnel` | `EndPropagates` | the end of a connection is not told to the other side |
| `Tunnel` | `NoReaderStays` | a stream nobody drains blocks the one reader, and so every connection, for ever (only such a stream does: `ReaderReleased`) |
| `Tunnel` | `ServerInOrder` | what an upstream is written is not the client's chunks in order, with one connection too |
| `SshProxy` | `SessionLimit` | open connections outlive their entries, so there may be more than the limit |
| `SshProxy` | `GrantRenews` | a caller whose own entry expired has it refreshed and then removed by the same loop |
| `SshProxy` | `CleanerKeepsFresh` | the stale index may be that of a fresh entry |
| `SshProxy` | `KnownIsAllowed` | one over the limit, also those in the list are refused |
| `Siemsend` | `PrintsLines` | a line with `},{` in it is printed in two parts |
| `Siemsend` | `DocsStay` | the second file's documents replace the first's |
| `FakeDns` | `NoLoadPanic` | a line without three fields panics |
| `FakeDns` | `RepliedWithoutRules` | without `-rule` the trees are nil, and the first query ends the server (main.go:292) |
| `FakeDns` | `RuleApplies` | a repeated name takes the earlier line's mode away |
| `FakeDns` | `AnsweredAfterReconnect` | after an EOF the question is not asked again |
| `Gopherchain` | `InterruptDeletes` | before `signal.Notify` an interrupt leaves the name |
| `Gopherchain` | `DialsOutside` | the engine may connect to its proxy from inside the namespace |
| `AllHash` | `HashesOfFile` | README.md:3-4 and allhash/main.go:1 say that each hash is the given file's; md5, sha1 and sha256 are each of what the others left of it |
| `AllHash` | `NeverRaced` | two appends to the slice may overlap |
| `ElasticDump` | `BlamedFailed` | the n-th answer is taken to be the n-th index's |
| `ElasticDump` | `OkayIsComplete` | an answer that is no page ends a dump that is told to be fine |
| `PebbleCli` | `RemoveRemoves` | `remove` never commits its batch (main.go:83-107), so it removes nothing |
| `PebbleCli` | `IndexStays` | commits are not synced and nothing closes the database |
| `Redline` | `WholeStays` | a folder with the HWID and date of another replaces its files |
| `RedlineParse` | `ValueOfBlock` | an autofill's Value may be of an earlier block that had no Name |
| `Mhs` | `RefusedLeavesNothing` | events before the bad line of a refused request stay in the log |
| `Sniplex` | `NamedGoesToOwn` | "default" may come before the name in the map's order and take its connections, though the flag's text gives it "as default" (main.go:24) |

## Abstractions

* `Tunnel`: chunks have one length (a slice of a shorter message would show part of
  a longer one, no new case of mixing). No message carries the end mark's PPID (the write in
  `SetEnd` is commented out and the handler writes nothing after it), so that branch
  of the readers is left out, as is the case of all 65536 SIDs used. What is
  delivered within one stream is ordered, as SCTP promises. Concurrent access to
  the streams map is by a concurrent map.
* `SshProxy`: reading one slice element is atomic. Requests to forward to a local
  address do not reach `connPolicy`; addresses that do not parse are refused before
  any state is read (main.go:63-67). A detected concurrent map access is a possible
  end (`crash = "map"`).
* `Siemsend`: empty lines are left out. Which of sentinel's error branches was taken is not distinguished, all
  print the batch. The bulk indexer is external: workers take queued lines in any order, and the failure callback is taken to be
  called for each line whose request was refused, failed or got no answer (elastic.go:138). Its retries may store a
  line twice, so nothing is said of how often.
* `FakeDns`: IPs are line numbers and parse; one question per query; the search tree
  is external (longest key that is a prefix).
* `AllHash`: reads of one `os.File` are serialised by the runtime; a chunk is what one of
  them returns. After appends have met, the slice is not known.
* `ElasticDump`: which indices are wanted (documents, size, name) is a constant. Within a
  page hits are not distinguished.
* `PebbleCli`: pebble is external: a batch is atomic, and after the process has ended a first
  part of the commits is there.
* `Redline`: a row is known by run and number; Parquet's encoding is external. A made up
  `UniqueID` is no other run's.
* `RedlineParse`: of a reader's fields two or three stand for all, since they are
  treated alike; the text of a field is not modelled.
* `Mhs`: a log entry is written in one step. `Sniplex`: tcpproxy is external, the first
  route that matches is taken; names do not differ in case.
* `Gopherchain`: a netlink call is atomic; the set of threads is fixed; what the calls
  configure, and the nftables expressions, are not distinguished.

## Not modelled

| part | why |
|---|---|
| spitcurl | formatting of certificates and one request; no state beyond a call |
| proxyenv, sockstls, identme, oauth2 | glue around a library or a command; no state of their own |
| sctptunnel: messages of different lengths, the PPID branch, all stream numbers used | see Abstractions |
| siemsend: signatures and headers, proxies, the bulk indexer's own retries, empty lines | wording of requests; external |
| fakedns: fetching the rules by HTTP, IPs that do not parse, several questions in a query, `lookupDomain4` | input only; not used by clients; never called |
| gopherchain: what the calls configure, traffic | the kernel's |
| flags, configuration files, logging, the pace of `QUERYRATE` | input and output only |
| mhs: `-v` | `logRequest` then reads the body first and drops the error of that (mhs/main.go:206-210), so a body that breaks off is handled as far as it came; the models are of the default |

## Plan

Done, in this order: `Tunnel` with `ByteStream` and its proofs, `SshProxy` and its
proofs, `Siemsend`, `FakeDns`, `Gopherchain`; then `AllHash` with its proofs, `ElasticDump` with
`DumpStream` and its proof, `PebbleCli`, `Redline`, `RedlineParse`, `Mhs`, `Sniplex`, and
the action properties of `SshProxy` proved; then the proofs of the upload, `Siemsend`, `FakeDns`,
`Gopherchain`, `Redline`, `RedlineParse`, `PebbleCli`, `Mhs`, `Sniplex` and of what `ElasticDump` tells.

`SessionTable`, `RuleServer` and the types of the seven small programs came last, each with its theorem.

Abstract specifications still worth stating, and proving to be implemented: for `Siemsend` a bag of
lines delivered at least once, for `PebbleCli` a map that is a first part of a log. Their content is
proved as invariants (`NothingLost`, `LinesKept`).
