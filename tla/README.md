# mcp-baf: a verification model

mcp-baf is an MCP server for 1C:Enterprise. It answers the tools of an AI client
from three sources: a 1C base (over an HTTP service that a 1C extension adds to
it), a dump of the configuration on disk (searched through an SQLite index), and
the platform's own help files (another SQLite index). A command of the same
program installs the extension into a base with DESIGNER.

This directory holds TLA+ modules of the parts in which order, failure and
concurrency decide whether the program is right, the TLC runs that check them on
small instances, and TLAPS proofs of the most important results for every
instance. `PROJECT.json` maps each definition to the lines it models, and lists
runs, mutants, hazards, findings and theorems. Paths below are relative to
`src/src/mcp_baf/`.

Contents: [1 The system](#1-the-system) - [2 The modules](#2-the-modules) -
[3 Runs](#3-the-runs-and-their-bounds) - [4 Fairness](#4-fairness) -
[5 Proofs](#5-what-is-proved) - [6 What the checks found](#6-what-the-checks-found) -
[7 Not modelled](#7-not-modelled-and-why) - [8 What is left](#8-what-is-left)

To repeat a run or a proof, in this directory:

    tlc -workers 2 -config DumpIndex_safety.cfg MCDumpIndex
    tlapm DumpIndexProofs.tla

## 1 The system

| component | source | state it keeps | operations |
|---|---|---|---|
| DumpIndex | `dumpindex/index.py` | cache file (tables docs, fts, meta), connection, `ready`, `build_error`, lock | builder thread; `search`; `close` |
| Search | `dumpindex/index.py`, `tools/search_code.py`, `dumpindex/synonyms.py` | none beyond one call | smart, regex and exact search |
| Extension roots, module names | `dumpindex/extroots.py`, `modulenames.py` | none beyond one scan | the scan of a dump; name of a path and back |
| HelpIndex | `helpindex/__init__.py` | cache file, temporary file, connection, `ready`, `error`, stop flag, lock | builder thread; `search`, `get`; `close` |
| HBK container | `helpindex/hbk.py` | none beyond one file | `read_pages` |
| Access gate | `access.py` | cached method list, its expiry, `asyncio.Lock` | `list_tools`, `call_tool` |
| 1C client, trace | `client.py`, `tools/common.py` | connection pool; audit events | one request; one tool call |
| Server | `server.py` | the objects above | lifespan: start, version check, teardown |
| Command line, transport | `__main__.py`, `config.py` | configuration | merging, TLS, bearer token, listening |
| TLS kit | `tls.py` | `ca.crt`, `server.crt`, `server.key` in the cache directory | make or reuse the kit |
| Installer | `installer.py` | temporary copy; the extension in the base; the exported dump | `install`, `dump` |
| BSL analysis | `bsl_native/` | none beyond one text | parse, diagnose, format |
| Tools | `tools/*.py` | none | one request or lookup, formatted |
| Help data, prompts, form parser | `bsl/`, `prompts.py`, `dumpindex/formparser.py` | none | constant data, pure functions |
| 1C extension | `extension_src/.../Module.bsl` | none of its own | the HTTP service the client talks to |

### How the parts interact

    command line + environment - load_config - bearer layer (token, TLS kit)
    client --- transport --- AccessMCP.call_tool
                               |-- access gate -- GET /capabilities ------ 1C extension
                               `-- tool -- traced_text -- OneCClient ----- 1C extension
                                       |-- asyncio.to_thread -- DumpIndex.search -- lock -- SQLite
                                       `-- asyncio.to_thread -- HelpIndex.search -- lock -- SQLite
    lifespan end: client.aclose(), DumpIndex.close(), HelpIndex.close(), server_stop

The asyncio loop runs the gate and the tools; each index has a builder thread of
its own, and searches run on a pool of threads. Builder, searches and `close()`
share one connection per index. Several server processes may run over one cache
directory: they share the cache files and the TLS directory. The installer is a
process of its own; it meets the server only through the base it patches and the
dump it exports.

### What is hard, and what makes each part correct

*DumpIndex.* Files are edited while they are walked and read. The process may
die at any statement, between DDL that commits by itself and DML that commits at
the end of `with db`. The builder does not take the lock that `search` and
`close` take. An exception anywhere in the opening of the cache is answered by
deleting it. Correct means: the next start never accepts a cache that hides an
edit; what is ready is the dump; a good cache is not deleted; every build comes
to an end that a waiting client can see; no admitted search hangs.

*Search.* The total counts on where the list stops; a module may match by a
synonym of a word only, so that its shown line has to be looked for again; and lines
are searched for parts of words, modules for whole ones. Correct means: total, list and
shown lines agree with the text of the modules.

*Extension roots, module names.* A budget of reads ends the scan in the middle,
names collide, and a name is later taken apart by counting segments. Correct
means: what the scan came to and does not recognize has a line in the log, no name is
given to two directories, two modules of objects, forms or commands do not get one name.

*HelpIndex.* The builder writes a temporary file and moves it over the cache
with `os.replace`, then opens the path again; `close()` stops and joins the
thread. `.hbk` files may vanish or break off half way. Correct means: the path
holds a complete index or none; what is served belongs to the files of the
start; after `close()` nothing of the process touches the files; waiters are released
unless the cleanup of the builder fails itself.

*HBK container.* A chain of blocks may be cyclic, cut off, or announce absurd
sizes. Correct means: reading ends, takes what was announced and stays in limits.

*Access gate.* Calls queue on the lock while the cache expires, 1C may be slow or
gone, rights change, clients cancel. Correct means: a right that was taken away
is not honoured for longer than lifetime and time limit together; one request
per expiry however many calls wait; every call is answered; refusals end.

*Client, trace, server.* Cancellation may strike at every await of a request under
a tool call and outside of one, an answer may be just at the limit, the version check
may run into its time limit as its answer arrives, each step of the teardown may raise,
and the builder of the dump index outlives its `close()`. Correct means: events tell
what happened, in order; what is decoded is whole and within the limit; after
`server_stop` client and help index are closed, and the dump index unless its builder
was overtaken.

*Command line, transport.* Token, transport and certificate come from flag,
variable or file. Correct means: by none of their combinations does a server listen
without a token, or over plain http that nobody allowed.

*TLS kit.* The next start decides by the existence of three files. Correct means:
whatever crashed, the certificate fits the key.

*Installer.* DESIGNER reports errors as text, sometimes with exit code 0, and each
retry changes the copy for the next; an export replaces directories one by one.
Correct means: a normal return says that the database runs the copy patched last;
the note about the role is given when it is due; errors the chain knows are cured when
DESIGNER tells all its reasons at once; exit code 0 means that every requested directory
is the export of this run.

*BSL analysis.* A recursive descent fills lists of diagnostics and of indents while
it goes. Correct means: the diagnostics and the indents agree with the structure of
the text, for every nesting within the limits of depth.

## 2 The modules

| module | models |
|---|---|
| `DumpIndex` | `dumpindex/index.py`: the builder, the cache, `close()`, the locking of `search()` |
| `DumpSearch` | `dumpindex/index.py`: `search()` itself; `tools/search_code.py`, `dumpindex/synonyms.py` |
| `ModuleNames`, `ExtRoots` | `dumpindex/modulenames.py`, `extroots.py`; `ExtRoots` names modules with `ModuleNames` |
| `HelpIndex`, `HelpCache` | `helpindex/__init__.py`, and what it promises (abstract) |
| `HbkChain` | `helpindex/hbk.py` |
| `AccessGate` | `access.py` |
| `OneCClient` | `client.py`, `tools/common.py` |
| `ServerLife` | `server.py`; extends `OneCClient`, whose requests its tools and its check make |
| `Transport` | `config.py`, `__main__.py`: from the command line to a request |
| `TlsKit` | `tls.py`, its use in `__main__.py` |
| `Installer`, `DumpExport` | `installer.py`: `install()`; `dump()` with the command around it |
| `BslParser`, `BslExpression`, `BslDirectives` | `bsl_native/parser.py`, `bsl_native/__init__.py` |
| `MCServer` | for TLC: gate, server life, transport and kit |
| `MCIndexes` | for TLC: the two indexes, `DumpIndex` as an INSTANCE beside `HelpIndex` |
| `MCComponents` | for TLC: installer, export, container, scan, search, BSL analysis |
| other `MC*` | model values for one component |
| `*Proofs` | theorems about the module they are named after; `InstallerProofs` also about `DumpExport`, `ServerProofs` about `AccessGate`, `OneCClient`, `ServerLife`, `Transport` and `TlsKit`; `DumpProofs` about `ExtRoots` and `DumpSearch`, `ParserProofs` about `HbkChain`, `BslDirectives`, `BslExpression` and `BslParser`, `UnreachableProofs` about the reports of `BslParser`, `ComponentsProofs` about `MCComponents` |

`MCServer`, `MCIndexes` and `MCComponents` put components that share no state into one
state space: `part` chooses, in the initial state, the one that moves, and the others
stand still in one state. Their properties are those of the components, checked together.
`MCIndexes` renames the variables and constants of `DumpIndex` that `HelpIndex` has too;
its fairness is that of both modules, and the one that stands still is in a state in which
none of its fair actions is enabled.

Common conventions. A *version* stands for everything that can be told apart
about a file: its stamp and its content. Every edit draws a fresh one from
`clock`, so a newer file has a larger version. `Faults` is the set of things that
may go wrong in a run, named at its declaration; "all faults" means every kind
at every moment. A *history* variable is never read by a guard. Definitions marked
`Mutant:` are plausible bugs; nothing but `PROJECT.json` refers to them.

### DumpIndex

`pc` is the position of the builder thread: `Discover` reads the extension
manifests, `OpenOrRebuild`, `OpenCache` and `CheckCache` are the branches of
`_build`, `WalkFile` is the `os.walk` of either branch, one file at a time;
`ReadOne`, `CreateSchema`, `Fill` are `_full_build`; `Diff`, `ApplyDeleted`,
`ApplyModified`, `ApplyAdded`, `Commit` are `_open_cache_and_diff`; `Finish` and
`Announce` are `_finish_build`, split where `ready` is set; `DiscardTest`,
`DiscardClose`, `DiscardNull` and `Unlink` are the except branch, split wherever
`close()` can interleave. `draft` is what the open transaction has changed, `db`
the committed file; `Kill` loses the first and keeps the second. `closer` and
`searcher` are a thread in `close()` and one in `search()`. The full-text table is
modelled as a set of postings `<<path, version>>`, so that deleting with the wrong
text (the trap of external-content FTS5) leaves a posting behind. Errors of files
and manifests, of statements, of `os.remove` and of `print` are separate faults.

### HelpIndex and HelpCache

One record per process in `proc`, one `cache` file for all. The actions follow
`_build`: `Glob`, `Stat`, `Consult`, `Check`, `Create`, `Read`, `Page`, `EndFile`,
`Commit`, `Replace`, `Connect`, `Settle` (the outer `finally`). With the fault `io` any
statement raises: `Raises` leaves the connection and the temporary file as they are at
that moment (`Held`), and the `finally` may itself fail at closing the one or at removing
the other (`SettleFails`); then what it did not come to stays, and `ready` is not set.
`CloseFails` is the `close()` whose connection cannot be closed. `PageCount` says
how many pages can be read from a version before it ends or breaks. A connection
is the index it opened, not the path: replacing the file does not change it.
`HelpCache` is the promise: `published` changes in one step to an index that is
complete for its files, and a process serves one published index. HelpIndex
implements it under `published <- cache`, `serving <- [p |-> proc[p].conn]`.

### DumpSearch

A behaviour is one call: the question is checked (`RefuseQuery`), the rows come from
the database (`SelectRows` in the order of names, `SelectHits` in any order that
BM25 may give), the modules are gone through line by line (`ScanLine`), and the
answer is built. A text is a sequence of letters and separators, so that a word may be a
part of another one. `ShowHit` looks for the line a hit shows in the steps of the code:
the words of the query between spaces, its tokens with their synonyms, the first line;
a line has a word if it has it anywhere (`IsIn`), while `FtsMatches` compares whole tokens.
`LearnKeywords` and `LearnFunctions` are the two loops that build the synonyms before the
first smart search, one pair at a time.

### ExtRoots and ModuleNames

What a directory holds is chosen when the scan comes to it and kept in `found`:
`ReadManifest`, `PassOver` and `Descend` are the branches of the two loops,
`SettleNames` the last one, which drops the names that two directories claim. A
directory that cannot be listed counts as an empty one, and no log tells
(`_list_dirs`). The names of ModuleNames are sequences of segments; properties compare
the names of all files of all roots that the scan has found. `OwnFiles` are the modules
of objects, forms and commands; `NestedFiles` those of objects inside of others
(recalculations, tables of external data sources), which `BaseName` calls like the
modules of the object they are in.

### HbkChain

`OpenFile`, `ReadBlock`, `InfosRead`, `SkipEntity`, `FileStorage`, `OpenArchive`, `Page`
follow `read_pages`; `ReadBlock` is one turn of the loop of `_body`. Every number
read from the file is any number that fits its field, so one behaviour set covers
every container; `Damaged` is a `ValueError`, possible at each read.

### AccessGate

One action per uninterrupted stretch of the coroutine between two awaits: `Call`
(up to the lock), `Hit` or `Ask` (the lock is taken, the cache looked at),
`Receive` or `Refuse` (the answer, or the time limit, or an error), `Cancel`. The
FIFO queue of `asyncio.Lock` is kept as the set of waiters ahead of each call.
`Answer`, `Break`, `Grant`, `Switch` are 1C; `Tick` is time. Deadlines are counted
down (`ttl`, `timer`), and `gone[m]` counts how long ago a method was lost, up to
one more than the horizon the property allows.

### OneCClient and ServerLife

`at` says for each task at which await it is; between two awaits nothing else runs,
so `HeadersArrive`, `ReadChunk`, `CloseStream`, `ReadErrorBody`, `DecodeBody`,
`RequestFails` are whole stretches of `_do`. `CancelTask` strikes at the awaits of a
request, the closing of a stream among them, and, for a tool, at those outside
(`asyncio.to_thread`). Every way out of a request goes through `Ended`, the `finally` of
`_do`, which adds the event; `ToolEnds` is the end of `traced_text`, behind any number of
requests or none, and `BeginCall` the next call. In ServerLife the check is one more task;
`Teardown` is the `finally` of the lifespan, one step at a time, each of which may
raise and then skips the rest, as in the code. `BuildDump` is the builder of the dump
index, which opens and closes its connection until it is over: `CloseDump` neither stops
it nor waits for it (`overtaken`).

### Transport

`Merged` is what `load_config` makes of environment and flags, with the order of
precedence of each setting, `ConfigError` every `raise ConfigError` on the way,
`Listener` what `main` hands to uvicorn, `HttpRequest` the bearer check. Servers are
stopped and started with other configurations; clients keep their tokens.

### TlsKit

A file holds the number of the kit it belongs to, or nothing between `open()` and
the flush. `Ensure` is the early return and the keys made in memory; `Open` and
`Write` the three `with` blocks in their order; `Load` is uvicorn.

### Installer

A copy is reduced to what the retries can still change: the parts stripped
from it and its compatibility mode. The base objects to some of them, to some
only at the update, and may keep an extension that is loaded again. DESIGNER tells
all its reasons or some, may fail for reasons of its own, and may exit with 0
although it loaded half (`Half`): its log then has a message that
`_DESIGNER_FATAL_LOG_RE` (`installer.py:143-153`) knows, which is an assumption about
DESIGNER. `Chain` with `Patch`, `Retry` and `Skip` is the
sequence of `if err and ...` blocks; a killed run leaves its extension behind
for the next `Prepare`.

### DumpExport

One action per step of the command: `Command` (the check of the names), `Install`,
`ExportBase`, then for each extension `RefuseName`, `MoveIntoOld`, `Replace` or
`ExportOne`, and `Finish` with the exit code. A directory holds the parts of the exports
that wrote it, so that a half-replaced one can be told from a whole one.
`RefuseName` and `Replace` compare the spelling, the file system its casefold.

### BslParser, BslExpression, BslDirectives

`agenda` is the call stack of the recursive descent, as the list of what it still has
to do. The text is not given beforehand: each token is chosen when the parser looks at
it, so that a run covers every text over its vocabulary up to a length. A
vocabulary may give the beginning of its texts (`start`), so that a run reaches the inside
of a method without all the texts around it. A text that fails keeps what was reported
before and gets a `ParseError`. A statement's expression is one token in BslParser;
BslExpression takes expressions apart, with one record per open call of `expression()`.
The code counts open blocks and open expressions with one counter (`parser.py:45`); each
module bounds its own part. An awaited call counts as a call. The
properties compare the results with definitions over the text that do not use the
parser: blocks counted from the front, jumps looked for backwards.

## 3 The runs and their bounds

Counts are distinct states. The runs of DumpIndex and HelpIndex check for deadlock;
in most others a behaviour may end (a server stops, a search is answered, a text is
read), and deadlock is not asked.

| run | instance | states | shows |
|---|---|---|---|
| `dumpindex_safety` | 2 files, 2 extension maps, 3 versions, all faults | 2 990 000 | `TypeOK`, `CacheFaithful`, `ReadyIndexIsCurrent` |
| `indexes_shared` | help: 2 processes, 1 file, 2 versions, all faults | 1 050 000 | `CacheFaithful`, `ClosedForGood`, `ImplementsHelpCache`, `TypeOK` |
| | dump: 2 files, 2 maps, 3 versions, without `close()`, failing statements and failing prints | | `ReadyHasWholeIndex`, `DiscardsOnlyBrokenCache` |
| `indexes_live` | help: 1 process at a time, 2 files, 3 versions, all faults, fair | 491 000 | `ServedIsCurrent`, `BuildSettles`, `CloseReturns` |
| | dump: 1 file, 2 maps, 2 versions, all faults, fair | | `DumpBuildSettles`, `AdmittedSearchReturns` |
| `server` | gate: 2 calls, 2 methods, lifetimes 2 and 1, limit 1, fair | 780 000 | `ServedRightsAreRecent`, `AsksOncePerExpiry`, `CallSettles`, `RefusalsEnd` |
| | life: a tool and the check, 2 requests, answers up to one byte above the limit | the rest | `AuditIsComplete`, `AnswerWithinLimit`, `StopMeansClosed`, `MismatchIsAnswered` |
| | transport and kit: 68 environments, 45 sets of flags; 12 kits | | `ListensAsTold`, `StartFindsPair` |
| `components` | installer: every platform, base and answer | 1 870 000 | `InstalledIsApplied`, `NoteWhenRolesDropped`, `KnownErrorsAreCured` |
| | export: 4 names, 2 of them one, 2 commands | | `ReportIsTrue` |
| | container: 2 blocks, storage of 4 units | | `ReadsAreBounded` |
| | scan: 3 directories with 3 each, one of them rejected, any of them unlistable, 3 reads | | `NoSilentLoss`, `RootsAreUndisputed`, `NamesTellApart` |
| | search: 40 questions, 242 dumps | | `CountsAllShowsFirst`, `HitsAreExplained` |
| | BSL: texts of 7 to 11 tokens in 7 vocabularies, and of 13 to 16 with the first 7 given in 6; expressions of 6 tokens; 6 directives | | `IndentIsNesting`, `UnreachableIsBehindJump`, `UnusedIsNeverRead`, `ExpressionIsExact`, `PairsAreAccepted` |
| | all of `components`, with `TypesOK` | 6 070 000 | |
| `dumpindex_close`, `helpindex_stale`, `tlskit_crash`, `dump_base`, `ext_category`, `server_cancel`, `search_part` | the smallest that shows it, or that of the passing run | | a counterexample each, see section 6 |

Some of these are conjunctions, named where they are defined: `AuditIsComplete` says
that every request leaves exactly one event, ok after an answer and not ok after a
`OneCError`, and that the event of a tool that returned or raised comes last; `ReportIsTrue` that exit code 0 means that the directories are
whole and of this run, and that what is reported as done was replaced as a whole;
`ReadsAreBounded` joins the bounds of a body, of a chain and of the unpacked pages;
`HitsAreExplained` the shown line and the synonyms; `ExpressionIsExact` reads and
targets; `TypesOK` the types of the components, in which the depth of the parser's
stacks is bounded by its limits.

Why the bounds are enough:

- *Files.* What a step does to one file never depends on another file, but the
  transaction, the discard and the ready flag join all of them. Two files show one
  treated and one not; the liveness run needs one.
- *Versions* (`MaxClock`). Three let a file be stale in the cache, newer at the
  walk, and newer still at the read. `MaxClock` bounds the edits of a behaviour,
  not its length: starts, crashes and damage are unbounded.
- *Extension maps.* The code only compares them; two values are the two outcomes.
- *Processes.* Of three processes over one cache the third can do nothing to the
  first that the second cannot: they meet in a single replace. The theorems cover any
  number.
- *Calls and ticks.* Two calls make a queue: one holds the lock, one waits. The
  lifetimes keep their order (failure shorter than success) and leave room for an
  answer that arrives late. The theorems cover all lifetimes and any set of calls.
- *Answers* (`MaxSize`, `MaxChunk`, `MaxAnswer`). Below, at and above the limit, in one
  chunk and in several; the theorem covers every size.
- *Kits.* A kit is made at each start that finds one incomplete; the theorem has
  no bound.
- *Environments and flags.* Each setting that meets another in a condition takes all
  its values together with the other one; the theorem covers all of them.
- *Commands of the export* (`MaxRuns`). A second command finds what the first one
  left, whole, half or of another spelling; a third would find nothing else.
- *Containers.* Two blocks make a chain, a cycle and an end; the theorem covers all.
- *Searches.* Limits below, at and above the number of matches; a module longer than
  the context; one query for each way a line can be found; a word that is a part of
  another one, which is the synonym of a third.
- *Texts.* A vocabulary joins the statements that act on each other; its length lets
  the shortest text of each pair of blocks, one inside the other, be finished. Six
  vocabularies are bodies of a method with a variable (`elsif`; `else`; `while` and `for
  each`; `for ... to`; handlers; jumps and `try`) and have expressions that read it and expressions that do not, so that in some text
  each of their places for an expression is the only one to read it. Four open blocks
  (`MaxDepth`) are the module, the method and two inside of it.
- `Installer` has no bound: the run visits every reachable state.

Symmetry (files; processes) is used in safety runs only. Each property of
a passing run has a mutant in `PROJECT.json`: a definition changed as a plausible
bug would change it, under which the same run finds the property violated. For
example: UPDATE before the FTS delete; ready before the diff; the lock not
released by a raising `close()`; an error that keeps the old rights; a request
that fails recorded as good; the size checked before the chunk is counted; a
teardown that goes on although a `close()` failed; the exit code of
DESIGNER taken at its word; every manifest beyond the budget warned about; the
total counted only as far as the list; the limit of depth off by one.

## 4 Fairness

- *Threads* (`DumpIndex`, `HelpIndex`): weak fairness of the builder, of a thread
  inside `close()`, and of an admitted search. The operating system runs a thread
  that can run. Nothing obliges an edit, a fault, a start, a search or `close()`
  to happen. A search waits for the lock until `close()` has let it go. `MCIndexes`
  asks for the fairness of both modules; each is about its own variables and actions.
- *Coroutines* (`AccessGate`): weak fairness of each call's steps; the event loop
  runs what is ready, and the lock is FIFO in the model because it is in asyncio.
  In the run `server` this is the fairness of those behaviours in which the gate moves.
- *1C*: weak fairness of an answer while it stays up. That the answer of a 1C that
  is up comes within the time limit is a guard of `Tick`; of a 1C that is down
  nothing is assumed, and its answer may come late, broken or never.
- *Time*: strong fairness of `Tick`. Time passes however often the network goes
  and comes; weak fairness would let a flickering network stop the clock.

`RefusalsEnd` assumes in its statement that 1C stays up and grants all methods
from some moment on. No other liveness property assumes that faults stop. The
other modules have safety properties only: their steps are taken one after the
other by one thread, or wait for 1C without a limit of their own.

## 5 What is proved

Each theorem holds for all values of the constants under the named assumptions of
the modules (finite sets of files and roots, sentinels outside the sets they
extend, `FailTtl` at most `OkTtl`, and the like) and is checked by TLAPS.

| theorem | property | extra assumption |
|---|---|---|
| `DumpIndexProofs!TypeCorrect` | `TypeOK` | |
| `DumpIndexProofs!CacheIsFaithful` | `CacheFaithful` | |
| `DumpIndexProofs!ReadyIsCurrent` | `ReadyIndexIsCurrent` | |
| `DumpIndexProofs!ReadyIsWhole` | `ReadyHasWholeIndex` | no `close()`, no print error |
| `DumpIndexProofs!OnlyBrokenCacheIsDiscarded` | `DiscardsOnlyBrokenCache` | those, and no failing statement |
| `HelpIndexProofs!TypeCorrect` | `TypeOK` | |
| `HelpIndexProofs!CacheIsFaithful` | `CacheFaithful` | |
| `HelpIndexProofs!ClosingIsFinal` | `ClosedForGood` (a temporary file only where the cleanup failed) | |
| `HelpIndexProofs!Refinement` | `ImplementsHelpCache` | |
| `HelpIndexProofs!LoneServesCurrent` | `ServedIsCurrent` | one process per cache file |
| `ServerProofs!TypeCorrect` | `TypeOK` | |
| `ServerProofs!RightsAreRecent` | `ServedRightsAreRecent` | |
| `ServerProofs!OneRequestPerExpiry` | `AsksOncePerExpiry` | |
| `ServerProofs!StopIsClosed` | `StopMeansClosed` (without the dump index, if its builder was overtaken) | |
| `ServerProofs!MismatchIsOfAnAnswer` | `MismatchIsAnswered` | |
| `ServerProofs!AnswersAreWithinLimit` | `AnswerWithinLimit` | |
| `ServerProofs!EveryCallIsAudited` | `AuditIsComplete` (but for calls that were cancelled) | |
| `ServerProofs!TransportTypeCorrect` | `TransportTypeOK` | |
| `ServerProofs!ListensOnlyAsTold` | `ListensAsTold` | |
| `ServerProofs!OnlyTheTokenPasses` | `PassedHasToken` | |
| `ServerProofs!LoneStartFindsPair` | `StartFindsPair` | one process per directory |
| `InstallerProofs!TypeCorrect` | `TypeOK` | |
| `InstallerProofs!InstalledCopyRuns` | `InstalledIsApplied` | |
| `InstallerProofs!NoteIsGiven` | `NoteWhenRolesDropped` | |
| `InstallerProofs!ChainCures` | `KnownErrorsAreCured` (DESIGNER tells all its reasons at once) | |
| `InstallerProofs!ExportTypeCorrect` | `ExportTypeOK` | |
| `InstallerProofs!ReplacedIsWhole` | `AllReplacesWhole`, of `ReportIsTrue` | |
| `InstallerProofs!ReportHolds` | `ReportIsTrue` | no accepted name folds to a standard directory |
| `InstallerProofs!BaseIsSafe` | `BaseSurvives` | the same |
| `DumpProofs!ScanTypeCorrect` | `ExtTypeOK` | |
| `DumpProofs!LossIsLogged` | `NoSilentLoss` (of what could be listed) | |
| `DumpProofs!RootsAreSure` | `RootsAreUndisputed` | |
| `DumpProofs!NamesAreApart` | `NamesTellApart` (modules of objects, forms and commands) | |
| `DumpProofs!SearchTypeCorrect` | `SearchTypeOK` | |
| `DumpProofs!SearchCountsAll` | `CountsAllShowsFirst` | |
| `DumpProofs!SearchExplains` | `HitsAreExplained` (words also as parts of longer ones) | |
| `ParserProofs!HbkTypeCorrect` | `HbkTypeOK` | |
| `ParserProofs!ReadingIsSafe` | `ReadsAreBounded` | |
| `ParserProofs!PairsAreRight` | `PairsAreAccepted` | |
| `ParserProofs!ExpressionTypeCorrect` | `ExpressionTypeOK` | |
| `ParserProofs!ExpressionsAreExact` | `ExpressionIsExact` | |
| `ParserProofs!ParserTypeCorrect` | `ParserTypeOK` | |
| `UnreachableProofs!UnreachableStatementsExact` | `UnreachableIsBehindJump` | |
| `ComponentsProofs!ComponentsTypeCorrect` | `TypesOK` | |

The extra assumptions are not conveniences: the first one, those of one process and
the one about names are necessary, as section 6 shows. What stands in brackets is in the
statement of the property itself.

*DumpIndex* has an inductive invariant of five layers, each proved on top of the
ones below. (1) `Typed`. (2) `Faithful`: versions only grow, so a row's stamp is
at most its content and its content at most the file's version; if the stamp is
that of the file, all three are equal. This is why an edit between the walk
and the read is caught at the next start, and `CacheFaithful` alone is not
inductive because it says nothing of the uncommitted draft or of files that will
change. (3) `Current`: how far walk, draft and cache have caught up with the files
that nobody has touched since the start; it has a clause per phase, and the
diff step needs that what it leaves alone is as the walk saw it. (4) `Connected`:
when only the builder touches the connection, `ready` and the position of the
builder determine it. (5) `DiscardsBroken`: the way to `Unlink` starts only from
a cache that was not accepted.

*HelpIndex.* A version that was on the disk never returns (`Seen`): a later edit
draws a larger one. Every file of an index has all pages of a version not older than
its manifest says (`Covered`), the draft of each builder has them for the files it is
done with (`Drafted`), and the file under way has its first pages (`Begun`). An index
whose manifest is the disk can then only hold the versions of the disk. The
refinement follows from the same invariant: what `Replace` moves into place is an
`IndexOf` some versions that are `Complete`, and every other step leaves the cache alone
and keeps, drops or opens a connection (`Connection`). With one process, `Current`
carries the files that nobody has touched from the manifest to the connection.

*AccessGate* (in `ServerProofs`). For a cached method `gone + ttl` is at most `OkTtl + Timeout`, for
one in an answer under way `gone + timer` is at most `Timeout`: both sums are kept
by a tick, and a new answer starts from the second to make the first. `Expiry`,
the mirror image (`quiet + ttl` is at least the lifetime recorded), gives one
request per expiry.

*ServerLife* (in `ServerProofs`). `ClientInv` says of each task what it may hold: bytes only of a good
answer, at most the limit, and all of them where they are decoded. It is local, so a
step of one task needs no more than that the others stay. `TeardownInOrder` ties
each step of the teardown to what the steps before it have closed, `CheckOnce` the
version check to the log. `Trailed` says of each trail, between any two awaits, that
its first events are those of the requests that are over, the last of them with
the result the task holds, and that nothing but the tool's own event follows; a request
under way has no event yet. `AuditIsComplete` looks at calls that have ended, and a
call that is about to be cancelled looks no different from one that is not: the
invariant has to hold at every await.

*Transport* (in `ServerProofs`). What `Merged` and `ConfigError` let through is proved once, for every
environment and every set of flags (`LaunchListens`); the invariant carries it from the
start to the request.

*HbkChain* (in `ParserProofs`). `HbkInv`: bytes taken and bytes remaining are the bytes announced; the
blocks read are as many as the addresses visited (`Counted`), and the next address is
a new one (`Linked`). A cycle would need an address that is not new.

*BslDirectives* (in `ParserProofs`). The stack of the code is the nesting of the text
as counting gives it (`IsNesting`): the level behind the last directive is its
length, and the `k`-th entry was opened by the last directive that led from level
`k - 1` to `k`, with `else` noted where one followed on that level (`OpenedAt`). This
holds while no directive was blamed; from the first blamed one on, some directive does
not belong anywhere, and no later one changes that. The lemmas are about counting in a
sequence that grows by one (`CountFact`, `CountSame`, `CountNone`).

*BslExpression* (in `ParserProofs`). `ParsingInv` relates the open calls of
`expression()` to the tokens taken. All but the innermost wait, and only what stands
in brackets may be a comparison (`Stacked`). Where the innermost stands, and the node
it has, is what the last two tokens say (`TopFits`, `NodeFits`). The reads of all open
calls together are the identifiers so far that are read (`ReadsFit`); the last one is
undecided until the next token shows whether it is called, which is why `CallMethod` may
take it out again, and why it must be in no other call. The open brackets are
as many as the calls inside of one (`DepthFits`), and an operator outside of all
brackets is known to the outermost call (`OperatorsFit`): without these two, nothing
relates the node that is returned to the operators of the whole text. `TargetIsPlace`
speaks of the finished expression, and says nothing of the calls it came from.

*BslParser* (in `ParserProofs`). `ListFits` says of the agenda that the whole text lies at
its bottom, that the rest of a statement lies on the block it belongs to, and that every
question the code asks of a token has an answer. What a statement consists of is `Plain`,
neither a block nor the rest of a statement, so that putting it on the agenda leaves the
blocks as many as they are (`PushFits`, `StartFits`); only `EnterFits` adds one, and it
stands behind the check of the depth. `TextFits` keeps the tokens within the text: no token
that is taken is the end of it. That the agenda is never empty while the verdict is
"parsing" is what `ListFits` is for: only the block at the bottom stops at the end.

*Unreachable code* (in `UnreachableProofs`). `UnreachableIsBehindJump` knows only the
text: nesting is counted from keywords, a statement starts where a token stands behind
a separator. The code knows neither; it has a flag in each open block. `StackInv` says
what the agenda tells of the text read so far, from its bottom up (`InStep`): a block lies
at the level that as many ends still to come give it (`Height`, `OpenFits`); between two
statements its flag says that a jump of its level is open behind its beginning
(`TopBlockFits`), and while a statement is under way the flag noted for that one says
the same of its first token (`StatementFits`); a block still to come has its keyword in
front of it (`EntersFit`); and what is on top of the agenda fits the last token
(`LastFits`), which is how a token is known to start a statement or to go on with one.
The reports are then those of the text, but for the statements that are under way
(`ReportsFit`): the code reports a statement when it ends, the text condemns it when it
starts. This last clause is why the property is not inductive and why every open
statement, not only the innermost, has to be in the invariant. The proof has a part for
the pile (what replaces its top, `Raised`, and what a statement puts on it, `Laid`), one
for the productions of the grammar (`ChosenYields`, `StatementOpens`), and one step per
action. It assumes nothing of the text, and nothing of the parser beyond `ParserInv`.

*MCComponents* (in `ComponentsProofs`). A behaviour of all components side by side is one
of each (`EachBehaves`), so `TypesOK` follows from the theorems about each.

*TlsKit* (in `ServerProofs`). `InOrder`: a CA exists only behind a pair that fits, and a process at a
file has written the ones before it.

*Installer.* `LoadedIsCopy`: no error at the end of the chain means that the copy
in the base is the temporary copy, since every patch is followed by a load.
`NoteFollows`: roles are gone without a note only where a step still to come will
give the note or fail. `CureInv` follows the chain: `Cured(s)` says what the steps before
`s` have taken out of the copy for good, so that behind the last step the base has
nothing left to object to (`Agreeing`); this needs that DESIGNER tells all its
reasons (`Frank`), and that a failed attempt leaves no extension that the next load
cannot replace (`NoneInTheWay`).

*DumpExport.* `ExportOrder` says which names are done, failed or still to come at each
stage, `DoneIsThere` that the directory of each done one is a whole export of this
command. What threatens it is a later name with the same directory: `Distinct` keeps
one name per directory in a list, and in `-AllExtensions` the names come from the base,
which has no two that differ in case alone. The main configuration is the one
directory that nothing keeps apart, hence the assumption `ApartFromBase`.

*ExtRoots* (in `DumpProofs`). `OnceEach`: no path is looked at twice, and one of the second level only
behind its parent; so every read adds a directory to `found`, and `BooksAgree` can
count reads against the budget and tie the list of each name to the directories whose
manifest gives it. `Settled` then compares the roots with those lists. The proof of the
last loop is one over all names at once; the order of the scan does not appear in it.
For the names, `HomesApart` says that only a directory that is not rejected has a
manifest, and one that was looked into has none: so no root lies in another one, nor does
a file of the configuration lie in a root, and a path put together from a root and a
file is taken apart there again. A name begins with `ext` exactly where its file is that
of an extension, and two owners never have one prefix.

*DumpSearch* (in `DumpProofs`). `ScanOrder` and `Counting` follow the scan by lines: the
counter is the number of hits that lie behind the place of the scan, each line adds at most
itself to them (`PastStep`), and as long as the list is not full it has them all, so that
what is listed later comes after everything listed before. At the end every hit lies
behind. `SmartInv` is about the smart search: every row matches the expression, and the
synonyms are mutual as far as they are built, which needs that no word is in two pairs
of keywords (`SearchAssumption`; the list of the code is such). Then either some line has
a word of the query, and `BestLine` is one (`BestLineFact`: among the lines with the most
words there is a first one), or the module was found by a synonym alone, and the second
attempt finds it: a token of a text is a part of it (`PartFact`). The words between spaces
are the tokens only where the query has no other separator (`WordsFact`).

Only model-checked:

- everything under fairness (`BuildSettles`, `DumpBuildSettles`, `AdmittedSearchReturns`,
  `CallSettles`, `RefusalsEnd`, `CloseReturns`), which the prover cannot reach;
- `IndentIsNesting`: the indent of a line is a fold over the events of all lines above
  it, which only an induction over the lines could follow;
- `UnusedIsNeverRead`: it finds the tokens of the `m`-th method by counting the ends of
  methods, so that the proof would have to carry through all productions which token was
  taken by which of them.

## 6 What the checks found

- `dumpindex_close`: the lifespan calls `DumpIndex.close()` while the builder is at
  work. The builder takes the error of the closed connection for a broken cache
  (`index.py:139`), deletes a good cache file and starts to build it again after
  `close()` has returned.
- `helpindex_stale`: publication and opening are two steps. A slower process that
  read the files before the change may publish in between, and its older index is
  then served as ready by the process that had built the newer one.
- `tlskit_crash`: `ca.crt` exists from its `open()` on, not from the end of its
  write. A crash in between leaves an empty CA that later starts accept, although
  the comment at `tls.py:114` takes its presence for completeness.
- `dump_base`: an extension whose name is a standard directory of a dump in another
  case (`ext` for `Ext`) is exported over that directory of the main configuration,
  although the comment at `installer.py:281` says that none may be overwritten.
- `ext_category`: the module of a recognized extension has the category `ext`, so
  that the filter by type of metadata, for whose sake extensions are recognized
  (`extroots.py:6`), finds none of them.
- `server_cancel`: a tool call that is cancelled leaves no event of its own, although
  `tools/common.py:31` promises one of every call: `CancelledError` is no `Exception`.
  `AuditIsComplete` therefore speaks of the calls that returned or raised.
- `search_part`: the line of a hit is looked for by parts of words (`index.py:554`, 564).
  A module found by a synonym only may have the word inside of a longer one; that line is
  then shown, the second attempt is skipped, and the line has neither the word on its own
  nor its synonym, although `docs/search-and-index.md:164` promises the second attempt.
  `ShownLineExplains` therefore counts parts of words.

Seen while modelling, and in no run:

- `ready` is set before the last prints, still inside the `try` of `_build`
  (`index.py:154`): if stderr is gone, the except branch discards an index that is
  served, and the `assert` at `index.py:457` fails. The dump part of `indexes_shared`
  therefore leaves out failing prints.
- The `finally` of the help builder closes a connection and removes a file before it
  releases the waiters (`helpindex/__init__.py:176-181`): if one of the two raises, the
  file stays and the tools are told for ever that the index is being built, or that it has
  failed. `BuildSettles` and `ClosedForGood` name this as their exception.
- The lifespan goes on although the builder of the dump index is still at work
  (`index.py:384`), and skips what follows a step that raised: `StopMeansClosed` is about
  what `server_stop` then says.
- Two servers started at once with one TLS directory can leave certificate and key of
  different kits; `StartFindsPair` is proved and run for one process.
- Where a load does not replace an extension, the reload at `installer.py:461` meets
  the extension this run has loaded itself: the exception in `KnownErrorsAreCured`.
- The body of an error answer is read whole, without the limit that `client.py:27`
  announces (`client.py:87`); `AnswerWithinLimit` is about answers that are decoded.
- A request that is cancelled, or made with a closed client, leaves an event with
  `ok=true` unless the answer had already been refused (`client.py:132`);
  `AuditIsComplete` says nothing of its outcome.
- The line a smart search shows is looked for with the words of the query between
  spaces, not with its tokens (`index.py:479`), so that `ShownLineExplains` leaves out
  queries with other separators; and `_best_line` counts a repeated word each time
  although its docstring says distinct.
- When DESIGNER tells its reasons one at a time, the chain of retries, which is gone
  through once, may meet a reason it knows behind the step that would have cured it:
  `KnownErrorsAreCured` asks that all are told at once.
- A wrapper directory that cannot be listed counts as an empty one (`extroots.py:126`):
  its extensions get no namespace, and no warning tells. And of two directories that
  claim one name, the first is recognized if the budget ends before the second.
- `raise` without an expression is rejected in front of `elsif`, `else` and `except`
  (`parser.py:200`), where `return` is accepted. A line that ends a statement and
  starts another one is indented like a start; `IndentIsNesting` leaves out such lines,
  and those that begin with `;`.
- The module of an object inside of another one (a recalculation of a calculation
  register, a table of an external data source) gets the name of the module of that
  kind of the outer object (`modulenames.py:135-156`), and so do the modules of two
  tables. Objects called `Forms` or `Commands`, and files below unrecognized wrapper
  directories, can get colliding names too; `NamesTellApart` is about the modules of
  objects, forms and commands elsewhere.

## 7 Not modelled, and why

- *Ranking and layout* of the searches; *formatting* by the tools; *masking of
  personal data* and the read-only check of queries: text processing over one answer,
  without state.
- *The BSL lexer and the form parser*: text and XML into records, one character or
  element at a time. What they compute for all inputs is out of reach of a model
  smaller than they are.
- *Constant data* (help texts, prompts, lists of names) and *developer scripts*. They
  are a quarter of the lines.
- *The 1C extension*: it runs inside 1C, and the client takes any answer; AccessGate
  and OneCClient model it as an environment that may answer anything or nothing.
- *SQLite, asyncio, uvicorn, DESIGNER, 1C* are modelled only as far as the code
  uses them: transactions are atomic and survive a crash when committed;
  `os.replace` is atomic; DESIGNER's answers follow the reasons the comments
  of the chain give, plus anything else; and a load that was half done always leaves a
  message that `_DESIGNER_FATAL_LOG_RE` knows.
- *Two edits with one stamp* (same size within a millisecond) cannot be told
  apart by the manifest of the code, nor by a version here.
- *Durability below the file system*: a crash is that of the process, not of
  the disk.
- *Two builders over one dump cache*: SQLite's file locks decide between two writers,
  and what one sees of a file the other deletes differs by operating system.

## 8 What is left

In the order of what it would add:

1. A proof of what `BslParser` reports of unused variables, on top of `StackInv`.
2. An abstract `SearchService` that joins `DumpIndex` and `DumpSearch`: a search is
   answered from the dump of some start, or told to wait.
3. `SharedCache`: two processes over one dump cache, once a model of SQLite's locks
   on the systems the code supports is settled.
4. `ServerLife` with the whole `DumpIndex` and `HelpIndex` instead of a connection that
   is open or not.
5. The query tools (read-only check, masking, limits) and the requests of
   `Module.bsl`, as operators over small answers.
