# ArcadeLauncher StreamEngine: specifications, checks and proofs

The engine is a helper process of the ArcadeLauncher. The launcher starts it in one of two modes and
talks to it over a local pipe or socket (`docs/IPC.md`):

* **client mode** (`src/client/`, `src/net/`): pair with a GameStream host, launch an app on it, and
  show its stream in a window;
* **host mode** (`src/host/`): run a bundled Sunshine as a child process, publish the launcher's games
  to it, and authorise clients by seeding their certificates.

This directory holds TLA+ models of the parts of the engine where several threads, processes or
restarts meet, TLC configurations that check them, and TLAPS proofs. Paths below are relative to the
repository root; `PROJECT.json` maps every definition to its lines.

## 1. Inventory

| component | state | operations | interacts with | what makes it correct |
|---|---|---|---|---|
| stream session (`client/stream_session.cpp`) | `running_`, `stopRequested_`, `worker_`, the globals `g_sink`, `g_video`, `g_audio`, the objects on `run()`'s stack | `start`, `stop`, `run`, ten callbacks | IPC handlers on the main thread, moonlight-common-c's threads, SDL | callbacks meet live renderers; one connection; `stop` is complete and returns; the launcher learns of every end |
| IPC server (`ipc/server.cpp`, `ipc/frame.cpp`, transports) | handler table, `write_mu_`, the transport | `handshake`, `run`, `emit` | launcher; stream threads that emit | whole frames; one answer per request; nobody waits for ever |
| client handlers (`client/stream_main.cpp`) | the static session and store | `client.*` | all of the client side | validation before effect; the key in use is the one the host was given |
| identity store (`net/identity_store.cpp`) | three identity files, `hosts.json` | load or create, upsert, find, list, remove | file system; earlier and later engines | identity whole and stable; pins are kept |
| pairing (`net/nv_pairing.cpp`, `pairing_crypto.cpp`) | per-call keys and challenges | five-stage handshake, unpair | host over HTTP/HTTPS | success is mutual; the PIN is blamed only for the PIN; a broken attempt does not block the next for good |
| launch, app list, XML, HTTP (`net/nv_launch.cpp`, `nv_applist.cpp`, `gamestream_xml.cpp`, `http_client.cpp`) | pinned certificate | one request at a time, each on a connection of its own | host | a name starts that app or none; the input key goes to the pinned machine only |
| renderers, window (`client/video_renderer.cpp`, `audio_renderer.cpp`, `stream_window.cpp`) | the pending frame, the texture, the pad table | submit, present, pump, cleanup | decoder thread and worker | a frame has one owner and the newest waits; nothing is freed under its user; no slot keeps a pad that is gone |
| Sunshine backend and handlers (`host/sunshine_backend.cpp`, `host_main.cpp`, `client_trust.cpp`) | `pid_`, `binary_`, Sunshine's state file | `host.*`, start, stop, running | child process, operating system, Sunshine | the child is never lost, doubled or confused with another process; stale trust is reported |
| app catalog (`host/host_apps.cpp`) | `sunshine_apps.json` | publish, list, diff | Sunshine, whoever edits the file | what is read is what was published, or nothing; counts add up |
| JSON (`ipc/json.cpp`) | none | parse, dump | everything above | JSON texts get their values, malformed ones pass only by known leniencies; what is written is JSON and strings come back as they were |
| settings, entry point, OpenSSL identity | none | pure functions | | ranges after the cast |

The hard behaviours, in the order of what they can cost:

1. *Threads of the stream.* Main thread, worker and moonlight's threads share globals without locks.
   Order is kept only by `running_`, `stopRequested_`, `join` and `LiStopConnection`.
2. *The process's end.* The launcher may vanish at any time; the `Server` dies before the session.
3. *The channel.* Responses and events share one pipe, and `client.stop` joins threads that emit.
4. *Restarts.* Identity, registry, catalog and Sunshine's state file outlive a killed engine.
5. *The child.* Sunshine starts, dies and ignores signals in its own time; pids are recycled.
6. *The network.* Each request of a pairing or a launch is a new connection: it may be lost, cut,
   answered by another machine, or answered after the host's owner or another client did something.

`PROJECT.json` lists these as hazards, each with the line where it bites and the properties that
would catch it.

## 2. Modules

| module | models | state and actions |
|---|---|---|
| `MoonlightLease` | the promise: `running_` is a lease on the one-connection library | `held`, `lib`; take, open, close, give up |
| `StreamSession` | `stream_session.cpp` with the parts of `stream_main.cpp` that drive it | one program counter for the main thread (`start` and `stop` in several steps, then the process's end), one for the worker (`run`), the library's connection state and the callbacks in flight |
| `FrameChannel` | the promise of `write_locked`: a channel of whole frames | `pending`, `queue`, `taken` |
| `IpcServer` | `server.cpp` over `frame.cpp` and a transport | main program counter, one write state per thread, `write_mu_`, the pieces (header, body) in the pipe, the launcher's framed reader |
| `IdentityStore` | `identity_store.cpp` | files by the identity they belong to, one program counter per engine process, crash after any step |
| `SunshineHost` | `sunshine_backend.cpp` (POSIX), the trust and enable handlers of `host_main.cpp`, `client_trust.cpp` | `pid_`, the process table, Sunshine's state file and what each Sunshine has loaded |
| `NvReply` | the reading of answers: `http_client.cpp` (receive, dechunk, split), `gamestream_xml.cpp`, `nv_applist.cpp` | pure operators on documents, which are sequences of elements |
| `NvPairing` | `nv_pairing.cpp`, `client.pair` and `client.trustHost` of `stream_main.cpp`, the pinning of `http_client.cpp` | the machines behind one address, the pinned certificate, the program counter and locals of the handler; one action per request |
| `ClientControl` | `client.start`, `client.apps`, `client.stop`, `nv_launch.cpp`, `stream_config.cpp`, on top of `NvPairing` | the handler's locals, the stream with its host, key and settings |
| `VideoRenderer`, `AudioRenderer`, `StreamWindow` | the files of the same names | who owns which frame, codec and texture; what is open of the audio; slots, SDL's device list and event queue |
| `MediaPipeline` | the renderer build's part of `StreamSession::run`, composing the three | the worker's program counter and the teardown steps still to come, moonlight's two threads |
| `Json` | `ipc/json.cpp` | the writer, the reader as a table of what `value`, `object` and `array` make of the text from each place on, and beside them a declarative reference (`Means`) for a grammar: `JSON`, or `Lenient`, the same with the three leniencies of the code |
| `HostApps` | `host_apps.cpp`, `host.syncApps` and `host.listApps` of `host_main.cpp` | the text of the catalog, the handler's steps (read, truncate, write), crash, short write, edit |
| `MC*` | the instances for TLC | constants only |
| `*Proofs` | theorems and their proofs, one module for each of `StreamSession`, `IdentityStore`, `SunshineHost`, `MediaPipeline` (with the renderers and the window), `IpcServer`, `ClientControl` (with `NvReply` and `NvPairing`), `HostApps` (with `Json`) | |
| `SequenceLemmas` | facts about naturals and sequences that several proofs share | |

Steps are cut where another thread or process can see the difference. `StartPublish`/`StartSpawn`,
`StopRequest` ... `StopClear` and `RunSetup` ... `RunReport` are the statements of `start`, `stop` and
`run` in program order; `TrustRead`, `StateOpen`, `StateWrite`, `TrustAnswer` are the four moments of
`host.trustClient` at which Sunshine can get in between.

Abstractions of data. Ciphers are records that open with their own key only, hashes and signatures
are the tuples of what goes into them, a certificate is its machine. Titles are words with their
letter case set apart and the number they begin with (`Leading`), which is all `std::atoi` sees.
Setting values are counted in halves, so that the cast has a fraction to cut off. Frames have a number,
a format and a size; the statistics are left out. A JSON text is a sequence of tokens, a string token
the characters that matter to escaping, four hex digits one character; numbers are two literals, those of
JSON and those that only `strtod` takes (`01`). A file is cut between tokens: a cut inside one leaves it unreadable or a shorter number, and the closing brace is
missing either way. Of an
app's optional fields `cmd` and `wait-all` stand for the others.

In each module the definitions called "Mutated form of ..." are deliberate small errors (a dropped
guard, a lost reset, a swapped order) kept beside the definition they disturb; each property is shown
to notice one of them.

External parts, modelled from how this code uses them:

* **moonlight-common-c.** `LiStartConnection` calls `vr_setup`, then either fails (after its threads
  are gone) or starts; submit callbacks come from its threads; `LiStopConnection` returns when the
  callbacks have (the comment at `stream_session.cpp:252`); an interrupt that comes before the setup
  began is forgotten.
* **The launcher** sends a hello, requests and noise, closes or dies at any time, and reads as long as
  it keeps its end open.
* **Sunshine** reads its state file when it starts serving, saves the clients it knows when it pairs
  one itself, may exit at any time, need not obey SIGTERM, and cannot serve beside another instance.
* **A GameStream host** (`OnServerInfo` ... `OnUnpair`, `OnApplist`, `OnLaunchOrResume`, one operator
  for each request) keeps one pairing session at a time, goes
  through its stages in order, trusts a client from stage 4 on, speaks HTTPS only to clients it trusts,
  launches an app it has when none runs, and takes the key of the last launch or resume.
* **SDL** gives each pad a new instance, keeps a list that closes up, and queues ADDED with a place and
  REMOVED with an instance.
* **Windows pipes** opened without `FILE_FLAG_OVERLAPPED` run one operation at a time on the handle
  (`SerialIo`).

## 3. Runs

| run | instance | shows |
|---|---|---|
| `session_av` | video and audio | the inductive invariant, renderer lifetime, complete stop, no silent end, refinement of `MoonlightLease`; `stop()` returns and a closed window is reported |
| `session_headless` | no renderer, where the connection outlives `run()` | one connection, `g_sink` reset alone |
| `ipc` | two emitting threads, two frames after the hello, two events, a pipe of two pieces | frames whole, answers once and in order, events in order, refinement of `FrameChannel`; no request and no event is left hanging |
| `store` | one engine, two hosts, two certificates, four generations | whole and stable identity, pins kept, across crashes at every step |
| `host` | two pids, two clients, two polls | child known, stop final and finite, other processes spared, stale trust reported |
| `pairing` | two machines of different generations behind one address, a rival client and an owner on one of them | `client.pair` succeeds only when trust is mutual, blames the PIN only for the PIN, and succeeds in the end if repeated and the PIN is typed in time |
| `client` | the same two machines with different app lists, one entry without an id; titles, a number; settings at and beyond the bounds | the key stays with the pinned machine, a name starts its own app or none, settings stay within bounds |
| `media` | two frames (shown or not), two slots, three pads, every failure of the set-up | one owner per frame, the newest waits, nothing freed under its user, nothing left behind, no ghost pads; a stop or a closed window ends `run()` |
| `catalog` | five libraries (escapes, a URI, equal names), every text of up to four tokens, strings of up to three parts (raw characters, escapes whole and broken), one edit of one token | the JSON reader reads JSON and beyond it only the leniencies; a catalog reads whole or as empty; the reported difference is the real one |

Bounds. `StreamSession` counts nothing, so its runs cover sessions of every length. In `IpcServer` two
emitters and the main thread contend for a pipe that cannot hold two frames, so a writer blocks inside
a frame; two requests allow start and stop in one connection; more repeats the same states. In
`IdentityStore` four generations allow a crash after each of the three files and one more attempt. In
`SunshineHost` two pids let one be recycled while the other is in use, and `MaxPolls = 2` has a first,
a last and no further look (the code has 50).

In `NvPairing` two machines are enough for any two requests to be answered by different ones, and their
different generations make every mix of digests happen; salts are reused only when no session holds
them. `pairing` leaves out launches and `client` leaves out the handshake (certificates come by
`client.trustHost`, trust by the owner): the two meet only in the pinned certificate and the host's
trust, which both runs let change freely. In `media` two frames make one wait while the next is decoded;
three pads let one leave, the next move up and another arrive at the place that is taken, in two slots
(the code has four). In `catalog` the texts of up to four tokens hold every pair of neighbouring
tokens inside brackets; longer ones are the catalogs themselves and their edits.

Fairness. Threads are scheduled (`WF` on the steps of main thread and worker); moonlight finishes a
setup, returns from callbacks and obeys a stop; a launcher that keeps its end open reads; SIGKILL
works. Nothing obliges the user, the launcher's requests, the host or Sunshine's obedience to SIGTERM.
`StopReturns`, `CloseReported` and `RunEnds` therefore rest on the library's behaviour above,
`StopEnds` on SIGKILL alone. `PairingConverges` assumes that the network becomes reliable and the PIN is
typed right at some time (`calm`), that from some time on it is typed within the five seconds for which the
engine waits for the answer to `getservercert` (`PinInTime`), that the launcher tries again and again, that
a handler's next step comes (every request ends, by the system's limit for a connect or by the receive
timeout) and that another client's pairing ends; nothing is assumed of what was left on the host before.
`PinInTime` is an assumption on people, which the code does nothing for: see below what happens without it.

`Gone`, `Ended` and `Done` let what is finished stutter, so deadlock is checked everywhere.

### Where code and documentation disagree

Three runs end in a counterexample; each states a sentence of the repository (quoted in `PROJECT.json`).

* `session_restart_aborts`: after a session ended by itself, `client.start` without `client.stop`
  assigns over a joinable `std::thread`: the engine terminates.
* `session_late_emit`: after a disconnect the worker emits through a destroyed `Server`.
* `client_rekey`: a `client.start` during a stream resumes the host's session with a new key and is then
  refused: the running stream's input is encrypted with a key its host has dropped.

Seen while modelling, without a run of their own:

* After the host ended a stream and the launcher was told, `running_` stays true, so `client.start`
  answers `engine_busy` ("already streaming", `docs/IPC.md:105`).
* With `SerialIo = TRUE`, the Windows pipe as `transport_win.cpp:51` opens it, TLC refutes
  `EventsDelivered`: an event waits until the launcher sends its next frame.
* With `Faults = {"flush"}` TLC refutes `IdentityWhole`: data lost at close, which `write_file` does not
  look at, plus a kill during the next generation mixes two identities.
* A repeated `host.trustClient` says `restartRequired: false` while the running Sunshine still does not
  know the client (`host_main.cpp:195`).
* A title that begins with a digit is taken for an app id (`stream_main.cpp:385`), and an app that runs
  is resumed whatever `app` says (`nv_launch.cpp:73`). `NamedAppIsStarted` leaves both out.
* `json.h:66` promises nothing for malformed input, but `parse` has three leniencies: raw control
  characters in a string (`json.cpp:166`), a low surrogate alone (`json.cpp:150-160`) and numbers that
  only `strtod` takes (`json.cpp:184`). `ParserMeetsGrammar` says that there is no fourth; as an invariant
  of `catalog.cfg`, `NothingMalformed` is refuted at once by a string with a raw newline.
* `docs/IPC.md:49` calls `host.pairAccept` unsupported; `host_main.cpp` makes it an alias of
  `host.trustClient`, and so does the model.
* Without a window the code says it goes on headless (`stream_session.cpp:202`), but `vr_setup`
  then returns -1 (`stream_session.cpp:69`) and the connection fails; the launcher gets that failure.
* `docs/IPC.md:79-81` refuses any setting out of bounds; the cast comes before the check, so an `fps` of
  240.5 is cut to 240 and accepted. `StreamedAsDocumented` speaks of what is streamed.
* A host answers `getservercert` when its owner has typed the PIN, and the engine waits five seconds
  (`nv_pairing.cpp:116`). A right PIN typed later fails stage 1, which sends no `unpair`: the session stays
  on the host and the next attempt is told `already_pairing`. An owner who is slow every time never pairs
  (`GetServerCertTimesOut`; without `PinInTime` TLC refutes `PairingConverges`).
* An answer cut before `<plaincert>` is reported as `already_pairing`; a `serverinfo` cut before
  `<appversion>` makes a right PIN come out as `pin_wrong`, the exception in `PinBlamedRightly`.
* `host.syncApps` may report success for a catalog that was cut at the flush and reads as empty;
  `diff_apps` of a list with one name twice against itself reports an update.

## 4. Proofs

Each holds for every value of the constants.

* **`StreamSessionProofs`.** `SessionInv` is inductive. Its parts: `ThreadsInv` (which program
  counters go together), `ConnInv` (where the connection is, given where its owner is), `RunningInv`
  (`running_` is true from `start` until the library rests), `ObjectsInv` (published pointers point at
  live objects), `ReportInv` (the sink lives as long as a worker; an unasked end has a reason). The
  safety properties say nothing of the steps in between, which is why the parts are needed: that a
  callback meets a live renderer follows only because a renderer is torn down in states where the
  connection is off. The exception `Restarting` is the moment in which `start` has set `running_` but
  an older worker is still leaving. From the invariant follow the five safety theorems and
  `SessionImplementsLease`.
* **`IdentityStoreProofs`.** Under `Undisturbed` (one engine at a time, no write faults): `uniqueid` is
  written last, so once it exists the three files are the first identity and are never written again
  (`DiskInv`); an engine that writes has found no `uniqueid` (`LoadInv`). Number of crashes, hosts and
  certificates are arbitrary. `Undisturbed` is how the launcher runs the engine; with
  `Faults = {"flush"}` TLC shows that the second half of it is needed.
* **`SunshineHostProofs`.** `PidInv`: the children in the process table are exactly the one `pid_`
  names, at every step of `stop`. `PortInv`: a child serves only where no orphan does. `TrustInv`: until
  the answer to a new client is out, the child knows what is on file or the launcher was told. From
  them the four safety theorems. `SignalsSpareOthers` is an action property: neither SIGTERM nor SIGKILL,
  each of which would end whatever process has the pid by now, ends one that is not Sunshine.

* **`MediaPipelineProofs`.** `MediaInv` ties the worker's program counter to the teardown steps still to
  come (`StageInv`: what is open is exactly what `todo` will close, and the connection is closed first),
  to the callbacks that may be in flight (`CallbackInv`), to the owners of the live frames (`FrameInv`)
  and to the event queue (`PadInv`: for every pad that is in a slot and no longer in SDL's list a REMOVED
  event is queued). `NothingLeftBehind` speaks of the last state only and `NoGhostPads` of states with an
  empty queue only; neither is inductive without the part that says what is still to come. `OneOwner`
  counts, which needs the cardinality of a union of disjoint sets, proved once (`ThreeParts`).
  Any number of frames, slots and pads.
* **`IpcServerProofs`.** `LockInv`: at most one thread is between a header and its body, the one that
  holds `write_mu_`. `WireInv`: the pieces in the pipe alternate, each body is behind its own header, and a
  thread inside a frame is the author of the last header. `InboxInv`, `CallInv`: requests are numbered,
  read and begun in order. `OrderInv`: each thread's numbers rise along what the launcher has read and then along
  the pipe, and while the launcher's end is open none is left out but the last, which is still to be
  written or was given up by the main thread. `HelloInv`: nobody else writes before the
  hello. From them `FramesArriveWhole`, `AnswersInOrder` and `EmittedInOrder`. `ServerIsAChannel` is the refinement of `FrameChannel` under `HandedIn`, `Bodies` and
  `got`: a frame is handed in until its body is in the pipe, every second piece of the pipe is a frame
  under way; a header is a stutter, a body is the step that queues the frame. Any set of emitting
  threads, any pipe size.
* **`ClientControlProofs`.** `ClientInv` says that the key of a running stream is on no machine but the
  pinned one and that the settings of a job and of a stream are documented ones. `FreshKey` is new because
  there are more keys than machines (`FreshKeyIsNew`, a pigeonhole argument: this is where
  `IsFiniteSet(Machines)` is used), which stands for 16 random bytes. The cast of a setting that no
  int can hold has either of its outcomes and neither passes the range check. `PairingIsMutual` follows
  from stage 5 alone. `PinIsBlamedRightly` needs `PinInv`: a session of ours on the machine whose
  certificate stage 1 brought is of this attempt, and has reached stage 2 only if the response in hand
  is its own. Stage 3 then leaves one reason for a wrong digest: the signature names the machine, so
  its session's key is the one the response was made with, and it differs from ours in the PIN or in
  the generation. That a cut answer cannot fake a field is `TextIsFromDocument`, from
  `NothingInvented`: `Received` is built from recursive functions over positions, and by induction over
  the positions its values consist of elements of the document, of any length, cut anywhere, chunked or
  not. `NamedAppIsStarted` needs more than that, the order: what is received is a start of the document,
  its last element perhaps cut off, also when the chunks of a cut body are put together (`ArrivesAsStart`). So
  the block of an entry never reaches into the next entry, whose ID would else be taken for its own; a usable
  entry is an entry of the host's list (`ParsedIsListed`), and a name gives the id of an app of that title
  or none (`NameResolvesOnHost`). `NameInv` says that this still holds when the launch comes: the pin does not
  change on the way, so the list and the launch meet the same machine.
* **`HostAppsProofs`.** First that the reader is what it seems: the table of `Parser(t)` is well defined
  (each entry needs entries of smaller `Rank` only: `object` and `array` call `value` on the same text,
  `value` calls them on a shorter one), and an entry holds a value exactly when one of three relations,
  "reads as a value, a member list, an element list from here to there", is built up by the grammar's
  rules. A text read at one place has one value and one end, and what is read does not depend on what
  follows. The same is done for the table of `Meaning`, whose entries are about intervals, which are split
  at any comma; that only the reader's own comma works is the core of `ParseIsMeans`, which is about the
  lenient grammar. These lemmas are stated for any grammar that `Fits`, so they serve `JSON` as well, and
  `MeansMore` compares two: where the tokens of a text stand for as much in the one as in the other
  (`Covers`), so does the text. `JsonIsRead` is one use of it, and `CatalogIsJson` the other way round
  another: every token the writer makes stands for the same in `JSON`. Second, the
  writer: `EscapeTo` is undone by `StrOf` for all strings, and `Writes` (this text is read as that value,
  whatever comes after it) is kept by members, objects and arrays, which gives `CatalogRoundTrip`. As a
  text that is read whole has no proper start that is read whole, `CutCatalogIsEmpty`. Third, the
  handlers: `CatalogInv` says that a file nobody edited is a start of a published text, at every step of
  `host.syncApps`; `CatalogIsWholeOrEmpty` alone is not inductive, because it says nothing of the moment
  between the truncation and the write. `DiffCounts` takes the loops' counts of positions to counts of
  names by the bijection that unique names give. Libraries, titles, texts and edits of any length.
* **`SequenceLemmas`.** The library's induction theorems take a predicate, which the provers cannot
  instantiate; `SetInduction`, `StrongInduction` and `Downward` take a set instead and are proved from the
  well-foundedness of `<`. The rest says where a part lies within a `FlattenSeq`.

`MediaInv`, `IpcInv`, `ClientInv`, `PinInv`, `NameInv` and `CatalogInv` were model-checked on the instances of the runs before they were
proved. Assumptions on constants are the named `ASSUME`s of the modules, which TLC evaluates for every
run; beyond types they say that bounds are positive, that `None` is no machine and `"none"` and `"main"` no
emitter, that `MaxInt` exceeds the largest bound a setting has, that
there are finitely many machines, and that the characters of a text (`Chars`) include those the writer puts
in.

Every invariant and action property that a run of the system checks has a theorem, and `WritesJSON` has
one without a run of its own (TLC agrees with it on the instance of `catalog`). Only model-checked: all
liveness (`StopReturns`, `CloseReported`, `RequestsAnswered`, `EventsDelivered`, `StopEnds`,
`PairingConverges`, `RunEnds`), which is outside the prover's reach.

## 5. Not modelled, and why

The contents of configurations, log lines, query strings beyond verb, app and key, pixels and samples
are data no property tells apart. Socket, TLS and OpenSSL calls, FFmpeg, SDL and Opus are I/O or other
people's code; what the engine makes of their outcomes is modelled. What a double can hold is decided by
`strtod` and `printf`. How long a request takes is not told apart, but for `getservercert`, which waits for
a person: `connect()` has no timeout of its own, and the receive timeout counts anew for each `recv`. Bytes
that are no UTF-8, which the JSON reader and writer pass on, are left out. `connect_local`, argument parsing and the
making of a key pair happen before anything concurrent starts. The Windows branch of the backend is one
`TerminateProcess` with a five-second wait; the model follows the POSIX branch. `find_host`,
`list_hosts`, `client.hosts` and `host.deviceInfo` only read.

## 6. Plan

Nothing is left of the order in which the modules were planned: session and lease, store, host, media, IPC
and channel, pairing and control, catalog; first checked, then proved. The hazards of `PROJECT.json`
without a property say in their notes what a model of them would need.
