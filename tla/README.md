# Tailsfer in TLA+

Models of the Tailsfer file transfer programs, checked with TLC, and theorems
about them, checked with TLAPS. The code is under `src/`; line numbers below
are those of `src/src/bin/tailsfer-node.rs` ("node") and
`src/src/bin/tailsfer-send.rs` ("send") unless another file is named.

## The system

| Component | State | Operations | Modelled |
| --- | --- | --- | --- |
| `tailsfer-node` (`src/src/bin/tailsfer-node.rs`) | one task per connection, the received files and their `.part` files, the terminal | load the identity, accept, read the offer, prompt, decide, receive, verify, fail | `Node`, all of it from `accept` on; `Identity` and `Codec` what is in front of it |
| `tailsfer-send` (`src/src/bin/tailsfer-send.rs`) | where `main` stands, the size offered, what was sent | connect, offer, read the decision, send, finish, read the verification, exit | `Sender`, all of it |
| QUIC connection (quinn) | two ends, one bidirectional stream | write, read, finish, close, stop, idle out | `Quic`, external |
| frames (`src/src/transport/protocol.rs`) | none | encode, decode, limits | `Codec`, byte by byte; `Frames`, what a frame says |
| offers (`src/src/transfer/offer.rs`) | none | codec, validators | `Codec`, byte by byte; `Frames`, what an offer says |
| decisions (`src/src/transfer/decision.rs`) | `TransferSession` | codecs of Accept, Reject, Complete, Verified; a session's state machine | `Frames`, `Codec`, `TransferSession` |
| rendezvous server (`src/crates/tailsfer-rendezvous/src/main.rs`) | the registry behind a lock | REGISTER, HEARTBEAT, LOOKUP, PING, cleanup | `Rendezvous`, what its client can ask for |
| rendezvous client (`src/src/rendezvous/client.rs`) | none | register, heartbeat, lookup: one request per connection | `Rendezvous`, all of it |
| identity (`src/src/identity/mod.rs`) | the key file | load or create, save | `Identity`, all of it |
| chunk pipeline (`src/src/transfer/{chunk,format,packer,pipeline}.rs`) | the packed file | split, compress, encrypt, write | `Pipeline`, `pipeline.rs` |
| MVP records (`src/src/mvp.rs`) | the trusted-device file, a session record | load, save, trust; setters | `TrustedDevices`, the file |
| encryption (`src/src/crypto/encryption.rs`) | none | encrypt, decrypt, parse a key | `Pipeline`, the first two |
| listener (`src/src/transport/quic.rs`) | none | `listen` | no: it has no caller |
| relay, API (`src/crates/tailsfer-{relay,api}`) | none | none | no: they print one line |
| `tailsfer-node.rs.bak2` | | | no: a backup copy that is not built |

As committed, the library needs the crate `serde` (`src/src/mvp.rs`) that
`src/Cargo.toml` does not list, so the workspace does not build without that
line. The models follow the source as written.

### How the parts interact

One run of `tailsfer-send` is one transfer over one connection. The sender
writes an offer (name, size, transfer ID), the node answers Accept or Reject,
the sender writes the raw bytes of the file and finishes its stream, the node
writes them to `.NAME.ID.tailsfer.part`, compares the size, renames the file to
`NAME`, answers Verified with the hash it computed, and closes. Everything that
goes wrong after an Accept is answered by a Reject, whose own errors are
ignored. The tasks of one node share its directory, its terminal (the prompt of
the manual policy) and the worker threads of its runtime. The rendezvous server
is not used by either program: its client is a part of the library. So are the
chunk pipeline, the list of trusted devices and `TransferSession`, none of which
has a caller yet.

Before it listens, the node loads its device identity from a file in the home
directory, or creates it.

A device tells the rendezvous server its endpoint, refreshes that by
heartbeats, and others look it up by device ID. Each call is a TCP connection
of its own with one line each way. The server's tasks and its cleanup task
share a map behind a read-write lock. HEARTBEAT and LOOKUP hold the lock until
their answer is written, REGISTER does not.

### What is hard

`PROJECT.json` lists the hazards with their lines. The ones the present models
are about:

- **Order of arrival.** `close` right behind a frame (node 318, 343) does not
  wait for the frame. The sender may learn of the close first.
- **The end of a stream.** A sender that gives up drops its stream, which quinn
  finishes: the node sees a regular end of file (send 282, node 199).
- **Files that change.** The size is read at send 155, the file at send 252.
- **Writes in flight.** `write_all` on a tokio file returns before the data is
  written (node 163); only `flush` (node 205) waits.
- **Two tasks, one name.** `try_exists` (node 139) and `rename` (node 242) are
  far apart. With equal transfer IDs, which are clock readings (send 97), even
  the temporary file is shared.
- **One terminal.** Prompts are printed before standard input is locked (node
  290-295), and `read_line` blocks a worker thread. When that is the one that
  last polled the sockets and timers of the runtime, no other worker is woken to
  take that over, and the whole node stands still until the user has answered.
- **Calls behind time.** A rendezvous call that failed at the client may still
  be carried out by the server, behind later ones; an answer is read later than
  it was computed; a record is removed later than it expires. The client has no
  timeout: on a connection that is lost without a word it waits for ever.
- **Bytes that must agree.** Each limit on names, MIME types and frames is
  tested at several places, lengths nest, and the raw file follows the offer on
  the same stream.
- **Files written in place.** The identity and the list of trusted devices are
  truncated and then written, without a lock.
- **Failures.** A lost connection, a killed sender, a node that crashes and
  restarts, disk errors, the two timers.

## Modules

| Module | What it is |
| --- | --- |
| `Frames` | Frames and stream items as records. A file is a sequence of blocks, its hash is the file itself. |
| `Quic` | The connection of each transfer: two queues, two ends, faults of the network. External: modelled from how both programs use it. |
| `Sender` | `tailsfer-send`: an action is what happens between two awaits, and a failing await has an action of its own. |
| `Node` | `tailsfer-node`: one task per transfer, the directory as names of inodes, the terminal, the worker threads. |
| `Transfer` | The composition, with fairness, all properties and the mapping to `Delivery`. |
| `Delivery` | The abstract specification: a transfer is saved or refused once, and what the sender reports agrees with that. |
| `TransferSession` | The states of a transfer as `decision.rs` defines them: a second abstract specification. |
| `MCTransfer` | Constants for TLC. |
| `TransferInductive` | The inductive invariants. |
| `TransferProofs`, `IntactProofs` | Types, replies and data: the theorems about the transfer. |
| `RefinementProofs` | `Transfer` implements `Delivery` and `TransferSession`. |
| `ContentionProofs` | What holds with one worker, and for transfers of different names. |
| `Rendezvous` | The rendezvous server and the calls of its client, with fairness and properties. |
| `Directory` | What the rendezvous promises: a directory on which every call takes effect at one moment. |
| `MCRendezvous` | Constants for TLC. |
| `RendezvousProofs` | Its inductive invariants and theorems. |
| `Codec` | The bytes of frames and payloads, and the end of a stream that reads them: `read_offer` and `read_frame`. |
| `MCCodec` | Streams of bytes for TLC. |
| `SequenceLemmas` | Induction over numbers, and what putting sequences together does. |
| `CodecProofs` | That bytes are read as they were written: the theorems about `Codec`. |
| `Pipeline` | `process_reader`, and `unpack_chunk` as its inverse. |
| `Identity` | The identity file and the nodes that load or create it. |
| `TrustedDevices` | The list of trusted devices, and programs that load, change and save it. |
| `Library` | The four of them side by side: a behaviour is one of a single part. |
| `MCLibrary` | Constants for TLC. |
| `LibraryProofs` | The inductive invariants and theorems about the two files, the pipeline and `Library`. |

### State and code

- `spc[t]` is the position in the sender's `main`; `offered` the size in the
  offer, `sent` what it has read, hashed and written; `local` the file on disk.
- `rpc[t]` is the position in `handle_connection` and `receive_file`; `offer`
  the parsed offer, `got` what the hasher has seen (its length is `total`),
  `fd` the open file, `inflight` the write a blocking thread still has to do.
- `part` and `out` are the directory: temporary and final names to inodes.
  `data` is the content of an inode. `saved` is a history variable: transfers
  whose rename succeeded.
- `stdin` is the task inside `read_line`; `screen` is the transfer whose prompt
  is the last on the terminal; `consent` is a history variable: what was on the
  screen when the user typed y.
- `up`, `down` are the two directions of the stream. Each end is open or closed
  on its own. What is written while either end is closed is lost; what is
  queued at a closed end may be read or not, as quinn may deliver stream data
  before it reports the close or not.
- The faults of the environment are counted by `faults`, up to `MaxFaults`.
  This bound is for TLC only; the theorems hold for every value of it.

In `Rendezvous`:

- `registry[d]` is the entry of the map, with the time since `last_seen` as its
  age. `call` and `request` are the client's side of a call, `task` and `answer`
  the server's. A task that has written its answer keeps it in `answer` for the
  client to read. The lock is not a variable: `Holding` says which tasks have it.
- A step of a task is what `handle_connection` does between two awaits: read
  the line, then, with the lock, change the map, then write the answer.
- `begun`, `lease`, `acked`, `turn` and `seen` are history variables: how old a
  call is, how old a device's last answered call, which of its registrations was
  acknowledged last, whether a registration was carried out and replaced, and
  what was true while a call waited. `Observe` updates `seen` in every step.

In the parts of the library:

- `Codec`: `stream` is what one end wrote, `arrived` how much of it gets there,
  `wire` what is not read yet; `header` is between the two `read_exact` of a
  frame; `taken` are the frames the reader decoded. A step is one `read_exact`
  and what is done with its bytes.
- `Pipeline`: `output` has one element for each `write_all`; `position` and
  `total` are what was read and what was counted.
- `Identity`: `identity` is the content of the file, `npc[n]` where start `n` of
  the node stands, `holds[n]` what it has in memory. `fs::write` is two steps,
  the open that truncates and the write. `served` and `together` are history:
  the identities that nodes came up with, and that two were creating at once.
- `TrustedDevices`: the same for the list; `decided` and `crossed` are history:
  what the saved changes add up to, and that two programs edited at once.

Definitions named `...Short`, `...Early`, `...Forgotten`, `...Retry`, and the
like ("As X, had ...") are deliberate mistakes: each stands before the
definition it spoils. Nothing uses them; replacing the definition by the
mistake must break the property that the mutant table in `PROJECT.json` names.

### Abstractions

A file of at most two blocks stands for a file of any size (the proofs have no
such bound). Frames arrive whole: a frame is written by one call and
`read_exact` waits for all of it. Output, MIME types and the printed
text are left out. Names are safe names already (`safe_filename` drops
directories). The five-minute timer may strike at any moment of the receive
loop, as a slow sender can make it. A task of the node may run whenever a
worker is not blocked (`WorkerFree`); that it does run is assumed only while
none is (`Served`).

In `Rendezvous` time passes in steps, `TTL` of them to the 60 seconds of the
code, and any number of other steps fit between two. The cleanup may run at any
time, so its period of ten seconds plays no part. `ServerRestarts` empties the
map and voids leases. A connection breaks with notice to both ends or silently
(`silent`): then the calls and tasks that read from it may fail, and need not. A
short line can be written to it all the same, so nothing waits for the lock
behind it. Left out: PING, commands and endpoints that do not parse,
several lines on one connection (`RendezvousClient` sends none of these), and
answers cut short.

## Properties

Safety:

- `SavedIntact` — a file under its final name is what its sender sent, as long
  as it offered. It needs the size check, the flush before the rename, and that
  tasks do not share temporary files (`DistinctPartPaths`).
- `CompleteMeansSaved` — TRANSFER COMPLETE at the sender means that the node
  renamed the file and hashed what was sent.
- `RejectedMeansUnsaved` — a rejection or a reported failure means that nothing
  was or will be saved.
- `ConsentBeforeSave` — manual policy: only what was prompted for is saved.
- `OutcomesAgree` — no error at the sender for a transfer that the node ended
  well.

Of steps:

- `NoOverwrite` — an existing name keeps its file.
- `KeepsItsPromise` — every step is a step of `Delivery` or a stutter.
- `FollowsSession` — the task of the node goes through the states of a
  `TransferSession` by its methods only, and handles data only in a state that
  `can_receive_chunks`.

Both are refinements: `KeepsItsPromise` is the specification of `Delivery` under
`Abstract == INSTANCE Delivery WITH outcome <- outcome, verdict <- verdict`,
`FollowsSession` that of `Session(t) == INSTANCE TransferSession WITH state <-
SessionState(t)`, whose mapping reads the state off `rpc[t]`. It is written
unfolded, as TLC wants the box outermost.

Liveness of the transfer:

- `SenderEnds` — a sender returns to its shell, whatever the user of the node
  does.
- `HandlerEnds` — a connection that reached the node is handled to its end, if
  the user answers.
- `StallsEnd` — the same while prompts compete and stop the others: every task
  ends unless a prompt stays open for good. While one is open nothing is
  promised to any other task, whatever the number of workers.
- `PartsAreTemporary` — a temporary file does not stay.

Of the rendezvous:

- `LeaseHolds` — a device whose call was answered OK can be looked up for a TTL
  after it asked, unless the server restarts.
- `LookupTrue` — what a lookup returns was so at some moment while it ran.
- `RegistrationHolds` — what the registry holds for a device was put there by
  the one turn of one call: the last one carried out and, of the acknowledged
  ones, the last acknowledged. A registration that was replaced has no second
  turn, though the write of its answer failed. It does not say that an
  acknowledged endpoint stays: a call that failed at the client may have its
  turn late, behind an acknowledged one, and put an older endpoint there. The
  code does nothing against that and no text of it denies it.
- `ServesAsDirectory` — every call takes effect at one moment after it was made
  and at most once, and returns what it did or found then. An error promises
  nothing. It is the specification of `Directory` under `Abstract == INSTANCE
  Directory WITH entry <- Entries, fresh <- FreshDevices, effect <- Effects`: a
  call has taken effect once its task has an answer, and the answer is its
  effect until it is read or lost.
- `ExpiredStaysExpired` — an expired device becomes visible again only by
  REGISTER. The code does not do that.
- `CallsEnd`, `StalePurged` — liveness: every call returns whose connection is
  not lost silently, and what expired is removed.

Of the parts of the library:

- `NothingMisread` — a reader stands exactly behind what it took, and what it
  took, written again, gives the bytes it read: the file behind an offer starts
  at its first byte, and no bytes have two readings.
- `WholeFramesAreTaken` — what the library can write, its readers take, up to
  every limit; a reader of such a stream fails only for bytes that did not come.
- `NameStaysItself` — `safe_filename` changes no name that the validators of an
  offer let through: the node saves under the name that was offered.
- `RecordsCarryTheFile` — however the reads cut the file and wherever the work
  stops, the whole records unpack to the part of the file that was counted, and
  with no other key.
- `DeviceIdKept` — every node that came up has the one identity in the file,
  unless two were first started at once, and none ever has a torn one. (Two that
  are may go on with an ID each; likewise below, one of two lists is lost.)
- `TrustAsDecided` — a list that can be read is what the saved changes add up
  to, unless two programs edited it at once.

## Runs

A run's cfg has its name. The first eight are of `MCTransfer`, the next three of
`MCRendezvous`, the last of `MCLibrary`.

| Run | Instance | Result |
| --- | --- | --- |
| `OneTransfer` | one sender, manual policy, one worker, a file of two blocks, two faults of any kind, file edited to shorter, longer or different content; the user answers | all hold, with both refinements |
| `TwoPrompts` | two transfers, manual policy, two workers, an existing file of one name, no faults; the user may not answer | `NoOverwrite`, `SenderEnds`, `StallsEnd` hold |
| `SameName` | two transfers of one name with different IDs, auto policy, one network cut or killed sender | `SavedIntact`, `PartsAreTemporary` hold |
| `SameId` | two transfers with the same name and ID, auto policy | `CompleteMeansSaved`, `HandlerEnds` hold |
| `OverwriteRace` | as `SameName`, no faults | violates `NoOverwrite` |
| `LostVerification` | one transfer, no faults | violates `OutcomesAgree` |
| `SharedTerminal` | two prompts, three workers | violates `ConsentBeforeSave` |
| `CrashLeavesPart` | one transfer, one crash | violates `PartsAreTemporary` |
| `Discovery` | one device with three calls, one program that looks it up, two endpoints, a TTL of two steps, one broken connection or restart | `TypeOK`, `LeaseHolds`, `RegistrationHolds`, `LookupTrue` hold, with the refinement `ServesAsDirectory` |
| `DiscoveryEnds` | two devices, one with an ID that is refused, a TTL of one step, one fault | `CallsEnd`, `StalePurged` hold |
| `Revival` | one device with two calls and a program with one, no faults | violates `ExpiredStaysExpired` |
| `Library` | three starts of the node; three programs that edit a list of two devices; every file of up to five blocks in chunks of up to three; streams of a library with names of up to three bytes, MIME types of two and frames of 48 | `DeviceIdKept`, `TrustAsDecided`, `RecordsCarryTheFile`, `NothingMisread`, `WholeFramesAreTaken`, `NameStaysItself` hold |

The five violations are disagreements between the code and its own text, each
quoted under "findings" in `PROJECT.json`:

1. Two accepted transfers of one name: the second rename replaces the first
   file, though the guide says that existing files are not overwritten.
2. The node prints that the verification was sent while the sender fails with
   "receiver connection ended before verification".
3. The line typed at one prompt accepts the file of another.
4. A crash leaves a part file that nothing removes; a retry has another ID and
   so another path.
5. A heartbeat revives a registration that has expired and that lookups have
   reported as absent, if it comes ahead of the cleanup; behind it, the same
   heartbeat is refused.

`SavedIntact` is not among the properties of `SameId`: two transfers with one
temporary file can publish a mixture, which is what `DistinctPartPaths` excludes
and no text of the repository denies.

**Why these bounds.** The properties relate at most two transfers: a task and
the one it races with in the directory, at the terminal or for a worker. Two
blocks are the least for a write in flight behind another, a file cut short
inside and one that grew. Two faults allow one to hit the handling of the
other. `TwoPrompts` has one empty file, the boundary of the receive loop.
The runs of the transfer have no symmetry set, as each of
them checks liveness. Three calls of a device are a failed one still on its way,
a later one that is acknowledged, and a heartbeat; a TTL of two steps has an age
between new and expired. The calls of one device are alike (`CallSymmetry`) in
the runs without liveness.

In `Library` the limit on frames, 48, is the size of a verification, the largest
frame it has, so that the limit itself occurs; names and MIME types occur at
their limits and one above. The streams are every offer with a name over two
letters, each reply, each of them cut anywhere; offers with every name over six
kinds of bytes, and with MIME types that no offer may have; and a selection of
them with one byte changed to several values, left out or put in at every place.
Three starts are one that dies, one that finds what it left, and one more. Five
blocks make two chunks in every division, with one that compresses and one that
does not. The four parts share no variable: `subject`, which says
which part moves, adds their states, where four specifications side by side would
multiply them. TLC also evaluates `StreamsAssumption`, what the proofs assume of
a stream, on every one of these.

**Deadlock** is checked everywhere but in `Library`, whose programs end: `Terminated` is the only state in which the
transfer may stop, with every process and every task ended. The rendezvous
server never stops.

## Fairness

Weak fairness on the steps of each sender, of the terminal lock, of the blocking
threads' writes, and of each sender noticing that its connection is gone:
operating system and quinn run what is runnable, and quinn's idle timeout is on
by default (neither program configures transport parameters, so there are no
keep-alives either). The tasks of the node, and its noticing of lost
connections, are weakly fair only while no prompt is open (`Served`): a blocked
worker may have been the one that polls the sockets and timers, and nobody takes
that over. The lock of the terminal is one of threads, which goes on. Weak
fairness is enough because nothing takes turns: a step stays enabled until it is
taken or its alternative is. Faults are not fair. That the user answers is
assumed (`SpecFairUser`) only in `OneTransfer`, where it is needed: `read_line`
has no timeout, and a task whose user never answers never ends. `TwoPrompts`
shows what holds without it: senders end by their own idle timers, and the
node's tasks once no prompt is open.

In `Rendezvous` the tasks, the reading client and the cleanup are weakly fair:
the runtime runs them, and its lock is handed on in the order of arrival. Of a
connection that is refused, reset or closed both ends hear. Of one that is lost
silently they need not, as neither sets a timeout or a keep-alive (client.rs
116-121, main.rs 69): such a call, and a task that has not read its line, are
not fair. That a program calls, that time passes and that anything breaks is not
assumed.

## Proofs

`tlapm` on `SequenceLemmas` and on each module named `...Proofs` checks
everything. Every invariant and every safety property that a passing run checks
is stated by a theorem. The assumptions are those of the modules on their
constants: any set of transfers, names, IDs and blocks, any contents and edits,
any number of workers and of faults; any files and keys; and for `Codec`

- `LimitsAssumption` — an offer with the longest name and MIME type fits in a
  frame, and lengths up to the limits fit in their fields of two and four bytes
  (protocol.rs 7-10 sets 255 and 127 bytes, and 1 MiB and 4096 for a frame);
- `StreamsAssumption` — a stream is any bytes at all from a peer of which nothing
  is known, or begins with frames that the library lets a program build, in the
  order in which its reader waits for them (`ProperStream`).

| Theorem | States |
| --- | --- |
| `TypeCorrect` | `Spec => []TypeOK` |
| `CompletionIsTrue` | `Spec => []CompleteMeansSaved` |
| `RejectionIsTrue` | `Spec => []RejectedMeansUnsaved` |
| `SavedIsIntact` | `DistinctPartPaths => (Spec => []SavedIntact)` |
| `ImplementsDelivery` | `Spec => KeepsItsPromise` |
| `ImplementsSession` | `Spec => FollowsSession` |
| `OneWorkerAsks` | `Workers = 1 => (Spec => []ConsentBeforeSave)` |
| `NamesAreKept` | `DistinctNames => (Spec => NoOverwrite)` |
| `TypeCorrect` (`RendezvousProofs`) | `Spec => []TypeOK` |
| `LeaseIsKept` | `Spec => []LeaseHolds` |
| `LookupIsTrue` | `Spec => LookupTrue` |
| `OrderIsKept` | `Spec => []RegistrationHolds` |
| `ImplementsDirectory` | `Spec => ServesAsDirectory` |
| `IdentityIsKept` | `IdentitySpec => []DeviceIdKept` |
| `ListIsAsDecided` | `TrustSpec => []TrustAsDecided` |
| `RecordsCarry` | `PipelineSpec => []RecordsCarryTheFile` |
| `NothingIsMisread` | `CodecSpec => []NothingMisread` |
| `WholeFramesTaken` | `CodecSpec => []WholeFramesAreTaken` |
| `NamesStay` | `CodecSpec => []NameStaysItself` |
| `LibraryTyped` | `Spec => []TypeOK`, of `Library` |
| `LibraryIsSafe` | `Spec =>` the six properties of the parts, of `Library` |

`TypeOK` is not inductive alone: a task past its offer uses its fields, so
`ITypeOK` adds `OfferKnown`.

`IReplies` is behind the next two. What the sender concludes depends on a frame
written earlier by a task that has moved on since, perhaps crashed. So the
invariant says of every frame in flight what it claims of the node's state, and
that this stays so: Accept, that the decision was taken and the task is past
it; Reject, that the task has ended without saving; Verified, that the file is
saved and its hash is `got`. The order matters: a sender that still waits for a
decision must find Accept first if the task was ever accepted.

`IData` and `IDirectory` are behind `SavedIsIntact`. The stream holds, in
order, the rest of what was sent (`InPlace`), and the end only behind all of
it, which a sender reaches only as it stops streaming, so `sent` never changes
behind an end that the node may have read. `got` is a beginning of `sent`. The
file is `got` without the write in flight. At the rename there is no write in
flight, the end was read and the size compared, so the file is `sent`. A
published file stays as it is: no task has a write in flight to it, no other
task opens its inode, and its sender streams no more. The last two need
`DistinctPartPaths`.

`RefinementProofs` first says, once for each program, where a step can take it
(`TaskMoves`, `SenderMoves`); nothing else of a step matters to the abstract
views. That a move is allowed then follows from `IReplies`: a sender reports
success only for a transfer that is saved, by what Verified says, and a task
that has saved is past the positions that a crash or an error would refuse.

`OneWorkerAsks` and `NamesAreKept` are what is left of two properties that the
code breaks in general (`SharedTerminal`, `OverwriteRace`). A prompt blocks its
worker, so with one worker whoever waits for the user has the last prompt on the
screen (`PromptOnScreen`), which is what the answer is recorded for. With
different names, what the test of the destination found is still so at the
rename (`IFree`), as only the task's own rename can change that name.

In `RendezvousProofs` each invariant carries its property from the moment of
the answer to the moment of the return. `ILease`: from the answer on, the
registration is no older than the call. `ILookup`: what the answer says has been
seen since the call began. `IOrder`: a call has its turn as it passes the lock,
which it does once, and ends that of the call before it; and while a call waits
whose turn has come, no acknowledged call of its device has the turn, so the one
that is acknowledged next is the last. That needs that a program makes one call
at a time and registers only itself, which `ICalls` says.
`ImplementsDirectory` needs no more than the types and `ICalls`: a task that is
behind the lock never goes back to it, so a call has one effect, and only `Tick`,
which makes entries stale, and `Cleanup`, which removes stale ones, change the
directory without a call. `Directory` has no time: that an entry stays fresh for
a TTL is what `LeaseIsKept` adds.

In `LibraryProofs` the invariants of the two files are behind a flag: until two
nodes create at once, at most one does, and while the file is absent or torn
nobody has an identity (`OneCreator`); until two programs edit at once, the
store of the one that does is what was decided, with its own change once it
made one (`OneEditor`), and the file is what was decided unless it is torn
(`FileAsDecided`). These hold for any number of nodes, programs and devices.

`CodecProofs` builds up from the numbers. A length in two or four bytes is read
as it was written, and a number that was read is written by the bytes it was
read from. So a payload is read as it was written (`PayloadRead`, with
`SixFields` for the offer, whose fields lie where the lengths in front of them
say) and what was read from a payload is written as that payload
(`PayloadWritten`, which needs that no byte is left over); the same of frames
(`FrameRead`, `FrameWritten`). The invariant of the reader, `CodecInv`, is

- of any bytes: `NothingMisread`, with a header that is read and not yet
  followed counted to what is written again, and not above the limit;
- of what the library wrote (`Follows`): the frames taken are the first of the
  frames written, and a reader that failed had not got the next one whole.

`NothingMisread` is what makes `Follows` inductive: the reader stands behind the
frames it took, and so at the first byte of the next one (`NextFrame`), which it
then reads as it was written, whole, or not at all. `NamesStay` follows from what
`CodecInv` says of the frames taken: a valid name has a single component.

`PipelineInv` says what stands between two records: of the record begun, its
parts are those of the chunk in hand, under the next nonce (`RecordBegun`), and
the chunk is what the file has between what was counted and what was read
(`ChunkAhead`). `RecordsCarryTheFile` follows a new record as putting sequences
together follows one more at the end (`FlattenAppend`).

That, and `EncodeAppend` of the frames taken, speak of any number of sequences
and rest on induction. The library's theorem of induction takes an operator, which
the provers cannot instantiate. `SequenceLemmas` states induction over a set in
place of the operator, from `WFMin` and `NatLessThanWellFounded`: every set of
numbers that is not empty has a least element.

The inductive invariants were checked by TLC on small instances before they were
proved, those of the transfer and the rendezvous with all faults. Of `PipelineInv`
its part `output \in Seq(Outputs)`, which only types what is written, is not one
that TLC can evaluate.

Only model-checked: the liveness properties, that is `SenderEnds`,
`HandlerEnds`, `StallsEnd`, `PartsAreTemporary`, `CallsEnd` and
`StalePurged`. What fairness gives is out of the prover's reach, as ENABLED is.
The one assumption of the codec that is not of the code's: UTF-8 is taken as
bytes below 128, in the model and so in the proofs.

## Not modelled

- `packer.rs`, `format.rs`, `chunk.rs`: conversions without a caller. What
  `pack_reader` writes has neither lengths nor flags (line 51), and the library
  has no reader of it, so there is nothing it could agree or disagree with.
- The other records of `mvp.rs`: constructors and setters without a guard and
  without a caller. No order of calls is wrong for them.
- `quic.rs`: `listen` has no caller.
- The rest of the rendezvous server: PING, requests that do not parse, and
  clients that send several lines and read none, which would hold the lock that
  the cleanup waits for (main.rs 105-112). `RendezvousClient` does none of this.
- TLS, certificates, terminal output, MIME detection, key parsing: no state that
  a property is about.
- A power loss: the crash of the models ends a process, not the machine. No file
  is synced before Verified is sent (node 334).

## Plan

1. Done: the transfer, its runs and its eight theorems, two of them refinements.
2. Done: the rendezvous, its runs and its five theorems, one of them a
   refinement.
3. Done: the session, the codec, the pipeline and the two files, with their
   theorems and those of `Library`.
4. Left: the identity as an abstract register of one value that is written once,
   for starts that are not at the same time.
