# ToledoVault in TLA+

ToledoVault is an end-to-end encrypted messenger: a Blazor WebAssembly client
that does all cryptography, and an ASP.NET server that stores ciphertexts and
relays them over SignalR. This directory models its protocols, the scripts of
its page and the parts of the published WebAssembly runtime that its code
rests on, checks the models with TLC and proves the central theorems with
TLAPS.

## The system

| Component | State it keeps | Operations | Interacts with |
|---|---|---|---|
| Double Ratchet (`ToledoVault.Crypto/Protocol`) | root key, send and receive chain, ratchet key pair, up to 100 skipped message keys | initialise as initiator or responder, `Encrypt`, `Decrypt` | called by the client's encryption service, which saves the state |
| X3DH (`X3dhInitiator`, `X3dhResponder`) | none | derive a root key from pre-keys | pre-key bundles of the server, private pre-keys of the client |
| Client session (`CryptoService`, `SessionService`, `LocalStorageService`) | per peer device a ratchet state and its HMAC in localStorage, a cache of it per tab, the X3DH result until the first message | establish, encrypt, decrypt, load, save | the Chat page's handlers, which interleave at every await |
| Message relay (`MessageRelayService`, `ChatHub`, `MessagesController`) | message rows with sequence number and delivered flag, one read pointer with unread count per user and conversation | send, store, push, fetch pending, acknowledge one or all, advance the read pointer, delete, clear, expire | the database, without row versions; SignalR groups |
| Offline queue (`storage.js`, `MessageInput`, `Chat.razor`) | the IndexedDB store `offlineQueue`, shared by all tabs | add while disconnected, flush after a reconnection, remove what was sent | SignalR connection of each tab, message relay |
| Chat page (`Chat.razor`) | message list, statuses, read position | load pending, handle pushes and receipts, send, read acknowledgements | relay, session service, IndexedDB |
| Tokens (`AuthController`, `AuthTokenHandler`, `AuthTokenRefreshService`, `storage.js`) | refresh tokens on the server; two browser stores, a mode, a cache per tab | login, automatic login, refresh by timer or after a 401, logout | every request |
| Voice recorder (`voice-recorder.js`, `VoiceRecorder.razor`) | one object of the page: stream, recorder, timers, audio contexts, blob | start, stop, cancel, preview, send, dispose | microphone and events of the browser |
| Media conversion (`media-helpers.js`) | promises, object URLs, timeouts, the loaded pdf.js | compress a picture, preview a picture, video or PDF | events of the browser; the page sends when the promise settles |
| Service worker (`service-worker.js`) | one cache of static assets per version | install, activate, fetch | all pages, deployments |
| WebAssembly runtime (`publish-output/.../dotnet.native.js`, `dotnet.runtime.js`) | run dependencies, hooks, keepalive counter; file system in memory; strings and calendar | start, end, timeouts; open, read, write, list, remove; UTF-8 conversions, `localtime`, `strftime` | the loader before it, the .NET code above it |
| Pre-keys | one-time keys, used or not; key-id counter on the client | claim, count, replenish | X3DH |
| Devices | active flag | register, revoke | relay (cleanup of pending messages) |
| Conversations and groups | participants and roles | create, add, remove, promote, demote | relay (who may send, whose counts rise) |
| Account deletion, rate limits, presence | deletion requests, counters per window, connections per user | request, run after a grace period; check; connect, disconnect | hub and middleware |

What is hard here: database contexts of concurrent calls that read a row, change
it in memory and write it back; handlers of the page that await between reading
and writing the session; a push and a fetch of the same message; messages lost,
repeated or reordered on the way to a ratchet that must stay in step; reloads
and second tabs over shared storage; deletions that change what `MAX` returns;
browser events that arrive after the call they belong to was cancelled; tokens
that are rotated by two callers at once; a start whose awaits end in any order.
`PROJECT.json` lists these hazards at their lines, with the property that
watches each.

## Modules

| Module | Models | How it corresponds to the code |
|---|---|---|
| `Ratchet` | `DoubleRatchet`, `MessageKeys`, `RatchetState` | operators on a session state record with the fields of `RatchetState`. Keys are symbolic: a key pair is its public half, a DH output the set of two public halves, a root key the sequence of the secrets hashed into it, a chain key its root and the number of steps. Two terms are equal exactly when the program would compute equal bytes, assuming no collisions. `SkipMessages` is the loop in closed form |
| `RatchetChannel` | two devices over `CryptoService` | `Send` is `EncryptBytesAsync`, `Receive` is `DecryptToBytesAsync` with the responder's session set up by the first `PreKeyMessage`. Every ciphertext stays in flight for ever, so delivery may be late, repeated, reordered or never. A failed decryption saves nothing |
| `ClientSession` | `CryptoService`, `SessionService`, `LocalStorageService` at both ends of that session | an action per stretch of code between two awaits. `ops[p][o]` is a call in progress, named by the await it is at; an awaited localStorage call takes effect at once and its caller resumes later. `disk` is localStorage, `cache` the dictionary of each tab, `otpk` the one-time pre-key; its cached copies are left out, as is the HMAC key, which exists from the start. `Reload` may end a tab at any await |
| `MessageRelay` | `MessageRelayService` and the hub and REST calls on it, for one conversation | an action per stretch of a call between two database round trips. `calls[w]` is the call that worker `w` executes, with what it has read so far. `held[d]` is what device `d` has received, by push or fetch. The four queries of `AdvanceReadPointer` are one step, and so are the reads of the participants' rows |
| `OfflineQueue` | the store `offlineQueue` and its users | `call[m]` is `MessageInput.SendMessage` of message `m`, `flush[n]` the flush after the `n`-th reconnection; an IndexedDB transaction is atomic, every await is a step of its own. Connections drop, reconnect or give up; `RegisterDevice` may fail; a device may be passed over by the encryption, and any sending refused. `sent[m]` holds what went out to whom: a flush sends the text of an entry, never its attachment |
| `VoiceRecorder` | `voice-recorder.js` under its component | recording `n` is the `n`-th use; `voice` holds the fields of `window.voiceRecorder`, which all uses share; `getUserMedia`, `onstop`, chunks and timers are events that come when they come. A use may begin while the one before it waits for its microphone, records or is being decoded; `start` may fail after the stream was granted. The history `astray` marks the uses that overlapped, and one granted after its component had gone and then refused by its `MediaRecorder` |
| `ServiceWorker` | `service-worker.js` | a version is a number, an asset's copy the version it was fetched in; `caches` keeps the order of creation, because `caches.match` asks in that order; the put that a fetch does not await is a step of its own |
| `AuthTokens` | tokens on both sides | at the start the user, signed in earlier to stay so, has the chat page in every tab. Refresh token `n` is the `n`-th issued; `job[t][j]` is where a refresh or login of tab `t` waits; answers may be lost and pages left while a call is out. A login stores its tokens, verifies its device (`verifying`), and where the server does not know that device clears them and stores them again (`StaleDevice`). The history `taken` holds tokens that another tab had got hold of by then, `upset` that an answer was lost or a login failed |
| `MediaConversion` | the conversions of `media-helpers.js` | an action is one event with its handler; pictures are their width and height |
| `PlainFile`, `MemoryFile` | a file of MEMFS, promised and real | the abstract file is a sequence of bytes with a position per descriptor; the real one an array with a capacity, `usedBytes`, and the loops of the vectored calls |
| `RuntimeTree`, `RuntimeFiles` | the names of MEMFS, promised and real | the abstract tree is a set of paths; the real one nodes chained in the buckets of `nameTable`, descriptors, and directory listings in several calls |
| `RuntimeText` | UTF-16 to UTF-8 and back | a string is the sequence of its code units; the counting loop, the writing loop and the reading loop are separate definitions, as in the code, and each turn of a loop is one (`countUnit`, `writeUnit`, `readByte`) |
| `RuntimeCalendar` | `localtime`, `%j %U %W %V %G` | a date is what JavaScript's `Date` gives for a day number; the loop of `addDays` (a turn is `leaveMonth`) and the rules of the conversions are translated |
| `RuntimeStartup` | run dependencies, hooks, timeouts | `m` holds the module's counters and where each asynchronous hook waits |
| `MCRatchetChannel`, `MCClientSession`, `MCMessageRelay`, `MCOfflineQueue`, `MCVoiceRecorder` | | instances for TLC |
| `Page` | the scripts of the page | recorder, service worker, tokens and conversions, which share no state: `script` picks one of them, the others stay in their initial states. It extends `AuthTokens` and has instances of the others, with all their constants, so that theorems and run speak of the same definitions |
| `Runtime` | the WebAssembly runtime | its parts put together as `Page` does the scripts: it extends `RuntimeStartup` and has instances of the others; `part` picks one |
| `MCPage`, `MCRuntime` | | instances for TLC |
| `Ratchet_proofs`, `RatchetChannel_proofs`, `ClientSession_proofs`, `MessageRelay_proofs`, `OfflineQueue_proofs`, `Page_proofs`, `RuntimeNames_proofs`, `Runtime_proofs` | | the proofs, see below |

Three pairs are tied by refinement. `ClientSession` implements `RatchetChannel`
under the mapping `StoredSessions`: while a call is between its first write and
its return, the abstract session is the one the call started from (`before`, a
history field), so that the atomic step happens when the call returns.
`MemoryFile` implements `PlainFile`: the bytes of the file are the first
`usedBytes` of its array. `RuntimeFiles` implements `RuntimeTree`: a path is in
the tree when looking its names up one after the other through the hash chains
finds a node.

Calls in one tab overlap in `ClientSession` only as the page lets them:
localStorage promises resolve before any other event is handled, so a second
call starts in between only if SignalR read both messages into one buffer and
dispatches the second handler while the first is at its first await
(`MayStart`).

Definitions commented "A mutant" are variants of the definition that follows
them, with one plausible mistake. No specification uses them. Putting one in
the place of the original must make TLC report the property it is paired with
in `PROJECT.json`.

## Runs that pass

| Run | Bounds | Shows |
|---|---|---|
| `ratchet` | 5 messages each way, room for 3 skipped keys | `UniqueMessageKeys`, `NoReplay`, `ForwardSecrecy`, `NothingLost`, `InStep`, `TypeOK` under any order, loss and repetition. Five messages give up to five ratchet steps and gaps on two chains at once; a gap of four overflows the dictionary, so both the histories with an overflow (`InStep`) and those without (`NothingLost`) occur |
| `session_one_tab` | 3 messages each way, room for 1 skipped key, one call at a time, 2 interruptions at any await | `ImplementsChannel`: until the first interruption the services are the atomic calls of `RatchetChannel`, from a warm and a cold cache. `UniqueChainKeys`: after it keys agreed with the peer stay unique although sessions and messages may be lost. Two interruptions are what it takes to lose a session whose one-time pre-key still exists and to build it a second time. Deadlock is not checked: when both ends have lost the session nothing more happens in it |
| `relay` | 2 users, 2 messages, two calls interleaving, one deletion | `SequenceOrder`, `NeverBornRead`, `SendersToldRead`, `SendersToldDelivered`, `OnlyStaleSavesRegress`, `TypeOK`: what survives concurrency. No message is stored below a read pointer and none is passed without a report, up to the first deletion. Senders are told of every delivery except of messages stored between the query of an acknowledge-all and its UPDATE (history `overtaken`), and a read pointer goes back only where a call saves a row that has changed since it read it, for which the code has no row version |
| `offline_flush` | 2 tabs, 2 messages (one with media), 1 device, capacity 1, 2 connection losses, one page left, participants loaded or not | `QueueBounded`, `NothingDiscarded`, `ListedEventuallySent`, `TypeOK`. Two losses give two flushes at once, of one tab or of two; capacity 1 is exceeded by the second tab. What the properties promise is the text of a message, for the devices it could be encrypted for; several devices, between which a flush may break off, are covered by the theorem `NoMessageDiscarded` |
| `page_scripts` | 2 recordings; 3 deployments of 3 assets; a stored refresh token and two more, 2 tabs, 2 API calls; 2 conversions of pictures with sides up to 3 | `SendsOwnAudio`, `AllReleased`, `MicrophoneReleased` of the recorder, of uses that neither overlapped another nor outlived their component; `StaticFresh` of the service worker; `StoredStaysLive`, `OnePlace`, `RequestsEnd` of the tokens; `UrlsReleased`, `FitsSize`, `ConversionsSettle` of the conversions; `PageTypeOK` of all four. Two recordings are what it takes to overlap, to come after one that was cancelled, and to be hidden by the failure of another. Two more tokens let a login be verified while another tab refreshes with what it has just stored, and both go on. Three deployments let the put of a first worker make a cache that a third one meets. Deadlock is not checked: the scripts come to rest |
| `runtime` | a file of 3 bytes with two descriptors; 4 nodes whose names share a bucket; texts of 3 code points, two surrogate cases and all UTF-8 lengths among them; every day of 20 years; 3 timeouts | `ImplementsPlainFile`, `ImplementsRuntimeTree`, `ListingComplete`, `TextIntact`, `CalendarExact`, `RunsAfterHooks`, `EndsOnlyByExit`, `EveryStartSettles` (`StartSettles` in the behaviours of the start). The years are leap years that begin on each weekday, the years around them and the centuries, so every rule of `%V` applies somewhere. Deadlock is not checked: programs end |

The relay runs let one device send and, in `relay`, the other user alone fetch and
read (`Sender`, `Reader`), which is enough for every pair of calls that touch a
common row: a second sender or reader would only touch another pointer row. The
theorems assume neither.

## Runs that find a disagreement

Each shows a statement of the repository's documents, comments or tests that the
code does not keep; `findings` in `PROJECT.json` quotes it.

| Run | What happens |
|---|---|
| `session_tabs` | two tabs of one device load the same state and seal different messages under one key |
| `session_pair` | two messages arrive together; the second handler meets the new state with the old HMAC and deletes the session |
| `relay_lost` | a message stored between the fetch and acknowledge-all, or a failed fetch, ends as delivered without having been received |
| `offline_stuck` | a media message whose connection drops during its preview is queued under a conversation id that no flush asks for |
| `offline_attachment` | the flush rebuilds a queued media message, sends its text alone and removes the entry: the attachment went nowhere |
| `voice_microphone` | a recording cancelled while the permission is asked for, then started anew: the first stream granted is never stopped (`EveryRecordingStops`) |

More are one edit of a configuration or a statement away:

- in `relay` a read pointer goes back when two calls advance it and the lower is
  saved last (`MessageRelayServiceTests.cs:418`, "Pointer should not regress", is
  about one call): the property without `Stale` fails;
- without `deletions = 0` in their statements `NeverBornRead` and
  `SendersToldRead` fail in `relay`: the newest message is read and then deleted;
  the next one gets its number again, below the read pointer;
- `offline_attachment` with no media and `MayFailToLoad = TRUE` violates
  `RemovedAfterSend` as well: the page could not load its participants
  (`Chat.razor:1296`), so sending returns without an exception, and the flush
  removes the entries it did not send;
- without `taken` in their statements `OnePlace` and `StoredStaysLive` fail: a
  login clears and stores again tokens that another tab has moved or exchanged
  (`Login.razor:438-441`), and puts them into localStorage even if the user chose
  otherwise, since `clearAuthData` forgets the mode;
- without `astray` `SendsOwnAudio` fails: two recorders push into one `_chunks`;
- in `MessageRelay` a device revoked between the check in `SendMessage` and the
  insert leaves a message pending for ever;
- `session_pair` with one call and `MaxReloads = 1` violates `SessionKept`: a
  page ended between the writes of the state and of its HMAC loses the session
  at the next load, against `LocalStorageService.cs:13`, "ensuring data survives
  page navigations and refreshes";
- `session_one_tab` violates `UniqueMessageKeys`: a page ended after the
  responder's session is saved and before the first message is opened lets a
  reply be sealed under the empty chain key (`DoubleRatchet.cs:79`: "Bob receives
  first"), and a session built twice does so twice. `UniqueChainKeys` therefore
  leaves these keys out.

The race of `relay_lost` also marks messages whose sender is not told: these are
the `overtaken` ones of `SendersToldDelivered`.

The modelling met these too, which no run reports:

- `PreKeyCountLow` is handled by the client (`Chat.razor`) but sent by no code of
  the server, so the replenishment of pre-keys that FR-015
  (`specs/001-secure-messaging/spec.md:184`) asks for never runs;
- an instantiation of the WebAssembly module that fails asynchronously does not
  reject the promise `ready`, although the comments at `dotnet.native.js:803`
  and `:808` say it does; the start ends through `mono_exit` instead;
- `mono_wasm_schedule_timer` clears a timeout without the `runtimeKeepalivePop`
  that its callback would have done, so the counter only errs upwards
  (`EndsOnlyByExit`);
- an `open` that finds no free descriptor leaves the file it created; a directory
  stream that is rewound shows its old listing;
- `strftime`'s `%z` (`dotnet.native.js:4718-4726`) gives `-0480` for −4:30, where
  the comment above it says `-0430`: half an hour is counted as 50 and as 30.

## Fairness

The ratchet, the session and the relay claim no liveness: the relay has no retry
that would make a push or an acknowledgement happen without a user opening the
page. The other modules with a liveness property assume weak fairness of what
the browser, the network stack or the runtime is bound to do, and of nothing a
user does:

| Module | Fair | Why |
|---|---|---|
| `OfflineQueue` | every step of a call or flush that has begun; registering or failing to, and reconnecting or giving up | an IndexedDB request fires success or error; a hub call returns or throws when the connection is lost; SignalR's automatic reconnect retries or closes. Losing the connection, writing, opening and leaving a page are not fair |
| `VoiceRecorder` | the timer, `onstop`, the decoding, the sending, and the removal of a component that is leaving | timers and events of the browser; Blazor disposes what it no longer renders. The answer to the permission prompt and every button are not fair |
| `AuthTokens` | each step of an API call | an HTTP call is answered or times out; the semaphore is given to one of its waiters |
| `MediaConversion` | the events of images, canvases, scripts and timeouts | an image loads or fails, a timeout runs out. The events of a video are not fair: the timeout of the code exists because they may not come |
| `RuntimeStartup` | every await of the start | what is awaited comes or fails; timeouts and the main function are not fair |

In `Page` and `Runtime` a component that was not picked stays in a state
where none of its fair actions is enabled, or its fairness is assumed only when
it is picked.

## Proofs

TLC checks the instances above; the theorems hold for every value of the
constants: any number of messages, devices, tabs, calls, flushes, tokens,
recordings, conversions, deployments and timeouts, any dictionary size,
capacity or side of a picture, files of any bytes under any names, and every
day from 1900 on. Each is proved from an inductive
invariant, because no property is inductive as it stands.

| Theorem | States | Assumes |
|---|---|---|
| `RatchetChannel_proofs`: `TypeCorrect`, `MessageKeysUnique`, `NoReplayHolds`, `ForwardSecrecyHolds` | `TypeOK`, `UniqueMessageKeys`, `NoReplay`, `ForwardSecrecy` | |
| `StaysInStep`, `LosesNothing` | `InStep`, `NothingLost` | |
| `ClientSession_proofs`: `TypeCorrect` | `TypeOK` | |
| `ChainKeysUnique` | `UniqueChainKeys` | `Op = {o}` |
| `Refinement` | `ImplementsChannel` | `Op = {o}`, `TabOf[o] = FirstTab` |
| `SessionsAsProved` | `UniqueMessageKeys`, `NoReplay`, `ForwardSecrecy`, `InStep`, `NothingLost` of the stored sessions, until a reload | `Op = {o}`, `TabOf[o] = FirstTab` |
| `MessageRelay_proofs`: `TypeCorrect`, `Ordered` | `TypeOK`, `SequenceOrder` | |
| `StoredAheadOfPointers`, `SendersKnowWhatIsRead` | `NeverBornRead`, `SendersToldRead` | |
| `SendersKnowWhatIsDelivered`, `PointersAdvance` | `SendersToldDelivered`, `OnlyStaleSavesRegress` | |
| `OfflineQueue_proofs`: `TypeCorrect`, `StoreBounded` | `TypeOK`, `QueueBounded` | |
| `NoMessageDiscarded` | `NothingDiscarded` | |
| `Page_proofs`: `OwnAudioSent`, `NothingLeftRunning` | `SendsOwnAudio`, `AllReleased` | |
| `UrlsGivenBack`, `PicturesFit`, `FreshOnceActive` | `UrlsReleased`, `FitsSize`, `StaticFresh` | |
| `TokensNeverCopied`, `StoredTokensAccepted` | `OnePlace`, `StoredStaysLive` | |
| `PageTypesCorrect` | `PageTypeOK` | |
| `RuntimeNames_proofs`: `TextsIntact` | `TextIntact` | |
| `ListingIsComplete` | `ListingComplete` | |
| `NamesAreATree` | `ImplementsRuntimeTree` | |
| `Runtime_proofs`: `FilesArePlain` | `ImplementsPlainFile` | |
| `DaysAreExact` | `CalendarExact` | |
| `StartTypeCorrect`, `RunsOnceAfterHooks`, `NeverEndsByItself` | `TypeOK` of the start, `RunsAfterHooks`, `EndsOnlyByExit` | |
| `RuntimeTypeCorrect` | `RuntimeTypeOK` | |

The assumptions in the last column are theorem hypotheses, and each is needed:

- `Op = {o}` says that a device does one call at a time, `TabOf[o] = FirstTab`
  that it does so in the tab in which the session was established, where the
  result of X3DH is kept. Two tabs seal under one key (`session_tabs`) and two
  calls of one tab delete the session (`session_pair`). Nothing in the code
  keeps calls apart except that SignalR seldom has two messages in one buffer;
  the theorems say what the services do for each call by itself. A reload ends
  the refinement, since an abstract call cannot be half done, but not
  `ChainKeysUnique`.

The relay, the queue and the page's scripts are proved for whatever overlaps.
Where the code breaks under an overlap, the property names what is broken, by a
history variable that only records it: `overtaken` messages, `Stale` saves,
devices `missed`, tokens `taken` or `upset`, recordings `astray`. `NeverBornRead` and
`SendersToldRead` speak of the time up to the first deletion, because a deleted
newest message gives its number to the next one.

The modules' own assumptions are `RatchetAssumption` (the dictionary size is a
natural number, the empty key is no key), `ChannelAssumption` and
`SessionAssumption` (two different devices, two different X3DH results, a tab for
every call), the assumptions on the constants of the relay and the queue,
`NamesApart` (the names of the page's own job and of a free semaphore are not
those of an API call), `TokensAssumption` and `PageAssumption` (the bounds are
numbers, the user signed in earlier and so has a token, the offline page is pre-cached, what is pre-cached is asked for), `TimersAssumption` and `RuntimeAssumption` (the inputs
of the file system, the strings and the calendar are what their types say, a
prefix of a path is a path, years begin with 1900). Ideal cryptography is built into
the terms of the ratchet.

### Why they hold

*Keys.* Each ratchet step appends two DH outputs to the root key, one for
receiving and one for sending, so the roots the initiator sends under always
have even length and the responder's odd (`Own`); every key sealed is behind the
sender's chain (`Past`), and every key opened is behind the receive chain and not
in the dictionary (`Spent`). `Ratchet_proofs` shows what each operator of the
ratchet does to these relations, the main result being `DecryptSpends`: the key
a call uses was not spent before and is spent after, and nothing becomes
unspent. `IInv` is their conjunction.

*Staying in step.* `InStep` must hold after any history of lost, repeated and
refused messages, so the invariant speaks of a message's header and not of the
order of events. `StepInv` adds to `IInv` that headers are true (`HeadersTrue`:
all earlier messages of a chain were sent, `pn` counts the chain before, and
there is one root for every length), that a state counts what it sent
(`Counting`), and that a receive chain stands behind some message of the peer
and holds skipped keys of its messages only (`Following`). From these
`SkipMessages` reaches exactly the key the message was sealed under, unless the
dictionary is full. `NothingLost` needs more: `SyncInv` adds that of two sessions
one is exactly one ratchet step ahead (`OneAhead`), so that no message can be two
steps away, and that everything the receive chain passed unopened is held
(`Passed`). That there is always room is a count: the keys held and the keys to
skip are keys of different messages.

*The session services.* `ChainKeysUnique` must survive sessions that are lost in
the middle of a call, so its invariant does not ask where a session is kept but
which sessions a device may still go on with: those on disk, in a cache and in
the call (`Held`). Every step before a call returns uses none of them, seals with one that then
replaces all others, or opens with one (`Outcome`). `KeysInv` says that a root
belongs to the ratchet key in use when it was derived (`OnRoot`), so that sessions
built before and after a loss can only share a chain if they share a ratchet key;
and that what was sealed under the ratchet key of a held session is behind its
send chain (`SessionInv`). For the refinement `AloneInv` says that the cache holds
what localStorage does at every await and the HMAC matches unless it is about
to be written (`InTab`), and what the atomic call will have done when the call in
progress returns (`Progress`). `SessionsAsProved` then takes an instance of
`RatchetChannel_proofs` under the refinement mapping and carries its invariant
along the steps that the mapping yields.

*The relay.* `Typed` is `TypeOK` with two facts about calls in progress: the
table is finite, and a pointer row that a call has read is still there when the
call writes it back. `SequenceOrder` follows from the maximum being taken in the
statement that inserts. For the read pointers `Reading` says what the call in
progress holds: a pointer it has read, or is about to save, is not above the
newest message, and what it will move over is in the list it will report. So two
calls that interleave may lose an update but not a report. For deliveries
`AcknowledgesAll` says the same of acknowledge-all: what is pending for its device
is in the list it will report, or was stored since (`PendingOrOvertaken`). `Ahead`
says that the pointer a call is about to save is ahead of the row it has read.

*The queue.* `Careful` says that an id names one entry for ever (`Keyed`) and that
a flush at an entry has, for every device it has crossed off, either stored the
text on the server or passed the device over (`Paid`, `Settled`). Then whatever
flush removes an entry, under whatever list it has read, removes one that is
settled. `Bounded` counts the tabs that have seen room and not yet added; a tab
takes one message at a time (`OneAtATime`), which is why one tab exceeds the
capacity by nothing.

*The tokens.* `Inv` follows each token from its issue to its place. A token that
a job brings for the first time is in no store and known to nobody else
(`BroughtNew`); one that a login stored and is about to store again either still is
with nobody else or is `taken`. A stored token is in one place (`KeptApart`); and
a stored token is accepted, with every tab that knows it writing to that very
place, unless somebody is about to replace it there (`KeptLive`, `Replacing`). This
is what makes overlapping refreshes harmless: the loser of a rotation fails, and
the winner's token lands where the revoked one lies. That no token exceeds the
bound is a count (`TokensBounded`): every job that may still have a token issued
and every call of a page that is gone has one token of the bound. A page that is
loaded turns its calls from the one into the other, and two of them with one
token become a single orphan (`LoadBounded`).

*The recorder.* `Orderly` says which states of a use go together, `InTurn` in what
order uses begin, whatever of earlier ones is still to come. `Alone` is the point:
while something is to come of a use that is not astray, it is the only one of which
anything is, so the shared fields hold what it needs (`Held`) and every event that
arrives is its own. Each helper of the object only winds recorders down (`Winds`)
and forgets no handle that it does not release, which carries over to every call
made of helpers.

*The conversions.* `UrlHeld` says who will give an object URL back: the timeout, or
an image that is still loading. `Drawing` says that whatever is encoded is the
scaled source; that scaling never exceeds the longest side is arithmetic
(`ScaleBound`).

*The service worker.* `caches.match` asks the caches in their order, so the
invariant speaks of the first one: it is that of the active worker, and full
(`CacheReady`), because activating deletes all others and late responses only add
behind it. `NoneOlder` says that what a version stores is no older than
itself, and `OneWorker` that no other worker can activate in between.

*The start of the runtime.* `Staged` says which waits the counter of run
dependencies stands for, `KeptAlive` what the keepalive counter is at least: a
share for mono, one for the main function, one for every pending timeout. The
clearing of a timeout without its share only raises it.

*Loops and recursion.* The operators of the runtime are loops over bytes, names,
nodes and days. `RuntimeNames_proofs` begins with what it takes to reason about
them without an induction theorem that the provers cannot instantiate:
`Induction` takes the least counterexample, `StepByStep` and `Recursive` make the
function that a loop defines, `EveryStep` and `UpTo` carry an invariant along it.
A recursive function of the model is a `CHOOSE`; it is unfolded once it is shown
that such a function exists.

*The strings.* The invariant (`TextInv`) is plain: a call leaves the byte behind the
buffer alone, and one that gives a length has stored the bytes and a null
(`Stores`). The work is in what the bytes are. The bytes of a code point are those
that UTF-8 prescribes, and the code point is in them (`IsBytes`, from arithmetic of
quotients and remainders by 64); the units of a surrogate pair are read as one
code point (`WholeAt`). So the counting and the writing loop are at the same code
point after each turn, and come to the same length (`LengthOfWhole`); the writing
loop stops in front of the first code point that has no room
(`EncodedOfWhole`, `Fills`), and only one beginning of a text fills a buffer
(`FillsOnce`); the reading loop finds the bytes of one code point in each turn
and gives its units (`ReadByteIs`, `TextReadBack`). With a lone surrogate, which the loops
take together with whatever is behind it, only the bounds and the null are promised.
`UTF8ArrayToString` hands more than 16 bytes to the `TextDecoder` of the browser; the
theorem speaks of its own loop at every length.

*The names.* `Sound` says of nodes and chains that following parents ends at the
root (`Climbing`), that each bucket of `nameTable` is a chain of nodes that hash
to it (`Chained`), that no directory has two nodes of one name (`Single`), that what
is filed is under a directory that is (`Rooted`), and that the contents of a
directory are the names filed under it (`Listed`). So a lookup finds a node exactly
if it is filed (`ChildFiled`, `FiledChild`), the paths that lookups reach form a tree
(`IsTreeOf`), and the calls grow it (`GrownTree`) or take one path from it: the
refinement. A descriptor's listing is kept while directories
change; `Listing` says what it has shown and what it still owes, which at its end
is `ListingComplete`.

*The file.* `Clean` says that the used bytes lie in the array, that the bytes behind
them are zeros, and that an empty file has no array. The zeros are the point: a
write behind the end extends the file without touching what lies between, and the
promise (`Overlaid`) says there are zeros. `WrittenIs` shows for every branch of
`MEMFS.stream_ops.write` (replacing the array, writing into it, expanding it) that
the bytes become what the abstract file promises, `WritevSteps` carries this over
the buffers of a vectored call.

*The calendar.* `CalendarInv` says that `tm` holds a day of the calendar. `OnTheWay`
says where `addDays` stands after each turn of its loop, and so that it ends at the
day it should; the rules of `%V` and `%G`, which test the first and the last week of
a year by cases, are shown to give the year of the week's Thursday
(`ThursdayOf`); and the weeks counted by `%U` and `%W` are the Sundays and Mondays
so far (`EveryWeek`).

### What stays with TLC

Liveness (`ListedEventuallySent`, `MicrophoneReleased`, `RequestsEnd`,
`ConversionsSettle`, `StartSettles`): fairness and `ENABLED` are beyond the
prover. Every other invariant, action property and refinement that a passing run
checks has a theorem.

## Not modelled

- The initiator's side of session establishment, and both sides initiating at
  once; the loops over the devices of a conversation.
- The message list of the Chat page. Its awaited loads replace and merge the
  list by rules that hang on rendering and scrolling. Reading it shows hazards
  no property covers: the duplicate check runs before the awaited decryption
  (`Chat.razor:916`), a late receipt overwrites a later status (`Chat.razor:969`),
  and a deleted message has a status that the merge ignores, so that it returns
  with a reload, against `specs/005-fix-chat-functions/spec.md:55`.
- That unread counts are right. The model keeps them (`unread`), but calls that
  overlap lose increments, since both write back what they counted on from one
  row, and nothing general is true of the count then.
- Groups, registration, account deletion, administration: short handlers of
  checks and single-row writes without a lock between them, of which nothing
  holds but what one request sees of itself.
- Rate limits and presence: counters in memory that decide only when a request is
  admitted, or what is shown.
- In the file system of the runtime: devices, symbolic links, mounts and
  renaming, which nothing in the program calls. Texts longer than 16 bytes, which
  go to the browser's `TextDecoder`. The loader, the workers and the bindings
  between JavaScript and .NET.
- Key backup, fingerprints, themes, localisation and the rest of the interface:
  straight-line code or browser I/O.

Hazards that were read and left without a property, in this order of weight: the
X3DH result that exists only in memory until the first message
(`CryptoService.cs:26`), the one-time pre-key deleted before the first message is
known to open (`SessionService.cs:104`), a message stored in one statement and
counted in another (`ChatHub.cs:109`).

What a modelled part leaves out is named in the `note` of its component in
`PROJECT.json`.
