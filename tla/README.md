# A TLA+ model of the HomeKit accessory core

This directory holds TLA+ modules for the accessory side of the HomeKit
Accessory Protocol implemented in `src/`. It has TLC configurations that
model-check them on small instances, and TLAPS proofs of the main safety
properties for every value of the constants.

## The system

The accessory is an HTTP server. Each TCP connection from a controller (an
iPhone, a hub) is served by its own goroutine. All connections share four
pieces of state:

| state | code | role |
|---|---|---|
| `sessions` | `session.go:17` | registry, remote address → `*PairSetupSession`, `*PairVerifySession` or `*Session`, under `mux` |
| `conns` | `session.go:18` | registry, remote address → `*Conn` |
| the pairing store | `part_004:206-258` | controller name → `Pairing{Name, PublicKey, Permission}`, one file per name |
| per-session counters | `session.go:118-125` | encrypt/decrypt nonces of an established Session |

The handlers that change this state:

* **pair-setup** (`part_002:39-260`, `pair-setup-session.go`). `pairSetup`
  refuses a request if the accessory is already paired or if any *other*
  address holds a session (the "busy loop"). M1 creates a
  `PairSetupSession` (SRP verifier) and registers it. M3 computes S from
  the client's A, checks the client proof M1 and derives K. M5 decrypts with
  K, checks the controller's Ed25519 signature over HKDF(S), answers M6 and
  then saves the controller as admin.
* **pair-verify** (not under `src/`, only `NewSession` of `session.go` is).
  V1 registers a `PairVerifySession`. V3 looks the controller up in the
  store, checks its signature and replaces the entry with a `Session`
  holding a *copy* of the `Pairing`.
* **pairings** (`pairings.go`). This needs a paired accessory and a
  `Session`. Add and Delete need the Session's copy of the pairing to be
  admin. Add reads the store, compares keys and saves. Delete deletes,
  answers, and closes connections: all of them when no admin is left, else
  those whose Session belongs to the removed name. List only reads.
* **connection lifecycle**. `SetConn` runs on accept. `ConnStateEvent`
  evicts both registry entries when a connection reports `Closed`. net/http
  reports `StateClosed` from the connection's serving goroutine, after the
  handler of the request in flight has returned, so the model's
  `ConnStateEvent(a)` waits for `pc[a] = Idle` (and, in `HAPAccessory`, for
  `cpc[a] = CIdle`): a closed connection's handler still runs to its end,
  and only then are its entries evicted.
* **transport encryption** (`session.go:148-258`). Once a Session exists,
  `Encrypt` cuts a message into chunks of at most 1024 bytes
  (`packetsWithSizeFromBytes`) and seals each under nonce `encryptCount`,
  then increments it. `Decrypt` reads frames, opens each under
  `decryptCount`, and returns after a chunk shorter than 1024 bytes or at EOF.
* **characteristics** (`part_001:52-227`). `GetCharacteristics` and
  `PutCharacteristics` are gated only by `srv.isPaired()`. A PUT element may
  read the value (`r`), write it (the hook's status is dropped) and set
  `c.Events[req.RemoteAddr]`, a plain map shared by every connection.

The handlers interact only through the registries and the store. None of
them holds a lock across a check and the action that depends on it. So the
interesting behaviours are interleavings of handlers of different
connections, and a connection closing in the middle of a handler.

## Modules

| module | models | state / actions |
|---|---|---|
| `Registry` | the registries, the store, connection lifecycle | `conn`, `ctrlOf`, `sessions`, `store`, `pc` (the step each connection's handler is in), history `added`, `replied`; `Accept` (SetConn), `ClientClose`, `ConnStateEvent`; store and registry operators |
| `PairSetup` | `pairSetup`, steps 1/3/5, `PairSetupSession` | `SetupStep1`, `SetupStep1Done` (setSession), `SetupStep3`, `SetupStep5` (up to M6), `SetupStep5Save` (savePairing, may fail) |
| `PairVerify` | pair-verify, from the spec | `VerifyStep1`, `VerifyStep3` (store read + signature), `VerifyInstall` (NewSession + SetSession) |
| `PairingsAdmin` | `Server.Pairings` | `AddPairing`, `AddPairingSave`, `DeletePairing`, `DeletePairingClose` |
| `HAPPairing` | their composition | `Init`, `Next`, `Spec`, the properties |
| `MC_HAPPairing` | the TLC instance | model values, symmetry |
| `HAPPairing_proofs` | TLAPS proofs | inductive invariants and theorems |
| `SessionTransport` | one direction of a Session: `Encrypt`, the wire, `Decrypt` | `wpc`/`wrem`/`out`/`encryptCount` (writer), `wire`, `recv`/`decryptCount`/`rpc` (reader), history `sent`, `sentChunks`, `ends`; `Send`, `EncryptPacket`, `EncryptEnd`, `Flush`, `Close`, `DecryptFrame`, `DecryptEOF`; faults `Tamper`, `Drop`, `Duplicate`, `Swap` |
| `ChunkStream` | what the transport promises (abstract) | `sentC`, `recvC`, `aborted`; `Write`, `Accept`, `Abort` |
| `MC_SessionTransport` | the TLC instance | chunks of 2 bytes |
| `SessionTransport_proofs` | TLAPS proofs | type correctness and the refinement |
| `Characteristics` | `GetCharacteristics`, `PutCharacteristics`, `findC` | `value`, `events` (c → subscribed addresses), `cpc` (a PUT inside its assignment to `c.Events`), `reply`, `crashed`; `GetCharacteristics`, `PutCharacteristics`, `PutEventsDone`, `ConcurrentMapAccess` |
| `HAPAccessory` | a paired accessory: lifecycle, pair-verify and characteristics, with crash and restart | `ConnNext`, `VerifyServed`, `CharNext`, `Restart` |
| `MC_HAPAccessory` | the TLC instance | two addresses, a paired and a stranger controller, two characteristics |

A handler is split into two actions exactly where the code suspends with
something checked but not yet acted on:

* between the busy loop and `setSession` (the verifier computation);
* between M6 and `savePairing`;
* between the store read and the save of AddPairing;
* between the delete and the close loop;
* between V3's store read and the installation of the Session.

A step that answers an error and changes nothing (decoding errors, MFi,
unknown states, refusals of the pairings handler, List) is a stutter step
and is left out.

Data is abstracted as follows:

* A controller is a model value, and its key is `ControllerKey[c]`.
* SRP is abstracted to "the controller knows the PIN" (`PinHolders`).
  Honest PIN holders present their own identity and key in M5.
* The S and K of a `PairSetupSession` become the flags `sOk`/`kOk`, which
  say whether they come from a verified proof. This keeps the order of the
  updates in `SetupPrivateKeyFromClientPublicKey` (S always replaced) and
  `SetupEncryptionKey` (K replaced only after a verified proof).

### Transport

A frame is abstracted to its plaintext length, the nonce it was sealed
under and whether it is intact. ChaCha20-Poly1305 opens a frame exactly when
it is intact and the nonce is the reader's. The 1024-byte chunk is scaled
down to `PacketLengthMax = 2`. Messages of 0 to 3 bytes then give every case
of the chunking: an empty message, a short single chunk, an exactly full
chunk, and a full chunk followed by a short one. `EncryptPacket` is one turn
of the read/seal/increment loop, so its step is where a second writer would
interleave. The model has one writer, as spec section 5 puts serialization
on the caller. With `Faults`, the network may alter, drop, replay or swap
frames, bounded by `MaxWire`.

`ChunkStream` is the abstract promise. The reader accepts exactly the
chunks the writer sealed, in order, or gives the stream up. The refinement
mapping is `sentC <- sentChunks`, `recvC <- recv`,
`aborted <- (rpc = "failed")`.

### Characteristics and the accessory

`HAPAccessory` composes `PairVerify`, the `Registry` lifecycle and
`Characteristics` over the same registries. The store starts as pair-setup
left it, with `c1` paired as admin. A request names one characteristic
(one element), and values are 0/1. The value hooks are abstracted to the
set `Writable`. The PUT that sets `c.Events` is split at the map assignment
(`cpc[a].op = "evwrite"`, then `PutEventsDone`). This lets another handler
reach the map while the write is in progress.

Go's behaviour on such an unsynchronised access is undefined: the runtime
may detect it and abort, or the program may go on. The model keeps both
outcomes. `ConcurrentMapAccess` sets `crashed`, or the other handler
proceeds. `Restart` then starts the process afresh:

* the registries, handlers, values and `Events` maps live in memory and
  are reset;
* the pairing store is on disk and kept.

## Runs

The pairing runs use `MC_HAPPairing` with:

* two addresses;
* two controllers, of which `c1` knows the PIN;
* two keys;
* symmetry over the addresses.

Two addresses are the least that shows any race between connections. Two
controllers are the least that shows a stranger against a PIN holder.

| run | cfg | expect | shows |
|---|---|---|---|
| core_safety | `MC_HAPPairing.cfg` | pass | `TypeOK`, `Authentication`, `SetupProofExclusive`, `NoLeakedSession` (no registry entry outlives its connection's close event), `SetupOnlyWhenUnpaired` (an M5 is only in flight while no pairing is stored) over all 62,304 distinct states |
| setup_two_sessions | `..._SetupSingleton.cfg` | violation | two M1 handlers both pass the busy loop |
| m6_not_persisted | `..._M6ImpliesPersisted.cfg` | violation | M6 sent, save failed, error ignored |
| stale_admin_permission | `..._AdminOpsByAdmins.cfg` | violation | a downgraded admin keeps admin rights on its Session |
| add_pairing_lost_update | `..._KeyNeverReplaced.cfg` | violation | two concurrent AddPairing of one new name: the second key replaces the first |

The transport runs use `MC_SessionTransport`. `MC_HAPAccessory` has two
addresses, the paired `c1`, a stranger `c2` whose pair-verify fails, an
observable writable `ch1`, and a read-only `ch2`. `PutElements` holds seven
PUT elements: write with `r`, write back, subscribe and unsubscribe on
`ch1`, write and subscribe on `ch2`, and a write to an id `findC` does not
resolve.

| run | cfg | expect | shows |
|---|---|---|---|
| transport_safety | `MC_SessionTransport.cfg` | pass | with faults, messages of 0-3 bytes, 2 messages: `TypeOK`, `EncryptChunksMessage` (the sealed chunks are the HAP chunking of each message), `ChunkStreamRefined` (the transport implements the abstract chunk stream, whose chunks received are a prefix of those sent) (850,647 states) |
| transport_liveness | `MC_SessionTransport_live.cfg` | pass | no faults, 3 messages: `FrameProgress`, every sealed chunk is eventually opened |
| transport_message_boundary | `MC_SessionTransport_MessageDelivered.cfg` | violation | a message of exactly one full chunk is never returned by `Decrypt` |
| accessory_safety | `MC_HAPAccessory.cfg` | pass | `TypeOK` of the composed accessory, under concurrent pair-verify, GET and PUT, connection reuse, crash and restart (61,938 states) |
| events_map_race | `MC_HAPAccessory_NoFatalMapAccess.cfg` | violation | two connections reach `c.Events` together, and the runtime kills the process |

The findings in `PROJECT.json` say what each violation means for the code.

Deadlock is checked in the pairing and accessory runs: a new connection can
always be accepted or closed, so those models never stop. The transport
cfgs say `CHECK_DEADLOCK FALSE`, because a connection really ends: the
reader stops at EOF or on a frame that fails to open, and the writer stops
after `MaxMsgs` messages.

Fairness is assumed only in `SessionTransport`, as weak fairness of
`EncryptPacket`, `EncryptEnd`, `Flush` and `DecryptFrame`. These are the
loops of the writer's and the reader's goroutines, and the Go scheduler
runs a runnable goroutine eventually. The network's faults, the caller's
choice to send or close, and the controller get no fairness. Liveness is
checked with `Faults = FALSE`: an attacker who drops every frame defeats any
progress property.

Each property of the passing run has a mutant that breaks it:

* accepting any client proof breaks `Authentication`;
* a busy loop that skips closing connections breaks `SetupProofExclusive`;
* a close event that forgets `delete(sessions, addr)` breaks
  `NoLeakedSession`;
* a pair-setup that does not test `isPaired` breaks
  `SetupOnlyWhenUnpaired`;
* re-reading the store when the Session is installed breaks `TypeOK`;
* in the transport:
  * a packet the length of the buffer breaks `TypeOK`;
  * an Encrypt loop that stops after one packet breaks
    `EncryptChunksMessage`;
  * a reader that does not advance its nonce accepts a replayed frame and breaks
    `ChunkStreamRefined`;
  * incrementing the nonce before sealing breaks `FrameProgress`;
* answering 200 instead of 204 breaks `TypeOK` of the accessory.

## Proofs (`HAPPairing_proofs`)

Each theorem holds for every set of addresses, controllers, keys and PIN
holders that satisfies `RegistryAssumption`.

* `TypeCorrect`: `Spec => []TypeOK`. `TypeOK` alone is not inductive, so
  the proof uses `TypeInv`, which adds that an address with a connection
  has a controller. Shape lemmas say which record set a registry entry or a
  handler step belongs to, given its `kind`/`op`.
* `AuthenticationHolds`: `Spec => []Authentication`, through
  `IInv == TypeInv /\ AuthInv`. `AuthInv` says:
  * a store entry is filed under its own name, and that name is a PIN
    holder or was added;
  * a setup session whose S comes from a verified proof belongs to a live
    connection of a PIN holder;
  * the pairing a pending M5 will save is a PIN holder's;
  * the pairing a pending V3 read, and every Session, is genuine.

  The second conjunct is what carries the proof across the split handlers.
  TLC checked `IInv` on every state of the core_safety instance before it
  was proved.
* `SetupProofExclusiveHolds`: `Spec => []SetupProofExclusive`, inductive
  together with `TypeInv`. The key step is that M3 requires every other
  entry to be empty.
* `NoLeakedSessionHolds`: `Spec => []NoLeakedSession`. The property alone
  is not inductive: `SetupStep1Done` calls `setSession` with no test of the
  connection, so the proof needs to know the connection is still there.
  `LiveInv` says that an address with a registry entry *or a handler in
  flight* has a connection. It holds because a handler starts only on an
  open connection and `ConnStateEvent` waits for the handler to return.
  TLC checked `LiveInv` on the core_safety instance before it was proved.

Each step proof has one step per action, and they are combined with `PTL`.
The violated properties are only model-checked, because they are false.

## Proofs (`SessionTransport_proofs`)

These hold for every chunk size, message bound and wire bound that satisfy
`TransportAssumption`, with or without faults.

* `TypeCorrect`: `Spec => []TypeOK`.
* `Refinement`: `Spec => ChunkStreamRefined`, that is, `Spec` implements
  `ChunkStream!Spec` under the mapping above. The invariant is
  `IInv == TypeOK /\ encryptCount = Len(sentChunks) /\ (rpc = "reading" =>
  decryptCount = Len(recv)) /\ wire, out \in Seq(GoodFramesOf(sentChunks))`.
  A frame is *good* when, if intact, its nonce names a sealed chunk and its
  length is that chunk's.
  * This is what makes an intact frame under the reader's nonce the next
    sealed chunk, so `DecryptFrame` maps to `Accept` or `Abort`.
  * Sealing only appends to `sentChunks`, so good frames stay good
    (`GoodFramesGrow`).
  * Each fault keeps the wire a sequence of good frames. Tampering spoils
    a frame (`SpoiledFrame`), and dropping, replaying or swapping rearranges
    the same frames (`DropInSeq`, `DuplicateInSeq`, `SwapInSeq`, from
    `SequenceTheorems`).
  * The remaining steps leave the mapped variables unchanged and are
    stutters of `ChunkStream`.
* `EncryptChunks`: `Spec => []EncryptChunksMessage`. The property speaks
  only of the moment the buffer is flushed, so it is not inductive. The
  proof uses `ChunkInv`, which TLC checked on this instance and on one with
  3-byte chunks and messages up to 7 bytes (8.7 million states):
  * while Encrypt is in its loop, the buffer holds `Len(out)` full chunks;
  * the message length is then `wrem + Len(out) * PacketLengthMax`;
  * between messages, the buffer is empty.

  The arithmetic is in lemmas:
  * `DivChunks`: `(q * M + r) \div M = q` for `r < M`;
  * `HAPChunksFull` and `HAPChunksShort`: the HAP chunking of `k * M` and
    of `k * M + r` bytes.

  `EncryptPacket` splits on whether the read was full or short. A short
  read ends the loop with `HAPChunksShort`. `EncryptEnd` (a read of 0
  bytes) ends it with `HAPChunksFull`. This is the case the
  `transport_message_boundary` finding is about: a message of a multiple of
  1024 bytes is sealed as full chunks only, and the theorem says that is
  exactly what Encrypt does.
* `DecryptPrefix`: `Spec => []ChunksDelivered`, where `ChunksDelivered` is
  `Delivered` of the abstract stream under the mapping (no run checks it
  separately: `ChunkStreamRefined` implies it). The chunks Decrypt has
  accepted are always a prefix of the chunks Encrypt sealed, whatever the
  network does. This is `Delivered` of `ChunkStream`, inductive there with
  its typing (`AbsInitDelivered`, `AbsNextDelivered`). It carries over to
  the transport through `Refinement`, with no further reasoning about
  frames.

## Proofs (`HAPAccessory_proofs`)

These hold for every set of addresses, controllers, keys and
characteristics that satisfy the assumptions of `Registry`,
`Characteristics` and `HAPAccessory`.

* `AccessoryTypeCorrect`: `Spec => []TypeOK` of the composed accessory,
  through `AccTypeInv`. Like `TypeInv` of the pairing proofs, it adds that an
  address with a connection has a controller, because V3 looks up the key of
  `ctrlOf[a]`. It was checked by TLC on the accessory instance.
  * A PUT is split on whether it enters the map assignment.
  * `PutResponseType` and `GetReplyType` give the reply shapes.
  * `InitialStoreType` types the store pair-setup left.
  * `Restart` re-establishes the fresh in-memory state.
Of the properties of the passing runs, two are only model-checked.
`FrameProgress` is liveness under weak fairness, beyond what these proofs
can do. `SetupOnlyWhenUnpaired` rests on more than the M5 guard: an admin
`Session` outlives the deletion of its pairing, and only the close loop of
`DeletePairing` (every connection is closed when no admin is left) keeps
such a Session from adding a pairing while an M5 is in flight. The
invariant tying Sessions, connections and the store together for that is
not yet stated.

## Hazards

`PROJECT.json` lists the hazards, each at the line where it bites, with the
properties that cover it. Those without a property say why in their note:

* the nonce counter shared by concurrent writers: serialization is the
  caller's, which is not under `src/`;
* subscriptions inherited by a reused address: the spec is silent;
* the pair-verify that installs a Session after DeletePairing's close loop:
  the spec is silent;
* the missing Session check of the characteristic handlers: the HTTP layer
  that might refuse is not under `src/`;
* the follow-up after the last admin is removed;
* non-truncating file writes.

## Not modelled

* **Notification fan-out** of characteristic changes to subscribed
  connections. It is not under `src/`.
* **PUT bodies with several elements**. These are modelled one element at
  a time. The response code of a request is then the code of its one
  element.
* **The value hooks** of the characteristic package. `ValueRequest` and
  `SetValueRequest` are abstracted to reading the value and to writing it
  when the characteristic is writable. The read of `r` before the write
  (`part_001:177`) and the dropped write status (`part_001:182`) are in the
  code order but checked by no property.
* **The callers of `Encrypt`/`Decrypt`** (the connection wrapper). They are
  not under `src/`.
* **Liveness of pair-setup and pair-verify**. The HTTP server gives no
  fairness that the code models.
* **File store, key pair, migration**. These are file I/O and start-up
  conversion, below the abstraction of the store as a map.
* **Generated characteristic types**. These have no behaviour.

Three things stay with TLC:

* liveness (`FrameProgress`) and ENABLED, which TLAPS does not prove here;
  the fairness argument would need ENABLED of the writer's and the reader's
  actions;
* what a recursive definition computes for every input;
* any module that declares a RECURSIVE operator. The proof modules use none.
