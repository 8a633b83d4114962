# DSWifi: specifications and proofs

TLA+ specifications of the parts of DSWifi where two processors, their interrupt
handlers, the WiFi MAC and other consoles share state with few or no locks, with
the TLC configurations that check them and TLAPS proofs of their main properties.
Paths are relative to the repository.

    tlc -workers 2 -config MCSharedRing.cfg MCSharedRing
    tlapm SharedRingProofs.tla

`PROJECT.json` maps every definition to the lines that it models, and lists the
runs, the hazards and the theorems.

## 1. Inventory

A Nintendo DS has two CPUs. The ARM9 runs the application and the library calls;
the ARM7 owns the WiFi MAC. They share one structure in uncached memory
(`Wifi_MainStruct`, `source/common/wifi_shared.h`), and messages of a FIFO: the
address of the structure, `WIFI_SYNC`, which makes the other CPU look at it, and
`WIFI_DEINIT`. Nothing else synchronises them, apart from a home-made spinlock. The
library code of the ARM7 runs in two interrupt handlers, `Wifi_NTR_Update()` in that
of the vertical blank and `Wifi_Interrupt()` in that of the WiFi.

| Component | State | Operations | Talks to |
|---|---|---|---|
| TX ring | `txbufData`, `txbufWrite` (ARM9), `txbufRead` (ARM7) | `Wifi_TxBufferAllocBuffer()` and its four users; `Wifi_TxArm9QueueFlush()`, `..CopyFirstData()` | ARM9 to ARM7, no lock |
| RX ring | `rxbufData`, `rxbufWrite` (ARM7), `rxbufRead` (ARM9) | `Wifi_RxArm9QueueAdd()`; `Wifi_NTR_Update()` / `Wifi_TWL_Update()` of the ARM9 | ARM7 to ARM9, no lock |
| Spinlock | one word, three values | `SLasm_Acquire`, `SLasm_Release` | entries of the AP list, table of clients |
| Multiplayer host | `clients.list[]`, `num_connected`, `aid_mask`, `reqKickClientAIDMask`, `reqFlags`, beacon in MAC RAM | authentication, association, deauthentication, kicks, opening and closing the room, leaving | clients over the air; requests of the ARM9 |
| Station | ARM9 `wifi_connect_state`; `reqMode`, `curMode`, `curAp`, `authlevel`, `authctr`, `W_BSSID`, `W_AID_FULL` | `Wifi_ConnectAP()`, `Wifi_AssocStatus()`, `Wifi_NTR_Update()`, frame handlers | access points over the air |
| TX engine | four areas of MAC RAM, busy bits, `W_TXBUF_REPLY1/2`, `arm7_queue` | `Wifi_TxArm7QueueAdd()`, flushes, end-of-transfer interrupts | every sender of the ARM7; the MAC |
| Beacon fragments and patches | table of fragments, ring of patches, patches that are kept | `Wifi_BeaconSetExtraDataFragments()`, `Wifi_BeaconPatchVendorByte()`, PreTBTT interrupt | ARM9 to ARM7 |
| Initialisation and shutdown | `WifiData` of each CPU, `flags9`, `flags7`, handlers | `Wifi_InitIPC()` with a timeout, `Wifi_Init()`, `Wifi_Deinit()` | both CPUs, FIFO |
| Download Play host | a stage, a block and counters per client; the position of the stream | `SendForState()`, `FromClientHandler()`, `Update()`, `SendNextBlock()` | CMD and REPLY frames |
| List of APs | `aplist[]` with a lock per entry | `Wifi_AccessPointAdd()`, `..Tick()`, `..ClearAll()`, `Wifi_GetAPData()` | written by ARM7, copied by ARM9 |
| DSi driver | mailboxes, WPA state | `source/arm7/twl` | SDIO |
| lwIP, mbedTLS | vendored | | |

What is hard, and what makes each part correct:

* **Rings.** The two CPUs only order their accesses by what they store where: the
  size word of a block publishes it. Allocation has three cases (at the end, at
  the start, before the reader) and a wrap marker that may have no room. Correct
  means: a FIFO of whole frames; nothing unread is overwritten; a drained ring
  works again.
* **Spinlock.** The acquire stores first and takes it back if it was wrong, so the
  lock is incorrect for two instructions. Correct means: exclusion, no torn
  copy of the record, no lock that nobody owns, progress.
* **Multiplayer host.** Frames arrive at any point of an Update and at any point
  of the protocol of a client; the ARM9 does read-modify-writes on fields that
  the ARM7 clears; the beacon is replaced from a queue. Correct means: the
  counter, mask, AIDs and entries agree and match the beacon, and requests
  of the application are applied.
* **Station.** `curMode` answers a request that has no identity; frames are lost,
  late or unwanted; the queue holds one frame. Correct means: the reported
  outcome is of the current attempt; the ARM7 talks to the AP it hears; both
  sides agree about the AID; requests and silence end in a result.
* **TX engine.** The MAC ends transfers, and takes a reply from one register to the
  other, between any two steps of the code; `CMD_DONE` is acknowledged after it was
  handled; the retries are counted in a register that other frames reset. Correct
  means: no frame is lost, sent twice or changed while it is sent, and the queues
  drain.
* **Beacon data.** A table and a ring are written by one CPU while the other copies
  them to the beacon byte by byte, with critical sections of one CPU only. Correct
  means: after a change the next rotation sends one whole fragment of the new table,
  the last patch of a byte survives the fragments, and all the fragments are seen.
* **Initialisation and shutdown.** The structure is freed while messages, interrupts and
  a slow ARM7 may still use it, and may be allocated again at the same address.
  Correct means: no use after the free, agreement when the library is up, calls
  that return.
* **Download Play.** Every client is in a stage of its own, one frame is for all of
  them, replies tell what a console knew one frame before, and the reply handler
  interrupts the main loop. Correct means: nobody is told to start a program that
  it doesn't have, nobody healthy is given up, places come back, one stream of
  blocks serves everybody.

## 2. Modules

### FrameQueue, SharedRing, MCSharedRing

`FrameQueue` is the promise: an application sends frames, the other CPU receives
them in order, some are rejected. `SharedRing` is the code: every action is one
access to the shared buffer or index, so that any interleaving of the CPUs is a
behaviour. The producer is `AllocEnd`, `AllocStart`, `WriteWrap`, `Reject`
(`Wifi_TxBufferAllocBuffer()`, `source/arm9/ipc.c`; the RX ring has the same
algorithm in `source/arm7/ipc.c`) and `WriteData`, `WriteStop`, `StoreWrite`,
`Publish` (its users). The consumer is `ReadStatus`, `ReadWrap`, `ReadSecond`,
`CopyWord`, `StoreRead`, and `DropFrame`, the refusal of a frame larger than its
destination (`CopyLimit`), which moves the read index past the size word only. `EagerWrap` chooses between the consumers, which differ
in when they store the read index after a wrap marker; `MCSharedRing` checks both,
the choice being part of its initial state. Words of a frame are
`[frame, position]`, which is enough to tell a torn or overwritten frame; `hist`,
`out`, `dropped`, `plap` and `rlap` are history variables. `c.pc = "lost"` is what happens
when something that isn't a size is used as one. The queue of `FrameQueue` may break, for
good, when its oldest frame is `Oversized`, and in no other way.

The stores of the code aren't all volatile. The model has them in program order,
which is what the ARM946E and ARM7TDMI do with uncached memory; a compiler that
reorders the copy and the store of the size is outside of the model.

### Spinlock

`source/common/spinlock.s` one instruction per action (loads and swaps; the
arithmetic is local), with a record of two words that the ARM7 writes and the
ARM9 copies. Nothing relates the speeds of the CPUs: a section may end, and its release
run, between the two swaps of a failed acquire of the other CPU. `failed`, a history
variable, says that a release has ever returned `SPINLOCK_ERROR`.

### MPHost

The host, with three actors: the ARM9 calls, the steps of `Wifi_NTR_Update()` in
host mode (`UpdateReadKicks`, `UpdateClearKicks`, `UpdateKick`, ..., `UpdateShut`)
and the WiFi interrupt (`Wifi_MPHost_Process...`, `Wifi_BeaconSetup`). What runs
inside a critical section of the ARM7 is one step, since only the ARM7 writes the table.
Most functions also take its spinlock against the ARM9, which only reads;
`Wifi_MPHost_KickByAID()` doesn't (`multiplayer.c:222`), and what the ARM9 reads meanwhile
is not modelled. A kick request is two actions of
the ARM9, its load and its store, on a mask of `KickBits` bits. Host mode is left when
another mode or another library mode is requested (`Leaves`). Bit masks are sets of bit numbers. The beacon is
`[on, kind, players, allows]`; `APP` is a byte that belongs to the application.
`calls` counts the calls of the application; `closing` says how far an Update has got since
the application last opened or closed the room. A beacon without a vendor tag is in
`BeaconData`. The exit of `Wifi_BeaconSetup()` for a frame smaller than a header
(`beacon.c:86-92`) is left out: it can't happen, since only `Wifi_BeaconStartInternal()` of the ARM9 makes
these frames and it always writes the header.

### Station

`Wifi_AssocStatus()` (one action per group of states), the calls of the
application, `Wifi_NTR_Update()` by `curMode`, `Wifi_AssociationUpdate()` in two
steps, since the interrupt may happen between its read of the level and the frame
that it sends, and the frame handlers. An Update ends with `Wifi_RxQueueFlush()`
(`pc = "flush"`): it handles up to 7 frames, so that only those that come meanwhile are
left for later, and none once the MAC has stopped listening. `tx` has the frame in the air and the
one-frame queue of `Wifi_TxArm7QueueAdd()`. Access points are external: they
answer requests in order and give the console the same AID until they forget it;
they refuse, drop the console, and any of their frames may get lost. `missed` has the
access points that gave an AID in a frame that was lost, until the console hears one from
them. `seen` says that an
Update has sampled the last request, `fresh` that the ARM7 has begun the attempt
that was selected last; `calls` counts the calls of the application.

### TxEngine

The ARM7 and its MAC, for a host (regular, CMD and beacon frames) or a client
(regular and REPLY frames). `job` is what each of the two contexts has left to do
(`Wifi_TxArm7QueueAdd`, `Wifi_TxAllQueueFlush`, `Wifi_Intr_MultiplayCmdDone`), `act`
what it has decided after looking at the busy bits: the MAC may act between the
decision and what is done (`Act`). `Loc3Ends`, `CmdEnds`, `CmdArrives` and `ReplyEnds`
are the hardware, external, as the code uses it: it clears busy bits, sets the status
word of the CMD frame, raises interrupts and moves `W_TXBUF_REPLY1` to
`W_TXBUF_REPLY2`. A frame that is being copied is `Torn`. A client may prepare replies at
any time: a new one goes to the buffer that `W_TXBUF_REPLY2` isn't using and replaces
the one that waits there. The two contexts don't preempt each other: the ARM7 program
(`sys/arm7/source/main.c:62-68`) calls `Wifi_Update()` in the handler of the vertical
blank, and interrupt handlers don't nest. One exit is left out because nothing reaches
it: the refusal of a frame of more than 1024 bytes (`tx_queue.c:91`), which the ARM7 never
builds. A frame in the CMD buffer that isn't a CMD frame (`tx_queue.c:340-350`) is `Reset`.

### BeaconData

The vendor tag of the beacon, byte by byte: `CopyByte` and `StoreTable` are
`Wifi_BeaconSetExtraDataFragments()`, `PublishPatch` ends
`Wifi_BeaconPatchVendorByte()`; on the ARM7 `TakePatch` and `ApplyPatches` are
`Wifi_BeaconApplyPatches()`, and `Wifi_BeaconRotateFragment`, `ReadSize`,
`ReadGeneration`, `WriteByte` the interrupt before each beacon. A byte says where it
comes from: frame, fragment of a table, patch. History variables are `latest`, the last
patch of each byte; `forgot`, the last one of them that the ARM7 had taken when
`Wifi_BeaconSetup()` emptied its list (`beacon.c:109`); and `fresh`, the table that was
complete when the rotation began.

### DlPlay, DlStream

`DlPlay` is the stage machine of `source/arm9/ntr/dlplay/protocol.c`. The main loop
goes through `Wifi_DlPlayUpdate` (timeouts, verdicts for each client),
`Wifi_DlPlaySendForState` and `UpdateSummaryState`; `Air` delivers the first frame of
the ring to a set of consoles and their replies to `Wifi_DlPlayFromClientHandler`,
which may come between them: the decision is in `verdict`, the place in `pc`.
Consoles are external: programs that download, Download Station clients, programs
already running. They reply with what they knew before the frame, leave (and may come
back before the host notices), or are switched off. A console is an `heir` when it gets an
AID whose record, kick or waiting frame was another one's, or stays in the room from one
session to the next: what the host believes of it is wrong. `Kick` is a mask of `KickBits`
bits, eight in the code: `Kickable` are the AIDs that have one. The stop and the start of a
session only ask the ARM7 for a mode (`wanted`), which enters or leaves it later (`HostMode`),
and `Wifi_DlPlayStart()` has its three outcomes. `Wifi_DlPlayBootClient()` looks at the stage,
and `BootRequested` writes it in a later step. `Calls` is what the application may do.
What a Download Station client is sent (length, chunks, end) is reduced to whether it has
something to send (`ready`) and whether that restarts its clock (`StationServe`).

`InStep` is an assumption about the timing (`OnTime`), of the run `dlplay_room` only: an
update comes when the ARM7 has sent what the last one put in the ring and served its kicks.
An update comes every 16 ms, and a frame takes 1.5 to 2.5 ms. No guard of the code enforces it;
`HealthyKept` is about it, because the timeouts count updates.

`DlStream` looks inside of "a block": the position of the stream, what each console
asks for, the rotation between requests, the blocks that a pass puts in the ring and
how far the stream runs ahead of the console that is furthest along. A pass may find the
ring in any state and fill it up half way.

### Lifecycle

`Wifi_InitDefault()` up to the ready flag, `Wifi_Deinit()`, the FIFO in both directions
and the handlers of both CPUs. Memory is a set of live addresses and what is at each
of them; `stray` says that a freed one was accessed, `gaveUp` that a wait for the ARM7
ended by its bound, after which the code can't know what the ARM7 does. The allocation may
fail (`NoMemory`), no view of the structure may pass the tests of `Wifi_MirrorWorks()`, the
FIFO may be full. lwIP is not part of it: when it can't be initialised, `libndsCrash()`
stops the program (`source/arm9/lwip/netif.c:391-404`), so the error path of `ipc.c:348` is not reached, and
once it runs the library can't be stopped (`netif.c:471-478`). The ARM7 handles
one message, vertical blank or interrupt at a time; `Wifi_NTR_Init` may never end.

## 3. Runs

| Run | Checks | Bounds |
|---|---|---|
| `rings` | `StatusWordsOnly`, `UnreadIntact`, `DrainedAccepts`, `EventuallyCopied`, `ImplementsQueue` | 11 words, frames of 3, 8, 9 or 13 bytes of which the last doesn't fit in MAC RAM, 5 frames, both rings |
| `rings_oversized` | `AnySizeIsTaken`, violated | the same |
| `spinlock` | `MutualExclusion`, `ConsistentCopy`, `NoOrphanLock`, `SomeoneEnters` | none: the state space is finite |
| `host` | `TypeOK`, `CountExact`, `AidMaskExact`, `OneSlotPerMac`, `TimeForReplies`, `AllowApplied`, `KeepsSlot` | 2 consoles, 2 entries, 2 bits in the mask of kicks, 5 calls of the application |
| `station` | `TypeOK`, `OutcomeIsOfThisAttempt`, `OneAccessPoint`, `AidAgrees` | 2 APs, one with WEP, 1 retry, 2 calls, 2 AIDs, frames get lost |
| `station_live` | `ModeConverges`, `SilenceIsReported` | 1 AP, Internet and host mode, frames get lost |
| `txengine` | `TypeOK`, `NoneLost`, `Undisturbed`, `Drains` | 2 retries, 3 frames of each CPU |
| `beacon` | `CurrentFragment`, `LatestPatchSent`, `FragmentsCycle` | 3 bytes, tables of 2 or 3 fragments of 1 or 2 bytes, 2 tables, 2 patches, 2 beacons, room for 1 patch kept |
| `dlplay` | `BootOnlyComplete`, `Gathered` | 1 place, any kind of console one after another, every call, losses, any timing |
| `dlplay_room` | `BootOnlyComplete`, `HealthyKept`, `SeatsComeBack`, `AppServed` | 2 places of which the mask of kicks has a bit for one, programs that download or run, consoles that are switched off, no losses, `InStep` |
| `dlstream` | `EveryoneServed` | 2 clients, 3 blocks, 2 per pass, a ring of 2, a client begins twice, 1 change of pace |
| `lifecycle` | `LiveMemoryOnly`, `ReadyAgrees`, `CallsReturn` | 2 addresses, 4 calls of `Wifi_InitDefault()`, a FIFO of 3 messages |

They have from 3 091 states (`spinlock`) to 6.3 million (`station`, two and a half minutes
with two workers).

The type invariants of the other modules hold too (name them in the cfg), and those
of all the modules but `DlPlay` and `DlStream` are proved (that of the rings until a frame
is dropped). `InOrderIntact` of the ring follows from
`ImplementsQueue`; `Layout`, `OwnerInLock` and `AidIsIndex` are proved.

What some of them leave out. `StatusWordsOnly` and the others about the rings hold until
the first frame is dropped; `rings_oversized` shows what follows. `NoOrphanLock` and
`SomeoneEnters` hold until the first release fails. `AidAgrees` says nothing of an AP whose
last response was lost. `LatestPatchSent` excepts a patch for which the list was full and one
that was taken before a new beacon. `BootOnlyComplete` and `HealthyKept` except heirs,
`LiveMemoryOnly` sessions after a wait was given up. `Undisturbed` excepts the copy of a reply
that was under way when the CMD frame came. Section 5 has the property without the exception,
where it fails.

Why the bounds are enough. In the rings, 11 words with frames of up to 4 words make
every case of the allocation happen in both laps, including a block that ends
exactly at the end and a full buffer; five frames go round more than once. Two
consoles and two entries are the least with an entry reused while the other is
held. Two calls and two APs let an application change its mind once, and one
retry has both outcomes of the counter. Three frames of each CPU are one in the MAC, one
in the queue and one that finds both taken. A table of two and one of three
fragments, in either order, make the table shrink and grow under a rotation; one
kept patch and two patches make the list overflow. In Download Play each bound of the code
(seconds) is one or two updates: what matters is on which side of it a console
is. Two places are the least with consoles in different stages, and with `KickBits = 2` the second
of them is one that can't be kicked. Two addresses and
four sessions let an address be used again after a session with the other. The
proofs of section 4 remove the bounds for all the safety properties of the table but
`HealthyKept`.

`CHECK_DEADLOCK FALSE` is only used for the rings, which stop after `MaxFrames`, and
`dlstream`, which stops when every console has the program.

**Fairness.** Rings: each CPU goes on with what it has begun, and the consumer keeps
looking (`Wifi_Update()` runs in the VBlank handler of the ARM9; the ARM7 flushes
at every `WIFI_SYNC` and after each transmission). The producer is never forced to
send. Spinlock: the two CPUs run all the time; that some particular CPU gets in is
not claimed, since nothing in the code guarantees it. Station:
`Wifi_NTR_Update()` runs once per frame (`sys/arm7/source/main.c:66`), so its steps and
the second between retries happen; the interrupt handles received frames; frames
in the queue are sent; the application polls `Wifi_AssocStatus()`, as the
documentation asks. Nothing is assumed of the access points or of the clients. TX engine:
the code goes on, transfers end, and the vertical blank is served however many WiFi
interrupts come (strong fairness: its request stays pending). Beacon data: both CPUs
go on, and so is the PreTBTT interrupt served. Download Play: the main loop calls
`Wifi_DlPlayUpdate()`, frames in the ring are sent, kicks are carried out; nothing is
assumed of the consoles, except in `DlStream`, where a console that is in reach doesn't
miss every useful frame (strong fairness per console) and the ARM7 catches up with the main
loop again and again, with each client first in turn once (`KeepsUp`): without this, passes
that find the ring full use up the turns of a console, and `EveryoneServed` fails. Lifecycle: both CPUs go on,
but `Wifi_NTR_Init()` has no fairness, as it may wait for hardware for ever.

`Paced` means that an application lets one Update happen between a request
and the next one (or the next `Wifi_AssocStatus()`): one call per frame. It is an
assumption about the application, which the documentation asks for and the code doesn't
enforce; section 5 says what happens otherwise. `InStep` is one about the timing of
`dlplay_room`.

## 4. Proofs

All the theorems are checked by TLAPS for every value of the constants that
satisfies the assumptions of the module.

* `SharedRingProofs`, for any sizes of the frames and of their destination: `LayoutInvariant`,
  `NeverLost`, `UnreadNeverOverwritten`, `InOrder`, `DrainedNeverRejects`, `Refinement`. None of
  these is inductive. The invariant is `Sound`: until a frame is dropped, the words have their
  types and the blocks their `Layout`: those not read yet lie in free space and in order of lap and
  address (`InFreeSpace`, `Ordered`), each one leads to the next directly or
  through a wrap marker (`Chained`), the block under construction is the
  producer's alone (`AtTail`, `Wrapping`, `Building`), and the consumer is at one
  of those blocks with a correct prefix of it (`Reading`). `Refinement` maps the
  queue of frames to the blocks published and not yet consumed, and the drop to the step in
  which the queue breaks: it is a theorem about every behaviour, also one with a frame
  that doesn't fit.
* `SpinlockProofs`, for any timing: `Exclusion`, `NoTornCopy`, `OwnerHolds`, `NeverOrphaned`. The
  invariant is `OwnerInLock` (the owner's value is in the lock, or the other CPU
  is between its two swaps and holds it) with the relation between the two words
  of the record. `NeverOrphaned` says that a failed release is the only way to a
  lock that nobody releases, and needs `Timed`: as long as none has failed, whoever reverts the
  lock does so while its owner owns it.
* `MPHostProofs`: `TypeCorrect`; `TableSound`, and from it `CountCorrect`, `MaskCorrect`,
  `AidCorrect`, `NoDuplicates`, `EnoughTime`, `ClientKeepsSlot`; and
  `AllowIsApplied`. The strengthening: clients only use entries below the current
  maximum, and an entry that isn't in use keeps AID 0 or the AID of its index, so that
  its next user clears no bit of another client. `AllowInv` follows a change of the room
  through the steps of an Update, with beacons that are set up in between.
* `StationProofs`: `TypeCorrect` (frames are only addressed to APs that were
  found, which needs that `curAp` is one when the ARM7 connects) and, for a paced
  application, `OutcomeIsTheAttempts` and `TalksToWhomItHears`. Their invariant
  follows an attempt through the two CPUs: while the ARM9 searches no attempt is
  requested (`NoAttempt`); once the ARM7 has sampled that none is, none is under way
  (`NotAsked`); none is under way before the ARM7 has taken the AP selected last
  (`NotBegun`); and while one is, `W_BSSID` is that AP (`Latched`).
  `AidIsTheAccessPoints`, with any losses, needs what the frames
  received and not yet handled will do to the AID (`Told`): from the first association
  response of an attempt on, the AID on record at the AP is the one that the console
  has or is about to have (`Knows`), unless that response was `missed`. An answer of an earlier attempt would break this; that none
  survives until the next one (`Deaf`) is due to the flush at the end of each
  Update, after the MAC has stopped listening, which is why `MaxRx` is at most the 7 frames
  that it handles: more of them, of any kind, would have to wait unhandled for a whole frame.
* `TxEngineProofs`: `TypeCorrect`, `NothingLost`, `Arm7GoesFirst`, `SendsWhatWasWritten`. What a
  context has decided after it looked at the busy bits is carried out steps later, so the
  invariant says that a decision stays right until then (`Decided`): the other context has
  nothing to do meanwhile (`Alone`), the ARM9 only adds frames behind the first one, and the
  MAC only ends transfers. A CMD exchange that ends does so with its interrupt pending
  until it has been handled (`DoneFirst`). For the replies, the MAC sends one that it was
  given (`Given`), and a copy begins in the buffer that it isn't using.
* `BeaconDataProofs`: `TypeCorrect`, `FragmentIsCurrent`, `PatchIsLatest`, `PatchesInOrder`.
  For patches: those in the ring are in the order of the calls (`RingInv`), the last one
  of a byte is in the ring, or in the list, or there was no room for it (`PatchInv`), and the
  list has been written to the beacon after the fragment was (`MacInv`). For
  fragments: how much of a table the ARM9 has written (`TableInv`), that a generation
  which the ARM7 has seen vouches for its index (`IndexInv`), and that a table left alone
  since the rotation began is the one that is copied (`RotateInv`). The generation is
  a byte, so a whole round of it would go unnoticed: `BeaconAssumption` has
  `MaxTables < 256`, in a whole behaviour, where the code needs it between two
  rotations.
* `LifecycleProofs`: `TypeCorrect`, `NoUseAfterFree`, `BothAreReady`. The invariant is
  `Phase`: as long as no wait was given up, a session is down, or called, starting, ready,
  running, stopping or stopped, and each phase says which address the ARM7 holds, whether its
  interrupts are on and which messages are on their way. That nothing comes after
  `WIFI_DEINIT` in the FIFO (`DeinitLast`) is what makes the free safe.
* `DlPlayProofs`: `NobodyDownloadsEarly`, for any application and any console (a decision to
  begin a transfer is never older than the one to gather, `GatherInvariance`).
  `StartsOnlyWhatItHolds`, for any timing, losses, departures and calls. Its invariant,
  `PromisesAreKept`, is about all the places where the host takes a console for one that holds
  the program (`Promised`: the stage, a decision not carried out, a frame in the ring), with
  what a console says being true of it (`Honest`). It is about every console that isn't an
  heir; that a console can be one is part of the model and not assumed away.

Only model-checked: `HealthyKept`, and everything that must eventually happen
(`EventuallyCopied`, `SomeoneEnters`, `ModeConverges`, `SilenceIsReported`, `Drains`,
`FragmentsCycle`, `SeatsComeBack`, `AppServed`, `EveryoneServed`, `CallsReturn`), which is
out of the reach of the prover.

## 5. Where the code and its documentation differ

Where a definition is named, TLC finds the counterexample when it is added to the cfg of
its component, with the constants given. The others were met while reading the code and
have no definition.

* **Rings.** `AnySizeIsTaken` (run `rings_oversized`): a frame that doesn't fit in its
  destination in MAC RAM is skipped by its size word only (`arm7/ntr/tx_queue.c:204`; the
  comment at `:170` says that it is dropped), and its data is then taken for sizes. No sender
  checks the size, and `documentation/local_multiplayer_mode.md:38` says that there are no
  restrictions.
* **Spinlock.** `UnlockerWaits`: `SLasm_Release()` doesn't wait (`spinlock.s:45`, against
  `spinlock_asm.h:11`); a release between the two swaps of an acquire returns an error that
  no caller looks at and leaves the lock taken.
* **Host.** The mask of kicks has 8 bits (`wifi_shared.h:189`) and AIDs go
  up to 15 (`dswifi_common.h:403`), so the AIDs from 8 on are never kicked; and the
  read-modify-write of the ARM9 races the clear of the ARM7 (`update.c:532`): a kick is lost,
  or done again.
  `HostBitSet`: bit 0 of `aid_mask` is cleared when a client that never associated
  authenticates again or leaves (`multiplayer.c:105`, `:204`; `dswifi9.h:767` says that it
  is always set). `CloseKicks`: closing and opening a room between two Updates, or a
  beacon set up in between, goes unnoticed (`update.c:547`, `dswifi9.h:506`).
  `AnnouncesAllow`, `AnnouncesPlayers`, `AppDataKept`: a beacon that is set up samples
  the flag late, announces one player until the next change, and its layout is
  published before it arrives. `BeaconOnlyHosting`: a beacon in the ring is set up after
  host mode has been left (`tx_queue.c:439`, `dswifi9.h:569`).
* **Station.** `Recovers`: in mode CONNECTED nobody sends a lost authentication frame again
  (`update.c:440`, against `tx_queue.c:138`). `LossIsReported`: once associated,
  `Wifi_AssocStatus()` never looks at the ARM7 again (`arm9/access_point.c:382`, against
  `internet_mode.md:352`). With `Paced = FALSE`, `OutcomeIsOfThisAttempt` and
  `OneAccessPoint` fail: a call to `Wifi_ConnectAP()` and two to `Wifi_AssocStatus()` with
  the new AP already in the list, and no Update in between, ask for CONNECTED again
  before the ARM7 leaves it, and the old connection is reported as the new one. `AidAgrees`
  without `missed` fails when the AP changes the AID and isn't heard. It says nothing once
  the AP has said goodbye: the MAC no longer lets its frames in (`W_BSSID` is cleared), so
  the console can't learn an AID that the AP gives it afterwards. `Wifi_RxQueueFlush()` handles
  7 frames in one go (`rx_queue.c:118`), two more than `rx_queue.h:17-18` says. The counter of retries goes
  back to 0 at each authentication: an AP that authenticates and never associates is
  tried for ever (`update.c:90`). Leaving because of a change of library mode sends no
  deauthentication and keeps the AID. `Wifi_ConnectAP()` in host mode never scans.
* **TX engine.** `CmdUndisturbed`: a CMD exchange that ends while other code runs raises
  `CMD_DONE`; that code may start the next CMD frame before the handler of the first
  one runs, which then writes to a buffer in use (`tx_queue.c:369`; the comments at
  `:359` and `:363` take the exchange for over). `ReplyIsWhole`: a CMD frame that comes while
  a new reply is copied over the one that waits makes the hardware send it half written
  (`tx_queue.c:374-381`; `dswifi9.h:882-884` only says that the new one replaces the old
  one). The queue of one frame has no critical section: it relies on interrupt handlers
  that don't nest.
* **Beacon data.** A rotation that runs while the table is rewritten sends a torn fragment
  once (`CurrentFragment` is about the ones that follow). `EveryPatchSent`: a patch right after
  `Wifi_BeaconStart()` is applied to the beacon that is about to be replaced, and
  `Wifi_BeaconSetup()` forgets it. When the list of patches of the ARM7 is full further
  ones are dropped, although `Wifi_BeaconPatchVendorByte()` has accepted them
  (`Dropped`).
* **Download Play.** `BootEveryComplete`: an AID that is used again before the main loop
  has looked keeps the record of the last console, and a console that stays in the room over a
  stop and a start meets frames of the session before. `EverySeatComesBack`, in
  `dlplay_room`: kicks go through the mask of 8 bits, so a console that has gone keeps an AID
  from 8 on for ever, against `protocol.c:44-46`. A Download
  Station client that accepts late stays in `SEND_PROCEED` until it is given up. Changing
  to automatic start after a long hold gives up on consoles that were waiting, since their
  counter went on. With `InStep = FALSE` or losses, `HealthyKept` fails: a healthy console
  that gets no frame for as long as the bound is given up, which is what the bound is for.
  `Wifi_DlPlayBootClient()` writes a stage that it looked at
  outside of a critical section (`protocol.c:2432-2436`). The summary in `dlplay_state` may be
  stored after the reply handler has stored a newer one. The return value of the send of a
  message isn't looked at when the ring is full. When updates find the ring full again and
  again, a console may wait for its block for ever in `DlStream` (`KeepsUp`).
* **Lifecycle.** `OtherVersionStops`: an ARM7 of another version returns from `Wifi_Init()`
  with `WifiData` set (`arm7/setup.c:38-42`), so its next vertical blank uses the structure;
  `wifi_shared.h:41-43` says that it checks before it touches anything else. After
  a wait has been given up (`gaveUp`; `ipc.c:304`), the ARM7 may go on with freed memory, or with an
  address that a new session has been given, which then looks ready too early.
  `Wifi_CheckInit()` still returns 1 after `Wifi_Deinit()` (`dswifi9.h:163-167`).
  `Wifi_Deinit()` doesn't look at the result of its message and waits for ever if the FIFO
  was full. If `Wifi_InitDefault()` fails after `Wifi_InitIPC()`, `WifiDataCached`
  stays set and the next call stops at an assertion.

## 6. Not modelled, and plan

Most of the repository's 142 000 lines of code are vendored: lwIP (70 000) and mbedTLS
(44 000), and there are examples. The
library itself is `source/` (20 800 lines). Of it these are not modelled:

* the DSi driver (`source/arm7/twl`): another chip, with firmware, mailboxes and a WPA
  handshake of its own; the rings and the spinlock that it shares are modelled;
* the registers of radio, baseband and flash: sequences of accesses without state;
* the lwIP glue, random numbers, address helpers, WFC settings: wrappers and pure data;
* the slots of the AP list and their timeouts: the lock of an entry is in `Spinlock`, and what
  is found in `Station`;
* of Download Play, the content that Download Station clients ask for and the order in which
  they are sent it (`protocol.c:554-695`), the layout of ROMs (`rom.c`) and of the game
  information (`beacon_info.c`): conversions of data.

Abstracted everywhere: the bytes of frames, parsing of beacons, WEP, addresses other than
as identities, statistics.

Order of work:

1. Done: rings, spinlock, host, station, TX engine, beacon data, Download Play, lifecycle,
   with their invariants and proofs, and the refinement of the rings.
2. Proofs left: types of Download Play; `HealthyKept` for any number of clients; of
   `DlStream`, how far the stream runs ahead of the consoles.
3. `APList`: choice of a slot before its lock, ticks without it
   (`arm7/access_point.c:36-219`). No duplicate BSSID; a copy is of one AP.
4. Composition: station against host, with the access point of `Station` replaced by
   `MPHost`.
