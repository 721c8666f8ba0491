# Specifications of azure-ulib-c

TLA+ models of azure-ulib-c, the library that connects packages on a device
through *interfaces*: the IPC, which publishes interfaces and hands them out; the
registry, the flash storage in which the IPC remembers what a power cycle must not
lose; the uStreams, in which packages pass data; and three of the sample programs,
which show how packages use all of it.  The models are translated from the C code;
file names below are relative to the repository.

## 1. The system

| Part | State it keeps | Operations | Talks to |
|---|---|---|---|
| IPC (`src/az_ulib_ipc/az_ulib_ipc.c`) | one control block: `interface_list[]` (descriptor, hash, flags, ref_count), `publish_count`, a lock | init, deinit, publish, unpublish, set_default, try_get_interface, release_interface, call, try_get_capability, query, query_next, split_method_name | registry (a flag word per published interface), lock and sleep of the PAL, descriptors of the packages |
| IPC's own interfaces (`az_ulib_ipc_query_interface.c`, `..._interface_manager_interface.c`) | none | query, next, set_default as JSON commands | IPC; init publishes them, deinit unpublishes them |
| Registry (`src/az_ulib_registry/az_ulib_registry.c`) | flash: a table of nodes (ready flag, delete flag, key span, value span) and a data area; a lock | init, deinit, add, delete, try_get_value, clean_all, get_info | flash driver |
| Flash driver (`pal/src/*/az_ulib_pal_flash_driver.c`) | a word that is being filled | open, write, close, erase | flash |
| uStream (`src/az_ulib_ustream/`) | reference-counted control blocks; per instance position, first valid position, offset, length | init, clone, read, set_position, reset, release, dispose, concat, split | release callbacks of the owner |
| uStream forward (`src/az_ulib_ustream_forward/`) | position in one buffer | read, flush, get_size, dispose | flush and release callbacks |
| Descriptors (`inc/az_ulib_*_api.h`) | constant tables | built by macros | - |
| PAL (`pal/`) | - | lock (recursive on ThreadX only), sleep, threads, atomics | operating system |
| Sample `ipc_call_interface` | two cipher packages with properties alpha and delta | encrypt, decrypt, the properties | IPC |
| Sample `ipc_hardware_update` | two display packages, a consumer thread that animates one | cls, print, invalidate; main exchanges the displays | IPC |
| Sample `ipc_telemetry` | sensor threads, subscriptions | subscribe, unsubscribe, callbacks | IPC |
| `deps/`, `tests/` | - | vendored azure-core-c, tests | - |

How they interact.  A package calls `az_ulib_ipc_publish` with a descriptor;
the IPC takes a slot of its list and looks in the registry whether this
interface was the default of its *family* (all versions of a package that
expose the same interface) before the last power cycle.  A client resolves a
name once with `try_get_interface` into a handle (slot, hash), which counts a
reference; `call` uses the slot without the lock; after
`release_interface` the client may present the same handle again, and the hash
tells whether it still leads to the same publication.  `unpublish` polls until
no client holds a reference, and meanwhile sets ON_HOLD so that new clients are
refused.  Memory and flash are kept in step by a few registry writes inside the
IPC lock, none of which can be undone.  The registry writes spans through the flash
driver, word by word.  uStreams share control blocks between instances that belong
to different threads.

What is hard about it, and the property that makes each part correct:

* IPC.  Threads interleave between the polls of unpublish, handles outlive what
  they point to, the default moves while clients hold handles to the old one,
  each registry write may fail or be the last thing before a power cycle.
  Correct means: no slot is freed while a reference is out; a handle leads to
  what its owner asked for; a name is published once and a family has one
  default; memory and registry agree; nobody waits forever.
* Listing.  The table changes between two pages.  Correct means: an interface that
  stays published is reported once, under a name the parser understands.
* Registry.  Flash words are written once; a power cycle or driver error can
  fall between any two.  Correct means: a map whose changes are atomic; no word
  is programmed twice; what a caller reads through a span does not change.
* uStream.  Threads dispose of clones of one stream at the same time; instances of
  a concatenation move the same two parts; positions of the caller and of the
  buffer differ by an offset.  Correct means: the owner's data are released once,
  after the last instance; each instance reads its own sequence of bytes.
* Samples.  A package is exchanged under a running consumer; a sensor thread calls
  back while its subscriber leaves.  Correct means: a picture is drawn on one
  display; the program ends; a message one vault wrote can be read by the others.

The hazards behind these properties, each at its line, are listed in
`PROJECT.json`.

## 2. Modules

| Module | What it is | Extends |
|---|---|---|
| `Ipc` | the IPC: state, one action per critical section, invariants, inductive invariant | |
| `InterfaceDirectory` | what the IPC promises: a directory without slots, hashes, flags, lock | |
| `IpcProofs` | proofs about `Ipc`: the inductive invariant, counts, names, handles, the refinement of `InterfaceDirectory` | `Ipc` |
| `IpcRegistryProofs` | proofs about holds, defaults, the handles got for them, and what the IPC leaves in the registry | `IpcProofs` |
| `MethodName` | names as text: writing them and taking them apart | |
| `IpcQuery` | query and manager interfaces | `Ipc`, `MethodName` |
| `IpcQueryProofs` | proofs about listings, commands and names | `IpcQuery`, `IpcRegistryProofs` |
| `FlashDriver` | how bytes become words | |
| `Registry` | the registry over a flash of words | `FlashDriver` |
| `DurableMap` | what the registry promises: a map with atomic changes | |
| `RegistryProofs` | proofs about `Registry`, up to that promise | `Registry` |
| `UStreamBuffer` | one instance: what each call computes | |
| `UStream` | instances over shared control blocks, threads | `UStreamBuffer` |
| `ByteStream` | what a uStream promises: a sequence of bytes and a position | |
| `UStreamProofs` | proofs about the counters of `UStream`, and that each instance is a `ByteStream` | `UStream` |
| `HardwareUpdate`, `Telemetry` | two samples, composed with the IPC | `Ipc` |
| `HardwareUpdateProofs` | proof about the pictures of the first | `HardwareUpdate`, `IpcRegistryProofs` |
| `TelemetryProofs` | proofs about the subscriptions of the second | `Telemetry`, `IpcProofs` |
| `KeyVault` | the packages of the third sample | |
| `KeyVaultProofs` | proofs about what these encrypt and decrypt | `KeyVault` |
| `MC*` | small instances for TLC | the module of that name |

### Ipc

| State | Code |
|---|---|
| `phase` | `_az_ipc_control_block` is NULL ("down"), inside init / deinit, or "up" |
| `descriptor`, `hash`, `flags`, `ref_count` | the fields of `interface_list[]`; slots are numbered from 1, 0 is NULL |
| `publish_count`, `lock` | the fields of that name; `lock` is its owner |
| `registry` | for each name: no entry, an entry with flags 0 ("plain"), an entry with DEFAULT; survives `Crash` |
| `pc`, `call` | where each thread is inside a call that spans more than one step, and its locals |
| `handle`, `holding` | the clients' handle variables; `holding` from a successful get to the release |

A critical section that writes the registry at most once is one step:
`az_ulib_ipc_publish` of an interface that is not remembered as the default,
`try_get_interface`, `release_interface`, one turn of the loop of unpublish
(`Poll`).  `set_default` can write the registry four times (delete and add the
old default's entry, delete and add the new one's), so it is split into
`ChangeDefault`, `UpdateOld`, `AddOld`, `MarkNew`, `AddNew`, with the lock held
throughout.  publish calls set_default for an interface that was the default
before a power cycle; that call acquires the lock again (`NestedAcquire`), which
only a recursive lock grants (`LockIsRecursive`).  `FindToUnpublish` is a step of
its own because the code looks the descriptor up without the lock.

Details kept on purpose: `flags &= !X` clears the whole word (`AndLogicalNot`);
init resets `publish_count` to 1 and leaves `hash` alone; `hash` and `flags` of a
freed slot stay; publish stores ref_count = 1 and returns OK whatever the nested
set_default or the registry said; the registry write happens before the slot is
freed.

Abstractions: a name is a family and a version (`IpcQuery` spells them out); a
descriptor is a model value; capabilities and data contexts are left out; `call`
and `try_get_capability` are the descriptor they dereference (`CallTarget`); the
registry never runs out of space here (a full registry is a flash error).  init
and deinit run alone, as their documentation demands.

`Ipc` uses the registry through its promise (an entry per name that is written or
not), which is what `DurableMap` states and `registry_faults` checks.

### IpcQuery and MethodName

`IpcQuery` adds one variable, `listing`: what each client has received so far and
the count of its continuation token.  A page is computed in the lock, so query and
query_next are one step each; between two pages everything of `Ipc` may happen,
deinit included.  An entry has a size and a page a capacity, so a page ends where
the code's does: at the first entry that does not fit, which the next page begins
with.  The call goes through a handle of the query interface, as in the program.
The manager's command is a sequence of JSON fields; unmarshalling them and
`split_method_name` decide which name `set_default` gets; the fields are tried in
each of their 24 orders.  Names are sequences of tokens (words, separators, one
numeral per version); how long a numeral is and how many digits fit in the code's
buffers is left out.  `TokensAssumption` says that no word and no numeral is a
separator and that versions have different numerals; `FamilyIsSpelledOut`, that
the version of an interface is not 0, which publish refuses
(`az_ulib_ipc.c:486`), so that "any version" is never the name of one.

### Registry and FlashDriver

| State | Code |
|---|---|
| `node` | the table between `registry_info_start` and `registry_info_end`: ready flag, delete flag, the two spans and how far they are written ("empty", "torn", "whole") |
| `data` | the words between `registry_start` and `registry_end`, as bytes |
| `pc`, `op` | where the call that owns `registry_lock` is: it writes one word per step |
| `span` | the spans that `try_get_value` gave to callers, who read them without the lock |
| `up` | `_az_ulib_registry_cb` is set |

`add` decides (duplicate, space, free node); `WriteSpans`, `WriteKey`,
`WriteValue` and `SetReady` are the flash writes of store_registry_node, of key and
of value, and of the ready flag.  `delete` is one word.  `clean_all` erases the table
(`EraseInfo`), then the data (`EraseData`), page by page, and goes on after an
error, as the code does.  Lookups stop at the first node that is neither ready
nor deleted, and the free space starts behind the last word that is not all
0xFF, as in the code.  A crash is possible after every word.

Keys and values are bytes; the driver packs them into words and fills up the last
one.  The three hosted drivers are the same code; the errors are those its header
(`pal/inc/common/_az_ulib_pal_flash_driver.h`) lets the driver of a device
return, which the application supplies.

### UStream

| State | Code |
|---|---|
| `stream` | the `az_ulib_ustream` variables, with their control block |
| `made`, `ref_count` | the control blocks that were initialized, and their counters |
| `part`, `part_refs` | the two inner instances of an `az_ulib_ustream_multi_data_cb`, and their counters |
| `pc`, `local` | where the thread of an instance is inside read or dispose, and its locals |
| `released` | how often `data_release` and `control_block_release` ran for a block |

An instance belongs to one thread, a control block to all.  So a call that touches
its instance alone is one step; a read of a concatenation is one step per critical
section, each of which moves the shared part first; and dispose is one step per
access to a counter, since the code decrements atomically and then *reads again*.
Positions are numbers modulo 2^w; callers' positions and inner positions are
different numbers, as in the code, and so is what split and concat compute from
them.

`ByteStream` knows nothing of blocks, offsets or inner positions: a stream is its
bytes and a position, and every call is atomic.  The refinement mapping gives each
instance the bytes it would read.

### The samples

`HardwareUpdate` and `Telemetry` extend `Ipc` and replace its free choice of calls
by the sequence `main` makes; their threads use the very actions of `Ipc`.  In
`HardwareUpdate` the memory of both displays is modelled cell by cell, since the
property is about the picture.  In `Telemetry` the test of a subscription and the
call through it are two steps; a call through a pointer that is gone may use the
old value or NULL, at the compiler's choice, and after the latter the program
stops.  `KeyVault` has the two packages' state (alpha, delta) and their arithmetic
on bytes, the bitwise or and exclusive or by the weights of the bits:
`CharIsSigned` is the choice the C standard leaves to the compiler.

The programs are those of the source, but the table they run in may be any
(`HardwareAssumption`, `TelemetryAssumption`): the IPC's own interfaces leave a slot
for the package, none of them is of its family, and the consumer asks for what
the producers publish.

## 3. Runs

| Run | Question | Bounds |
|---|---|---|
| `ipc_core` | Do counts, defaults, handles and the directory survive every interleaving without faults, and does unpublish end? | 2 threads, 2 clients (one asks for a version, one for the default), 3 descriptors in 2 families, 2 slots, 2 instances, 6 hashes |
| `ipc_power_cycle` | Do memory and registry agree after power cycles at every write, and after deinit and init? | with the IPC's own interfaces, 4 slots, 2 clients, recursive lock, 8 hashes |
| `ipc_all_faults` | Does the inductive invariant hold with every fault at once? | power cycles, flash errors, timeouts; 1 instance; 4 hashes |
| `ipc_query` | Is a listing complete, are its names understood, is a second init as good as the first? Does a hold end with its waiter? | deinit, own interfaces, unpublish gives up after one poll, pages of two entries, the manager's command with two names and a wildcard, 7 hashes; symmetric threads |
| `registry_faults` | Are add, delete and clean_all right under power cycles and flash errors? Do entries and spans stay apart? | words of 2 bytes; 2 keys with equal words, values of one and two words, 2 nodes, 5 words |
| `ustream_streams` | Is each instance a byte stream of its own, and is the data released once, in the end? | 2 instances, 2 buffers of 2 and 1 bytes, 1 concatenation, positions modulo 4 |
| `ustream_threads` | Are the counts exact and reads safe while disposals overlap and callers split and concatenate anywhere? | 3 instances, buffers of 1 byte, 1 concatenation, positions modulo 3; symmetric instances |
| `hardware_update` | Does every picture belong to one display, and does the program end? | the program as it is |
| `telemetry` | How late can a telemetry be, does a call fail, does the program end? | the program as it is |
| `key_vault` | Can every message be read by the other vault? Do writes and the key position stay in range? | the keys of the source; texts up to 4 bytes over 2 bytes (one below, one above 127), alpha and delta with both signs and beyond the key, unsigned char |

Why the bounds are enough for the interesting cases.  With three descriptors and
two slots a slot is freed and taken by another version, by another family and by
the same descriptor again, while old handles exist; both threads can be inside
unpublish of one slot; six hashes allow every move of the default between two
packages and a republication after it.  Five words hold either two small entries
or one large one, with a word to spare, and two nodes run out as soon as an entry
was deleted, so the last word, the last node and the refusals behind them are all
reached.  Two buffers and a concatenation give an instance each kind of block, and
with two instances the second is a clone, the other half of a split, or the other
operand; the third, in `ustream_threads`, keeps a block alive while two others are
disposed of.  Four positions are more than any stream has bytes, so a difference
of positions wraps.  A text of one to four bytes is one less than, equal to, and
one more than a group of three.  A page of two entries makes three or four
interfaces take two pages or three.  The bounds are `MaxPublishCount` (a guard of publish
and set_default; hashes only grow), the slots, nodes and words, `UINT32_MAX`, the
sizes above, and `Alphas` and `Deltas` (what is written to the properties);
everything else is finite by itself.  Symmetry is used where the permuted values
play one role and no liveness property is checked: threads in `ipc_query`,
instances in `ustream_threads`.  Clients and descriptors play different roles
everywhere.

Fairness.  `ipc_core` (`FairSpec`, for `UnpublishCompletes`): weak fairness of each
thread inside a call, since a lock holder runs a bounded section and the sleep of a
poll ends, and of the release by a client that holds an interface, which the
documentation of try_get_interface asks of it.  Nothing is assumed of clients
that ask for an interface: they may ask forever, and only ON_HOLD stops them.
`MaxPublishCount` adds a premise: publications and changes of the default end
some day.  It is needed, not only convenient.  set_default clears the whole flag
word of the old default, its hold too, and a republication of the descriptor in
the same slot gives the waiting unpublish one more interface to wait for; either,
repeated forever, starves it.  After the last such call the lock is held for
single steps only, so a poll stays enabled and weak fairness suffices.
`ustream_streams` (`DataIsReleased`): a read or dispose that was begun is scheduled
until it returns.  `hardware_update` and `telemetry` (`ProgramEnds`): the
program's threads are scheduled and their sleeps end.

Deadlock is checked except where the system really stops: the sample programs end,
and uStreams end when every buffer has been used up.

### Runs that end in a violation

* `ipc_timeout_loses_default`: unpublish that times out undoes its hold with
  `flags &= !ON_HOLD`, which clears DEFAULT as well.  The registry still has it.
  A set_default that follows finds no old default, hence does not renew its hash,
  and handles to the old default stay valid.
* `ustream_dispose_race`: the last two instances of a buffer are disposed of by two
  threads; both decrement before either reads the counter again, both read 0,
  and the data and the control block are released twice.  The API promises thread
  safety for exactly this case.

Properties that hold in the runs above and not under other constants or callers,
found with the same modules and kept as notes in the hazards:

* `NoSelfDeadlock` with `MayCrash` and no recursive lock: publishing a package that
  was the default before a power cycle waits for its own lock (`az_ulib_ipc.c:527`).
* `PublishMakesFirstDefault` with `MayCrash`: a package remembered as not the
  default does not become it, even if it is the only one published.
* `HeldAnswersRequest` with `MayDeinit`: hashes start over in a second init, so a
  handle from before fits a new interface.
* `OnHoldHasWaiter` with `RegistryMayFail`: an unpublish that fails in flash
  leaves the interface on hold.
* `MapSpec` and `ExtentsDisjoint` leave out the registry after an interrupted or
  failed clean_all, until the next one: entries behind what was not erased reappear
  when the table fills again; an erase error is ignored.
* `AddedIsFoundUnlessTorn` leaves out a torn node, which every later search takes
  for the end of the table: what is added behind it is never found
  (`az_ulib_registry.c:181`).
* `SpansAreStable` leaves out values whose last word is all 0xFF, which the next
  add overwrites (`az_ulib_registry.c:156`), and the steps of clean_all.
* `ReleasedOnce` and `NoReadAfterRelease` where disposals of instances of one
  *concatenation* overlap (`Overlapping` with `m1`): a part is disposed of twice
  (`az_ulib_ustream_aux.c:262`).
* `StreamSpec` with `AnyCaller`: a split computes its length from a caller's
  position (`az_ulib_ustream_aux.c:383`), and a concat whose clone fails leaves a
  part without control block (`:325`).
* `RoundTrip` with `CharIsSigned`: bytes from 128 on are taken apart with a signed
  shift (`key_vault_1.c:206`).

Met while modelling and not about a property here: a used handle whose slot was freed
gets ITEM_NOT_FOUND although another slot publishes the name (`az_ulib_ipc.c:683`
and what follows); uStream reset never returns the ITEM_NOT_FOUND its documentation
names; decrypt writes the `'\0'` one past a buffer that its text fills
(`key_vault_1.c:322`); delta is stored before it is reduced, so that a thread that
encrypts meanwhile could use it (`key_vault_2.c:361`).

## 4. What is proved

Every theorem holds for all values of the constants that satisfy the module's
assumptions (`ConstantsAssumption`, `TokensAssumption` and `FamilyIsSpelledOut`,
`RegistryAssumption` and `FlashAssumption`, `BlocksAssumption` and
`PositionAssumption`, `HardwareAssumption`, `TelemetryAssumption`,
`KeyVaultAssumption`, which TLC evaluates in the runs): any number of threads,
clients, slots, nodes, words, instances and buffers, any bytes in keys, values and
texts.  Where a theorem assumes more, the last column says what; each of
these is a choice of faults or callers, made by a run as well, under which alone the
property holds (see the notes at the end of section 3).

| Theorem | States | Assumes |
|---|---|---|
| `InductiveInvariant` | `Spec => []IInv` | |
| `TypeCorrect` | `Spec => []TypeOK` (of `Ipc`) | |
| `RefCountCorrect` | `Spec => []RefCountsHolders` | |
| `NamesAreUnique` | `Spec => []UniqueNames` | |
| `DefaultsAreUnique` | `Spec => []AtMostOneDefault` | |
| `InstancesAreLimited` | `Spec => []InstanceLimit` | |
| `HandlesAnswerRequests` | `Spec => []HeldAnswersRequest` | no deinit |
| `ImplementsDirectory` | `Spec => DirectorySpec` | no deinit |
| `HoldsHaveWaiters` | `Spec => []OnHoldHasWaiter` | no flash errors |
| `DefaultsFollowRegistry` | `Spec => []DefaultAgreesWithRegistry` | no flash errors, unpublish waits |
| `StarClientsGetDefault` | `Spec => StarGetsDefault` | no deinit, unpublish waits |
| `RegistryRemembersPublished` | `Spec => []RegistryTracksPublished` | no flash errors, no power cycles |
| `PublishDoesNotBlockItself` | `Spec => []NoSelfDeadlock` | no flash errors, no power cycles |
| `FirstPackagesAreDefault` | `Spec => PublishMakesFirstDefault` | no flash errors, no power cycles |
| `CountsAreReferences` | `Spec => []RefCounts` | only instances of buffers are disposed of concurrently |
| `NobodyReadsReleased` | `Spec => []NoReadAfterRelease` | the same |
| `DataIsReleasedOnce` | `Spec => []ReleasedOnce` | disposals do not overlap |
| `InstancesAreByteStreams` | `Spec => StreamSpec` | no split or concat that goes wrong (`AnyCaller = FALSE`); only instances of buffers are disposed of concurrently |
| `CountersStayNatural` | `Spec => []TypeOK` (of `UStream`) | the same |
| `RegistryTypes` | `Spec => []TypeOK` (of `Registry`) | |
| `RegistryProgramsErased` | `Spec => ProgramsErasedWords` | |
| `RegistrySpansAreStable` | `Spec => SpansAreStable` | |
| `EntriesKeepApart` | `Spec => []ExtentsDisjoint` | `ValuesEndProgrammed` |
| `RegistrySpaceAccounted` | `Spec => []SpaceAccounted` | `ValuesEndProgrammed` |
| `DeletedStaysGone` | `Spec => DeletedIsGone` | `ValuesEndProgrammed` |
| `AddedIsFound` | `Spec => AddedIsFoundUnlessTorn` | `ValuesEndProgrammed` |
| `RegistryImplementsMap` | `Spec => MapSpec` | `ValuesEndProgrammed` |
| `PromisesHoldWithCommands` | `QuerySpec =>` always `OnHoldHasWaiter`, `RegistryTracksPublished`, `NoSelfDeadlock` | no flash errors, no power cycles |
| `ListingsAreComplete` | `QuerySpec => ListingIsComplete` | |
| `NamesLeadToInterfaces` | `QuerySpec => []NamesLeadBack` | |
| `ShowsWholePictures` | `HardwareSpec => []PicturesAreWhole` | no deinit (main never calls it) |
| `OneTelemetryIsLate` | `TelemetrySpec => []AtMostOneLate` | |
| `ConsumerIsSubscribed` | `TelemetrySpec => []SubscribedWhileHeld` | |
| `LettersComeBack` | `Spec => []RoundTrip` | `CharsFit`: char is unsigned, or texts and the first key are below 128 |
| `LettersFit` | `Spec => []WritesInBuffer` | |
| `KeyPosStaysInRange` | `Spec => []KeyPosInRange` | |

### The IPC

None of the properties is inductive by itself.  That ref_count counts the holders
needs to know that a slot being published (descriptor set, ref_count still 0)
belongs to the thread that owns the lock (`SlotsConsistent`, `LockOwner`), or a second
publish could take it.  `AtMostOneDefault` needs `CallsConsistent`: between the steps
of set_default no other package of the family has the flag.  `HeldAnswersRequest`
needs `HandlesConsistent`: a handle whose hash is current leads to an interface of the
requested name or to a free slot, because every hash given out is below
`publish_count` and hashes are not reused.  A second init starts the hashes over, so
this part of `IInv` (`HandlesAreSound`) speaks of an IPC without deinit; all other
parts survive deinit.  `HoldersAreBusy` says that what a client holds is in use: it
is what lets deinit, and the refinement, count clients instead of handles.  Each
action has a lemma that it preserves `IInv`, the steps inside the lock share
`CriticalStep`, and `NextInv` combines them.  TLC checks `IInv` in `ipc_all_faults`.

The refinement of `InterfaceDirectory` maps a slot with a count to a published
descriptor and a client that holds to its user.  Only five kinds of steps change
either; the proof shows of each that the directory allows it, and of every other that
nothing changes (`DirectoryStutters`): the flags, the registry, the hashes and the
lock are invisible.

The flags need more than `IInv`.  `HoldsAreAwaited` (for `HoldsHaveWaiters`) names the
thread that waits for a slot on hold, over the steps of set_default that clear the
whole flag word.  `DefaultInv` says where flag and registry differ inside set_default
(the old default has lost its flag and still has its entry, then the other way round
for the new one), and that a power cycle at any of these places leaves an entry at
most.  For `StarClientsGetDefault` the invariant ties every handle that was got for a
default to the hash its slot had then: set_default gives the old default a new hash,
so such a handle goes stale at the moment its package ceases to be the default.
`TrackInv` (entries belong to names in the table, the IPC's own interfaces are where
init put them) gives the three theorems about the registry: publish never finds an
entry of what it is asked to publish, so it never calls set_default under its own
lock, and decides about the default by the table alone.

### The uStreams

`CountInv` is `RefCounts` with what keeps it going.  An instance counts for its block
until its last decrement, and a part of a concatenation counts for the part's block until
the last user of that part has disposed of it, so both sums include threads in the middle
of dispose.  The difficulty is the window between a decrement and the second read of the
counter, in which a thread has given up its reference and has not decided yet:
`DisposalsApart` says that two threads are in dispose together only for blocks in
`Overlapping` (with concatenations there, the theorem fails, see section 3),
`CallsAreOnBlocks` that the block a thread still has to decide about is there, and
`ReleasedIsUnused` that a released block has the count 0 and therefore no user.
`OnceInv` adds, for disposals one after the other, that a block whose counter a thread is
about to read again has not been released.

`StreamInv` is what the refinement of `ByteStream` rests on.  `Fits` ties `offset_diff`
to the position of the first byte that is left (`First`), so that positions, which the
code computes modulo 2^w, come out as if they never wrapped (`PositionOf`, `InnerOf`).
`PartsJoin` says of a concatenation that the second part begins, in positions, where the
first ends, and `SpansParts` that an instance of it ends where the second part ends.
The parts are shared: every reader moves them to its own position first.  `PartsAlike`
therefore compares parts by where their bytes lie and not by where they stand, and
`BytesStay` concludes that no instance shows other bytes after such a move.
`ReadSoFar` is about a read between its critical sections, without the lock: what it has
copied is what the instance shows there, although others have moved both parts
meanwhile (`ReadPartShows`, the longest proof, with the arithmetic of the boundary in
`PartArithmetic`).  Each call has a lemma that says which step of the byte stream it is
(`ReadBufferShows`, `ReleaseShows`, `SplitShows`, `ConcatShows`...), and `OneMoves` that
all other instances keep what they show.  `Unmade`, that nobody touches the counters of
a block that was not made, is all the types need beyond that.

TLC checked the three invariants on the instances of `ustream_threads` and
`ustream_streams` before they were proved.

### The registry

`FlashInv` speaks of the call that writes: how far the driver has come (`Progress`),
that the words behind it hold the key and the value (`Holds`), and that all words
ahead of it are erased (`ErasedAhead`).  It holds over clean_all, its errors and its
interruptions, and needs no assumption about values; so do the three theorems that
follow from it.  What the driver programs is `WordOf`, proved from the driver's own
steps (`DriverWord`, `ProgramWord`), and what is read back is the content
(`ReadBack`), for every word size.

`EntryInv` speaks of the entries, while the registry is not dirty: each live node has
a key and a value in the flash (`LiveAreEntries`), they are apart, all below what is
being written (`WrittenAbove`), nodes are used in order (`NodesInOrder`), and of two
nodes with one key the second is behind a node that stops the search
(`SameKeyIsHidden`).  The last is not obvious: a torn node makes add blind for what is
behind it, so duplicates do arise, and only the order keeps a deleted key from coming
back.  `EntryInv` assumes `ValuesEndProgrammed`: the last word of no value is all 0xFF.
The code does not check that, and without it a new entry overlaps the last one (see
the note on `SpansAreStable` in section 3); keys need no such condition, as a value
follows.  The values of `registry_faults` satisfy it.
`ReadyEffect` and `DeleteEffect` say what the two flag words change for every key,
and the refinement of `DurableMap` follows: an add is a Put when its ready flag is
written, or nothing if a torn node hides it.

The least element of a set of nodes or words is obtained from the library's theorem
that the naturals are well-founded (`LeastNatural`), since induction itself is out of
the prover's reach.

### Listings, commands and names

A step of `IpcQuery` is a step of `Ipc`, a `set_default` of a name that a command
spelled, or a page, which only reads the table (`QueryStepIsIpcStep`).  `IInv` and the
invariants of holds and of the registry therefore hold here too, once `set_default` is
shown to keep them for *any* name, of a published interface or not
(`PromisesHoldWithCommands`).

`ListingIsComplete` speaks of the end of a listing; `ListingInv` says what is true in
its middle: an interface that was published all the time has been reported once if its
slot is below the continuation token, and never if it is not.  It holds because no step
moves an interface to another slot (`TableChanges`: a slot is emptied, or an empty one is
filled with a descriptor that is nowhere else), and because a page begins where the one
before it stopped (`ReportCounts`).

`NamesLeadBack` has two halves.  The text: whatever words and versions are, the parser
cuts a name at the separators that the writer put there, since the pieces contain none
(`Spelled`), and the fields of the command arrive in any order (`HasRead`).  The table: a
name is published once (`UniqueNames`) and no version is the wildcard
(`VersionsAreGiven`), so the lookup finds that slot and no other.

### The samples

`PicturesAreWhole` depends on handles.  The consumer releases the display between two
frames and presents the old handle again; main may exchange displays meanwhile.
`HandleKept` says of every call of main what the consumer relies on: a handle that is
still current afterwards leads to the display it led to, and a display that is held stays.
With it, `Drawn` can say what is on the display between the steps: before a frame, the
frame before it; within a frame, what its remaining calls complete (`Begins`).  A new
handle restarts with cls, hence from any contents.

`AtMostOneLate` needs nothing of the IPC: who is subscribed, or was when its sensor
looked, has no late telemetry yet (`LateInv`).  For `SubscribedWhileHeld`, `ConsumerInv`
says for every position of main's script what the consumer has.  Its point is that
`my_consumer_create` cannot fail: before main publishes, the table has only what init put
there (`Fresh`), so the publication succeeds, becomes the default and is found
(`StandsIn`), and main's unpublish comes after the consumer's last release.

A letter of the key vault comes back because every stage is undone by its counterpart:
the exclusive or by itself (proved bit by bit), and base 64 by groups of three bytes, the
last with its padding, for texts of any length.  Both ends use the key alike, since the
message names its algorithm and the shift and the start come from equal properties.
`PropertiesInv` keeps the delta of key_vault.2 inside the key, whatever was written to it;
`IsLetter` remembers that a message was made from some properties, not the present ones.
With a signed char the encoding loses bits of bytes from 128 on, which `CharsFit`
excludes.

TLC checked `ListingInv`, `VersionsAreGiven`, `SampleInv`, `LateInv` and `ConsumerInv` on the
instances of the runs as well.

### Only model-checked

Every invariant, every action property and every refinement that a passing run
checks is stated by a theorem, and each of these runs satisfies its theorem's further
assumptions: safety rests on no bound.  Liveness stays with TLC (`UnpublishCompletes`,
`DataIsReleased`, `ProgramEnds`), since the prover has no rules for fairness and
ENABLED.

## 5. Not modelled

* uStream forward: read and flush over one buffer with one owner and no shared
  state; a call is one assignment, and a unit test reaches every path of it.
* The span wrappers of the interfaces (JSON to structures and back), the number of
  digits of versions, lengths of names: text handling of azure-core-c.
* Interface and capability descriptors, configuration and result macros: constants.
* The interval properties of the telemetry sample: they only change a sleep.
  `call_w_str` and the order in which `main` of the key vault sample calls.
* Concatenations of concatenations, and read-only errors of the application's own
  stream types.
* Wrap-around of the 32-bit hash; calls with preconditions violated (a handle
  released twice, init called twice); readers that keep a span across clean_all.
* PAL implementations beyond what their callers see of them; vendored code; tests.

## 6. Plan

1. Nested concatenations in `UStream`, with `PartsJoin` over trees of parts.
2. uStream forward, composed with a uStream as its source.
