# Verification of the AGM device layer (`src/service/src/device.c`)

This directory holds the TLA+ models of the device layer of the Audio Graph
Manager service. It also holds the TLC configurations that model-check them and
the TLAPS proofs about them. The only source modelled is
`src/service/src/device.c` (808 lines). Everything it calls outside this repository (tinyalsa or
alsa-lib, the mixer, the sysfs node) is treated as an external collaborator.
Each call to it succeeds or fails nondeterministically inside the action that
makes it.

## 1. The system

`device.c` manages one `struct device_obj` per ALSA PCM device found at boot.
Many client sessions use the same object from their own threads. The file has
these parts:

| Part | Code | State | Interactions |
|---|---|---|---|
| Lifecycle manager | `device_open` 267–316, `device_prepare` 318–352, `device_start` 354–384, `device_stop` 386–419, `device_close` 421–449 | `dev_obj->lock`, `refcnt.{open,prepare,start}`, `state` (CLOSED < OPENED < PREPARED < STARTED < STOPPED), `pcm` | Calls the PCM driver while holding the lock; notifies the sink |
| Notification sink | `update_sysfs_fd` 119–147 | global `sysfs_fd`, opened lazily | Called from open and close of *every* device, under each device's own lock |
| Configuration accessors | `device_set_params` 511–539, `device_set_media_config` 489–502, `device_set_metadata`, `device_current_state` | `dev_obj->params`, media config, metadata | `device_set_params` calls `pthread_mutex_unlock` on a lock it never took, twice |
| Registry and discovery | `parse_snd_card` 676–759, `device_init` 761–777, `device_deinit` 779–808, `device_get_obj`, `device_get_aif_info_list`, `device_get_snd_card_id` | `device_list`, static `num_audio_intfs` | Two passes over `/proc/asound/pcm`, retried on EAGAIN |
| Format translator | `get_pcm_bits_per_sample` 94–117, `agm_to_pcm_format` 252–266, `agm_to_alsa_format`, the period arithmetic in `device_open` 287–295 (210 in the alsa-lib build) | none (pure); reads the media config | Used by `device_open` on the config `device_set_media_config` stored unchecked |
| Channel-map query | `device_get_channel_map` 616–674 | global mixer handle, opened lazily with no lock | Used by the session layer |

The lifecycle follows "first opener pays, last releaser closes". The first
`device_open` or `device_prepare` takes the lock and calls the driver. The last
`device_stop` or `device_close` does the same. Every other call only moves a
counter. The hard behaviours of the lifecycle manager are:

- interleavings of sessions around the driver call the lock protects;
- driver failures partway through a call;
- counters that wrap (`++` and `--` on `uint32_t`-like fields);
- calls made out of protocol order, which the code accepts: a stop without a
  start, or a close while started;
- the unowned unlock in `device_set_params`.

## 2. Modules

- **`DeviceLifecycle.tla`**: one device object and a set of client threads.
  - The variables are `lock` (holder of `dev_obj->lock`, or `NoThread`),
    `state`, `refcnt`, `pcm` (`null`/`live`/`dangling`), `liveHandles` (a
    ghost count of driver handles actually open), `sysfsFd`, `params`, and two
    per-thread maps:
    - `pc`: where the thread is inside a call;
    - `cs`: the session stage the thread's caller believes it is in.
  - Each critical section that calls the driver is split at that call:
    - `device_open` is the lock and refcount test; when the count is 0 the
      thread keeps the lock.
    - `device_open_pcm` is the driver call with its success and failure
      branches, the writes, and the unlock.
    - `prepare`, `stop` and `close` are split the same way.
    - A critical section without a driver call is one action (`device_start`,
      and the non-first or non-last paths of the others). The whole section
      runs under the lock in the code, so it is atomic there too.
  - `++`/`--` are `Inc`/`Dec` modulo `CounterMod`.
  - `device_set_params` is four actions: the unowned unlock, the free, the
    assignment of NULL, and the allocation with the second unlock. `params`
    is `null`, `live` or `freed` (a dangling pointer); the ghost `paramBlobs`
    counts the blobs allocated and not freed, and `doubleFree` records a
    `free` of a pointer already freed.
    - Unlocking a normal mutex that the thread does not own is undefined
      behaviour. It is modelled as the two outcomes a build can produce:
      `lock' \in {NoThread, lock}`.
  - Caller behaviour is a constant choice:
    - `Clients` are the threads.
    - `ParamSetters` are the threads that may call `device_set_params`.
    - `Unchecked` are the threads that may call start, stop and close out of
      protocol order.
    - `Unmatched` are the threads that may call `device_close` without
      having opened the device.
    - `AlsaLib` chooses the build: `device_open_snd_pcm` (lines 205–264,
      `snd_pcm_open`, then the hw-params calls) replaces `device_open_pcm`.
      A hw-params failure after a successful `snd_pcm_open` returns with
      the handle open and unreferenced; `MaxHandles` bounds how many such
      handles a run accumulates.
    - `MaxPrepare` bounds `refcnt.prepare`.
- **`MCDeviceLifecycle.tla`**: model values `c1..c3`, the client sets, and the
  symmetry set.
- **`DeviceSessions.tla`**: the abstract specification of what the
  refcounting promises the sessions sharing a device. `holders` are the
  sessions with an open, `starters` those with the device started, and
  `handle` says whether a driver handle is open. `Open` takes a hold and
  leaves the handle open; `Start`/`Stop` start and stop a holder; `Close`
  drops a hold of a session that is not running; `CloseDriver` closes the
  handle, only once nobody holds the device. `HandleWhileHeld` is the
  promise. `DeviceLifecycle` maps onto it by `Abs == INSTANCE DeviceSessions
  WITH holders <- HeldBy, starters <- StartedBy, handle <- (pcm = "live")`:
  the holders are the sessions `refcnt.open` counts (minus a closer already
  inside the last `pcm_close`), the starters those `refcnt.start` counts.
  `ImplementsSessions == Abs!Spec` is the refinement property.
- **`DeviceLifecycleProofs.tla`**, **`DeviceStateProofs.tla`**,
  **`DeviceParamsProofs.tla`**, **`DeviceSessionsProofs.tla`**: the TLAPS
  proofs about the lifecycle (section 5).
- **`DeviceRegistry.tla`**: discovery and teardown, run directly by TLC.
  - The discovery thread is `pc` plus the locals of `parse_snd_card`
    (`pos` lines read, `count` devices stored, `ret`) and `retries` of
    `device_init`. The other actor is the kernel, whose `card_registers`
    adds a line to `/proc/asound/pcm`.
  - `num` is the static `num_audio_intfs`; `list`/`cap`/`slot` are the
    `device_list` allocation, its `calloc` length and its entries; `objs` is
    the heap state of every device object, named by the attempt and the line
    that allocated it.
  - One action per block of `parse_snd_card`: fopen and the counting pass
    (`num' = num + lines`, never reset), the `calloc` of the list, one
    parsed line (object `calloc` failure, failed probe, stored device), end
    of file (EAGAIN or `num_audio_intfs = count`), and `free_device`.
    `device_init_retry` and `device_init_sleep` are the retry loop (the
    code sleeps after the last EAGAIN too, then leaves the loop);
    `device_deinit`, `device_deinit_obj` and `device_deinit_end` the
    teardown loop; `device_get_obj` and `device_get_aif_info_list` the
    lookups, recording in `lastRead` what they dereference.
  - Constants choose the environment: `Faults` (fopen and calloc may
    fail), `RegisterAnyTime` (a card may register between the two passes),
    `DeinitAfterFailure` (teardown follows a failed init).
- **`ChannelMap.tla`**: `device_get_channel_map` called by several threads
  with no lock, run directly by TLC.
  - `mixer` is the static handle (named by the thread whose open created
    it), `opened` the handles ever opened, and per thread `pc`, `str`
    (`mixer_str`) and `payload`.
  - One action per step: the `mixer == NULL` test, the open, the two
    `calloc`s, the control lookup and the array read. A failed tinyalsa
    `mixer_open` stores its NULL into the static; a failed `snd_ctl_open`,
    outside this repository, may leave it as it was or not. `ErrorPathPayload`
    is what the failure labels do with `payload`: the tinyalsa build frees
    it, the alsa-lib build (`AlsaLib = TRUE`, lines 541–613) does not.

- **`SysfsNotify.tla`**: `update_sysfs_fd` (lines 119–147) called by the
  notifying threads of several devices, run directly by TLC.
  - Each device's lock excludes only its own callers, so each device is an
    actor; `sysfsFd` is the global, `opened` the descriptors ever opened,
    and per device `pc`, `sent` (the note being sent) and `sink` (the last
    note the node received).
  - One action per statement: the first-open or last-close that calls it
    (`notify`), the `sysfs_fd >= 0` test, the `open()` that may fail and
    stores its result over whatever is there, and the write after the open,
    which tests the global again. `MaxOpens` bounds the successful opens.
- **`PcmFormat.tla`**: the format translator and the `pcm_config` that
  `device_open` computes, run directly by TLC.
  - `get_pcm_bits_per_sample` is a `CASE` table, `agm_to_pcm_format` a set
    of formats mapped to themselves with `S16_LE` as default. Formats are
    named by their enum suffix, `INVALID` standing for the 0 of a calloc'd
    object and every value the switches send to their default.
  - The product `channels * (bits / 8)` is unsigned: `MulU` takes it modulo
    `UIntRange = 2^Width`.
  - The state is the stored media config, the outcome of the last
    computation (`ok` or `SIGFPE`) and the `pcm_config`.
    `device_set_media_config` copies any channel count of `ChannelValues`
    and any format; `device_open_config` divides by the frame size.
  - `DriverSampleBytes` is the reference: the bytes per sample slot the
    driver lays out for each format it is handed.
- **`PcmFormatProofs.tla`**, **`ChannelMapProofs.tla`**,
  **`RegistryProofs.tla`**: the TLAPS proofs about `PcmFormat`,
  `ChannelMap` and `DeviceRegistry` (section 5).

The `map` in `PROJECT.json` gives, for every definition, the lines of
`device.c` it translates.

## 3. Runs

| Run | Config | Checks | Result |
|---|---|---|---|
| `lifecycle_three_sessions` | `MCDeviceLifecycle.cfg`: 3 clients, no set_params, protocol-following, `MaxPrepare = 6` | `RefcountMatchesClients`, `DeviceInvariants`, `SingleDriverHandle`, `StartNeverRefused`, `NoLockLeak`, `DriverCallsOnLiveHandle`, `ReleaseOnlyWhenUnused`, `ImplementsSessions` | pass, 610 states |
| `lifecycle_single_session_unchecked` | `MCDeviceLifecycleSingle.cfg`: 1 client, alsa-lib build, that also calls `device_set_params` and makes out-of-order calls | `RefcountMatchesClients`, `NoLockLeak`, `ParamsOwned` | pass, 669 states |
| `sysfs_fd_two_devices` | `SysfsNotifyRace.cfg`: 2 devices, `MaxOpens = 2` | `NoFdLeak` | violation (finding) |
| `pcm_format_period_budget` | `PcmFormat.cfg`: `Width = 16`, channels {1,2,3,6,8,2048,2049}, every format | `PeriodWithinBudget` | pass, 1514 states |
| `set_params_breaks_lock` | `MCDeviceLifecycleParamsRace.cfg`: 2 clients, `c1` may call `device_set_params` | `SingleDriverHandle` | violation (finding) |
| `prepare_count_wraps` | `MCDeviceLifecyclePrepareWrap.cfg`: 2 clients, `CounterMod = 4` | `DeviceInvariants` | violation (finding) |
| `registry_discovery` | `DeviceRegistry.cfg`: up to 2 lines, `MAX_RETRY = 3`, every fopen/calloc/probe failure, cards register only between attempts | `NoListOverflow`, `RegistryExact`, `DeinitSafe`, `InitReturns` | pass, about 1000 states |
| `registry_card_registers_mid_parse` | `DeviceRegistryCardRace.cfg`: a card may register at any time | `NoListOverflow` | violation (finding) |
| `registry_deinit_after_failed_init` | `DeviceRegistryDeinitAfterFailure.cfg` | `DeinitSafe` | violation (finding) |
| `channel_map_tinyalsa` | `ChannelMap.cfg`: 2 threads, tinyalsa build, every failure | `NoBufferLeak` | pass, 360 states |
| `channel_map_lazy_mixer_race` | `ChannelMapMixerRace.cfg` | `NoMixerLeak` | violation (finding) |

What the runs show:

- **Correct callers are handled correctly.** Three sessions do every
  interleaving of the five calls, with every driver failure. Throughout:
  - the open and start counts equal the number of sessions holding and running
    the device;
  - exactly one driver handle is open while any session holds the device;
  - the hardware is stopped or closed only when nobody uses it;
  - no call returns holding the lock;
  - every step is a step of the abstract session specification
    `DeviceSessions` (`ImplementsSessions`).
- **`device_set_params` breaks mutual exclusion.** Session 1 is inside the
  first opener's `pcm_open` and holds the lock. `device_set_params` then
  releases that lock. A second session can now take the lock, still see
  `refcnt.open == 0`, and open the driver a second time. The first handle is
  leaked. This is finding 1 (`device.c:516`).
- **`refcnt.prepare` wraps.** `refcnt.prepare` is incremented by every
  `device_prepare` and reset only by the last close. While one session keeps
  the device open and started, other sessions that prepare and close make it
  grow. At the width it wraps to 0. The next `device_prepare` then calls
  `pcm_prepare` and moves a STARTED device back to PREPARED. This breaks the
  `struct device_obj` invariant "`refcnt.start` non-zero means STARTED". This is
  finding 2 (`device.c:331`). The passing runs bound the prepare count with
  `MaxPrepare` so that the other properties are checked on states the real
  width allows.

- **Discovery is exact when no card registers mid-parse.** With every
  allocation and probe failure, across retries: the parse never stores past
  the list, a successful `device_init` leaves exactly one live object per
  probed line in file order and a failed one leaves none, teardown only
  touches live objects, and `device_init` returns (`InitReturns`, under the
  fairness below).
- **A card registering between the two passes overflows `device_list`.**
  The counting pass sizes the list; a line added before the parsing pass
  is stored past its end (finding, `device.c:733`). At boot with no card
  the list is `calloc(0)` and the first store is already out of bounds.
- **`device_deinit` after a failed `device_init` frees `device_list`
  twice**: `free_device` frees it and leaves the pointer set (finding,
  `device.c:755`).
- **The tinyalsa channel-map query releases what it allocates** on every
  path. Two first callers both open the mixer and one handle is lost; a
  failing `mixer_open` of a second first caller also stores NULL over the
  first one's handle (finding, `device.c:623`).
- **One caller of `device_set_params` keeps the params blob owned**
  (`ParamsOwned`: never freed twice, exactly one blob allocated while
  `params` is set), and in the alsa-lib build a lone out-of-order client
  keeps the counts and the lock right, whatever the hw-params calls return.
- **With matched calls every driver call is made on the live handle**
  (`DriverCallsOnLiveHandle`).
- **Two devices notifying at once open the sysfs node twice**, and a failing
  open stores -1 over a working descriptor (finding, `device.c:140`).
- **The period `device_open` asks for is the right one** when the frame
  product does not wrap: the largest whole number of driver frames within
  8192 bytes, for every format, S24_LE (24 bits in 4 bytes) included.
- `device_open` before any media config, or after one with 0 channels,
  divides by zero (`SIGFPE` in `PcmFormat`). The spec makes a media config a
  precondition of `open` and leaves it unvalidated, so this is the caller's
  contract, not a property the project checks.

**Bounds.**

- *Clients.* Three clients are enough to have a first opener, a sharer and a
  third session that races both. One client is enough for the counts and the
  lock under one session's own out-of-order calls. An out-of-order session
  next to a started one (a stop from a session that never started stops the
  hardware under the starter, hazard `device.c:402`) needs two clients; no
  kept run has that configuration, because the spec counts stops per device
  and the code does what it says.
- *`CounterMod`.*
  - In the passing runs it is 65536. TLC integers are 32-bit, so 2^32 cannot
    be written.
  - No passing run comes near either width, so the smaller value changes
    nothing.
  - The `0 - 1` wrap of an unmatched close gives the same non-zero value at any
    width.
  - The violation run uses 4 so that the wrap is reached.
- *Deadlock.* Deadlock is checked: every state has a next call.
- *Registry.* Two lines are enough for a skipped line between two stored
  ones (file order) and for a registration between passes; `MAX_RETRY = 3`
  gives two retries, so a stale `num_audio_intfs` is carried across more
  than one attempt. Deadlock is not checked there: after `device_deinit`
  the service has ended and nothing is left to do.
- *Channel map.* Two threads are the fewest that can race on the mixer.
- *Sysfs.* Two devices are the fewest that can race on `sysfs_fd`; there
  is no passing run, as one device alone cannot race (its lock serialises
  its notifications).
- *`MaxHandles = 2`.* One leaked alsa-lib handle next to the live one; more
  leaks repeat the same states with a larger count.
- *Format.* `Width = 16` instead of 32: every value the arithmetic meets
  with a sane channel count (8192, frames up to 4 * 2049) fits in 16 bits,
  so the division and the products are the same; the channel counts cover
  mono, stereo, an odd count (3, whose period is not a power of two), 6 and
  8, and 2048/2049 whose frames reach and pass 8192 bytes (period 1 and 0).
  The theorem covers every width.
- *Symmetry.* Symmetry over the clients is sound because the three clients are
  interchangeable: none is a parameter setter and none is unchecked.

**Fairness.** The lifecycle assumes none: its progress depends on the PCM
driver returning, which this repository does not control. `DeviceRegistry`
assumes weak fairness of the discovery thread (`WF_vars(InitThread)`): every
call it makes (`fopen`, `fgets`, `calloc`, `sleep`) returns, and `device_init`
runs on its own thread with no lock to wait for. Card registration, lookups
and teardown get no fairness. Under it `InitReturns` holds: the EAGAIN retry
loop ends within `MAX_RETRY` attempts when cards register only between
attempts (the `registry_discovery` environment).

**Mutants.** Each property of a passing run is broken by a mutant of a mapped
definition, listed in `PROJECT.json`. Each mutant is a plausible bug:

- a dropped `++`;
- a missing unlock on failure;
- a post-decrement;
- a missing reset;
- a stop that does not test the count;
- a list allocated one entry short, a failed probe that leaks its object, an
  EAGAIN that never decrements, an end-of-file test that is one line late;
- a channel-map lookup failure that skips `free(payload)`;
- a `device_set_params` that skips `free` of the old blob;
- S24_LE counted as 24 bits per sample instead of 32.

## 4. Hazards

`PROJECT.json` lists the hazards of this code at the lines where they bite, and
the properties that cover them, with a note where a property does not cover
them in the runs kept. Defects of the code found while modelling that have no
run of their own, each stated by a property of the models:

- `device_get_obj(num_audio_intfs)` passes the `device_idx > num_audio_intfs`
  test and reads one past the end (`device.c:479`, `LookupsSound`).
- The alsa-lib channel-map query leaks `payload` when the control lookup or
  read fails: its error labels have no `free` (`device.c:594`,
  `NoBufferLeak` with `AlsaLib = TRUE`).
- Two concurrent `device_set_params` calls free the same blob twice or leak
  one: the test, `free`, `= NULL` and `calloc` of `dev_obj->params` run under
  no lock (`device.c:518`, `ParamsOwned` with two setters).
- A close by a caller that never opened wraps `refcnt.open` to a non-zero
  value; the next `device_open` succeeds without `pcm_open` and the next
  `device_prepare` calls `pcm_prepare` on a NULL or closed handle
  (`device.c:431`, `DriverCallsOnLiveHandle` with `Unmatched = {c1}`).
- The alsa-lib `device_open` jumps to `done` without `snd_pcm_close` when a
  hw-params call fails after `snd_pcm_open` succeeded, leaking the PCM
  (`device.c:224`, `SingleDriverHandle` with `AlsaLib = TRUE`).
- A channel count of 2^(Width-2) or more wraps the unsigned frame product,
  and the period asked for is far beyond the 8192-byte budget
  (`device.c:291`, `PeriodWithinBudget` with channel 2^(Width-2) + 1).

Not covered: `device_deinit` with sessions still open, which needs the
registry and the lifecycle composed.

## 5. Proofs (checked by `tlapm`)

### 5.1 `DeviceLifecycleProofs.tla`

- `TypeCorrect`: `Spec => []TypeOK`, for all values of the constants.
- `RefcountsCorrect`: `Spec => [](RefcountMatchesClients /\ SingleDriverHandle
  /\ NoLockLeak)`.
- `ReleaseSafe`: `Spec => ReleaseOnlyWhenUnused` (the action property).

**Assumptions of `RefcountsCorrect` and `ReleaseSafe`.** Both assume
`WellBehaved`:

- no thread calls `device_set_params`;
- every caller follows the session protocol, and none closes without an
  open (`Unmatched = {}`);
- the tinyalsa build (`AlsaLib = FALSE`);
- `Clients` is finite, with fewer threads than `CounterMod`.

These are exactly the conditions under which the code is correct:

- `set_params_breaks_lock` shows the first one is needed.
- The unmatched-close wrap shows the second is needed (section 4).
- The alsa-lib build breaks `SingleDriverHandle` on a hw-params failure
  (section 4).
- Any number of clients and any counter width are covered.

**The argument.** None of the three properties is inductive on its own. The
proof uses the strengthening `IInv`:

- `TypeOK`;
- the three properties;
- `Control`. For each thread inside a driver call, `Control` says:
  - it holds the lock;
  - the refcount test that sent it there still holds: `refcnt.open = 0` in the
    open and close windows, and `refcnt.start = 0` in the stop window;
  - its stage is the one the entry required.

`RefcountMatchesClients` counts sessions with `Cardinality`. Its preservation
therefore rests on these lemmas of `FiniteSetTheorems`:

- `FS_AddElement` and `FS_RemoveElement` for the sessions that join or leave;
- `FS_EmptySet` when the count is zero.

`SessionSetBound` shows that no session set reaches `CounterMod`. Because of
this, `Inc` and `Dec` are exact (`IncExact`, `DecExact`).

The proof has one lemma per action (`OpenStep` ... `ClosePcmStep`), and each
has one step per conjunct the action can disturb. TLC first checked `IInv` as
an invariant of `lifecycle_three_sessions`.

### 5.2 `PcmFormatProofs.tla`

- `PeriodsFitBudget`: `Spec => []PeriodWithinBudget`, for every `Width`
  (32 in the code) and every set `ChannelValues` satisfying `NoOverflow`:
  every channel count is non-zero and 4 times it is below `2^Width`.
  The second half is needed (section 4, `device.c:291`); the first is
  needed only for the counts clients set, since the calloc'd 0 ends in
  `SIGFPE`, never in `ok`.
- The inductive invariant `IInv` types the media config and says that a
  computed `pcm_config` has a client's channel count, a driver format, and
  `period_size = 8192 \div (channels * DriverSampleBytes(format))`.
- The lemmas: `SampleBytesAgree` (the translator's bits per sample over 8
  equal the driver's bytes for the translated format, for all six formats);
  `FrameExact` (without overflow, `MulU` is the exact product and is 0 only
  for 0 channels); `DivBounds` (`n - d < d * (n \div d) <= n`); then one
  lemma per action and `IInvBudget` (`IInv` gives the property).
- `2^Width` is hidden behind `UIntRange`, assumed in `Nat \ {0}` by
  `PcmFormatAssumption`, which TLC evaluates on `pcm_format_period_budget`.

### 5.3 `DeviceStateProofs.tla`

Built on `IInv` of section 5.1, under the same `WellBehaved`:

- `SingleDriverHandleCorrect`, `NoLockLeakCorrect`: the two properties of
  `RefcountsCorrect` stated on their own, as the runs check them.
- `DriverCallsCorrect`: `Spec => []DriverCallsOnLiveHandle`. A thread inside
  `pcm_prepare`, `pcm_stop` or `pcm_close` holds an open, or is the last
  closer; `IInv` then gives a live `pcm` (`LiveHandleFromIInv`, through
  `CountsNonZero`: a count is non-zero exactly when its session set is
  non-empty).
- `DeviceInvariantsCorrect` and `StartNeverRefusedCorrect` also assume
  `NoPrepareWrap` (`MaxPrepare < CounterMod`): fewer prepares pile up while
  the device stays open than `refcnt.prepare` can count. The run
  `prepare_count_wraps` shows the property fails without it, so the
  hypothesis is the one the code needs. Their strengthening `PInv` says:
  the first preparer enters `pcm_prepare` with `refcnt.prepare = 0`; a
  session that has prepared is counted in `refcnt.prepare`, which only the
  last close resets; a non-zero prepare count means the state is PREPARED
  or later and some session holds the device; a non-zero start count means
  STARTED. `AlwaysStateInv` proves `[](IInv /\ PInv)`.
- `Refinement`: `Spec => ImplementsSessions`, the refinement of
  `DeviceSessions` (section 2). Initial states map to the abstract initial
  state (`InitAbs`); under `IInv` each step maps to an abstract step or a
  stutter (`NextAbs`, one lemma per action: `OpenAbs` ... `ClosePcmAbs`).
  A non-first open maps to `Open` because `IInv` gives a live handle when
  `refcnt.open # 0`; the last closer's `pcm_close` maps to `CloseDriver`
  because the closer left `HeldBy` when it took the lock with the count at
  one. `DeviceSessionsProofs` proves the abstract promise
  `HandleWhileHeld` (`SessionsKeepHandle`).

### 5.4 `DeviceParamsProofs.tla`

`ParamsOwnedCorrect`: `Spec => []ParamsOwned` under `OneSetter` (at most one
thread calls `device_set_params`). Nothing is assumed of the other
sessions: out-of-order calls, unmatched closes and the alsa-lib
`device_open` are all allowed. With two setters the unlocked test, `free`,
`= NULL` and `calloc` of `dev_obj->params` double-free (section 4), so the
hypothesis is the one the code needs. The strengthening `POInv` says that
only setters are inside the call; between its `free` and its `calloc`
`params` is not live (and NULL just before the `calloc`); outside that
window `params` is never a freed pointer.

### 5.5 `ChannelMapProofs.tla`

`BuffersReleased`: `Spec => []NoBufferLeak` in the tinyalsa build
(`~AlsaLib`), for any set of threads. The alsa-lib build keeps the payload
on its error path (section 4), so the hypothesis is needed. The
strengthening `Holding` fixes, for each program point of
`device_get_channel_map`, which of `mixer_str` and the payload the thread
holds; each step changes one thread's facts only (`Own(t)`).

### 5.6 `RegistryProofs.tla`

Three theorems, each `ASSUME Quiet PROVE Spec => []P`, for any
`MaxLines` and `MAX_RETRY`:

- `NoListOverflowCorrect` (`P = NoListOverflow`);
- `RegistryExactCorrect` (`P = RegistryExact`);
- `DeinitSafeCorrect` (`P = DeinitSafe`).

`Quiet` is `~RegisterAnyTime /\ ~DeinitAfterFailure`: no card registers
while `parse_snd_card` reads, and `device_deinit` only follows a successful
`device_init`. The runs `registry_card_registers_mid_parse` and
`registry_deinit_after_failed_init` show each property fails without its
half, so the hypothesis states the environment the code needs.
`RegistryAssumption` also says that `Null` is not a pair of numbers, so
that NULL is the address of no device object.

**The argument.** `RegistryInvariant` proves `Spec => []RInv`. `RInv` has
one conjunct per program point of `device_init`:

- `NumBound`: the static `num_audio_intfs` grows by at most `MaxLines` per
  attempt, so it stays within the `MaxLines * MAX_RETRY` slots (`AttemptArith`);
- `Retry`: the retry counter stays in `1..MAX_RETRY` inside the loop;
- `AtIdle`: before the list is allocated no object is live;
- `AtParse`, `AtFree`: the list is live with length `num`, and `Parsed(count,
  pos)`: the first `count` entries are this attempt's objects for the
  probed lines among the first `pos`, in strictly increasing line order,
  the rest NULL, and the live objects are exactly these entries;
- `AtReturn`: on success `Parsed(num, lines)`, on failure nothing is live;
- `AtDeinit`: the entries from the loop index on are live and distinct.

`Parsed` is what makes the overflow bound and the exactness provable: the
parse stores at most one entry per line read, and `lines <= num`, because
no card registers between the passes. The lemmas are one per action
(`DeviceInitR` ... `LineR`, `EofR`, `FreeR`, `DeinitObjR`), `FreshObject`
(the object of the line being parsed is not yet live), `ParsedWiden`,
`SortedDistinct` (increasing lines give distinct entries, which
`device_deinit` needs to free each object once) and `Vacuous` (the
conjuncts of the other program points hold trivially). TLC checked `RInv`
as an invariant on three instances before the proof.

### 5.7 What stays with TLC

- **Liveness.** `InitReturns` (the retry loop ends) needs the fairness of
  the discovery thread and `ENABLED`; neither is in the prover's reach.
- **The violations.** `NoFdLeak`, `NoMixerLeak`, `DeinitSafe` and
  `NoListOverflow` outside `Quiet`, and the wraps are findings; TLC's counterexamples are what they show.
- **Out-of-order callers.** `RefcountMatchesClients` and `NoLockLeak` for a
  single client that calls out of order in the alsa-lib build
  (`lifecycle_single_session_unchecked`) are checked by TLC only: `IInv`
  ties each driver-call window to the stage the protocol requires
  (`Control`), which an out-of-order caller does not keep, and no
  invariant for that case has been written. `ParamsOwned` on that run is
  covered by `ParamsOwnedCorrect`.
- **`SysfsNotify`** has no passing run and no theorem: its only property is
  violated by the code.
- **`LookupsSound`** is not checked by a passing run: the off-by-one of
  `device_get_obj` breaks it (section 4).

## 6. Not modelled

- **The PCM driver and mixer** (tinyalsa, alsa-lib): outside this
  repository; every call succeeds or fails nondeterministically inside the
  action that makes it.
- **`device_set_metadata`** hands the blob to the metadata library, an
  external collaborator; **`device_current_state`** is one read with no
  state change. Neither has a property a model could add to.
- **`device_get_snd_card_id` and the logging** are reads and formatting.
- **Not yet:** a composition of the registry and the lifecycle
  (`device_deinit` while sessions hold devices, hazard `device.c:785`).
