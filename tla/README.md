# TLA+ models of KWin's KMS and nested-Wayland buffer backends, GL platform detection and drag-source protocol objects

This directory holds TLA+ models of the parts of `src/` that carry concurrency,
protocol or buffer-ownership state. Each model is checked with TLC. Every
definition that models code is listed in `PROJECT.json` under `"map"`, with the
source lines it translates. The only exceptions are definitions marked
`spec_modelled`: they model code that is not in this repository (for example
`DrmProperty::initEnumMap`), and they are modelled from `spec.md`.

## The system and how its parts interact

The display path, as `spec.md` describes it:

1. A render backend asks a **layer** for a render target.
2. The layer takes a buffer from its **swapchain**, paints the damaged region,
   and presents the buffer.
3. For a DRM output, the **pipeline** turns the buffer into plane properties of
   an atomic **commit**.
4. It hands that commit to the device's **commit thread**, which waits until the
   target time and submits it to the kernel.
5. When a commit fails, the failure is posted back to the render thread.

When the backend is nested inside another Wayland compositor (the *host*), the
layers attach `wl_buffer`s to a host surface instead. The host owns an attached
buffer until it sends `wl_buffer.release`.

| Part | Source | State it keeps | Operations | Interacts with |
|---|---|---|---|---|
| Commit thread | `backends/drm/drm_commit_thread.cpp` | `m_commit`, `m_targetCommitTime`, mutex, condition variable, the thread's interruption flag | worker loop (check interruption, lock, wait, sleep to deadline, submit, report failure), `setCommit`, `replaceCommit`, destructor | render thread (hands over commits, receives `commitFailed`), kernel (`DrmAtomicCommit::commit`) |
| Property translation | `backends/drm/drm_property.h` | `m_enumToPropertyMap`, `m_propertyToEnumMap`, `m_isBitmask` | `valueForEnum`, `enumForValue`, `hasEnum`, `setEnumLegacy` | pipeline (builds commits), legacy mode-setting (`setPropertyLegacy`) |
| DRM object refresh | `backends/drm/drm_object.cpp` | `m_props`: one nullable property slot per definition | `updateProperties` | kernel (`drmModeObjectGetProperties`, `drmModeGetProperty`), gpu (atomic or legacy) |
| GPU layer | `backends/drm/egl_gbm_layer.cpp` | `m_scanoutBuffer`, `m_currentBuffer`, `m_currentDamage` | `beginFrame`, `endFrame`, `checkTestBuffer`, `scanout`, `currentBuffer`, `pageFlipped` | EGL/GBM surface, pipeline (test commit), dmabuf feedback |
| QPainter nested swapchain | `backends/wayland/wayland_qpainter_backend.cpp` | slots, each with `used` and `age`; `m_back`; the damage journal | `acquire`, `release`, `beginFrame`, `endFrame`, `present`, the `wl_buffer.release` listener | host compositor, shm allocator |
| EGL nested swapchain | `backends/wayland/wayland_egl_backend.cpp` | fixed buffer list with ages, `m_index` | `acquire` (round robin), `release`, layer `beginFrame`, `endFrame`, `present` | host compositor, GBM allocator |
| GL platform | `libkwineffects/kwinglplatform.cpp` | driver, chip class, feature flags (`m_supportsGLSL`, `m_limitedGLSL`, `m_textureNPOT`, `m_limitedNPOT`, `m_looseBinding`, ...), `m_recommendedCompositor` | constructor, `detect`, `cleanup` | the GL context (vendor, renderer and version strings, extensions); the compositor, which reads the recommendation and flags |
| Drag-source protocol objects | `wayland/extdrag_v1_interface.cpp`, `wayland/xdgtopleveldrag_v1_interface.cpp` | in each object: a `QPointer` to its data source, the dragged surface or toplevel; in the data source: the raw pointers `extendedDragSource` and `xdgToplevelDrag` | `get_extended_drag_source`, `drag`, `get_xdg_toplevel_drag`, `attach`, `destroy` of each, the destructors | the client (creates and destroys objects in any order), the compositor's drag code (reads the data source's pointers) |
| Gpu, pipeline, output | not in `src/`; the mock kernel and the tests in `autotests/drm/` | the outputs of each connector, their modes and reference counts; connectors, CRTCs, planes, pending and current state | constructor (atomic or legacy), `updateOutputs`, `ref`/`unref`, destructor; test and real commits, page flip | the kernel (connectors come, go, disconnect and change modes), output consumers, everything above |

### Hard behaviours, and the properties that make each part correct

- **Commit thread.**
  - *Hard behaviours:*
    - Two threads share one slot under a mutex.
    - The worker drops the lock while it sleeps, so a `setCommit` or
      `replaceCommit` can land in between.
    - A failure crosses threads through a queued invocation.
    - Teardown runs on the render thread while the worker may be anywhere in
      its loop.
  - *Properties that make it correct:*
    - It behaves as a single-slot mailbox.
    - Every commit that is handed over is submitted or superseded.
    - No commit is submitted before its target time.
    - Every failure is reported (not checked: it depends on the render
      thread's event loop).
    - Teardown stops the worker before the object's members are destroyed.
- **Property translation.**
  - *Hard behaviours:*
    - The non-const `QMap::operator[]` inserts keys.
    - The bitmask loop stops when the mask shifts out of the word.
    - `setEnumLegacy` reads the value at the key cast to 32 bits.
  - *Properties that make it correct:*
    - A supported value survives the round trip to the kernel and back.
    - The legacy path writes only registered values.
- **QPainter swapchain.**
  - *Hard behaviours:*
    - The host releases buffers asynchronously.
    - The swapchain is recreated when the output is resized.
    - Allocation can fail.
  - *Properties that make it correct:*
    - A slot is owned by one party at a time.
    - Buffer age makes the incremental repaint exact.
    - A failed allocation does not crash the compositor.
- **DRM object refresh.**
  - *Hard behaviours:*
    - The kernel's property list changes under hotplug.
    - A single property read can fail.
    - A refresh keeps existing `DrmProperty` objects, together with their
      maps.
  - *Properties that make it correct:* a successful refresh leaves every
    required property present, with the kernel's value.
- **EGL swapchain.**
  - *Hard behaviours:*
    - Buffers are taken round robin, without knowing which ones the host
      still holds.
    - The index is taken modulo the buffer count, which can be 0.
  - *Properties that make it correct:*
    - Buffer age is truthful.
    - A failed allocation does not crash the compositor.
- **GL platform.**
  - *Hard behaviours:*
    - The driver and chip are found by substring tests and regular
      expressions over strings from the driver, in a fixed order of tests.
    - The feature blocks run in sequence, and each overrides flags that
      earlier blocks set.
    - Version strings are split into tokens and indexed past a keyword.
  - *Properties that make it correct:*
    - A limited feature is a supported one, and only old chips are limited.
    - Compositing is turned off exactly for the hardware too old for it.
- **Drag-source protocol objects.**
  - *Hard behaviours:*
    - The client destroys objects in any order, and libwayland reuses their
      ids.
    - Each object registers itself in the data source through a raw pointer,
      and only the toplevel drag's destructor takes the registration back.
    - Two toplevel drags can name one data source.
  - *Properties that make it correct:*
    - The data source never points at a destroyed drag object.
- **GPU layer.**
  - *Hard behaviours:*
    - Direct scanout interleaves with rendering.
    - A test commit can fail.
    - `endFrame` returns void, so a failed render leaves `m_currentBuffer`
      stale.
    - Mode changes.
  - *Properties that make it correct:*
    - A client buffer is committed only after a test commit passed.
    - `checkTestBuffer` vouches only for a buffer of the current mode.
- **GPU and outputs.**
  - *Hard behaviours:*
    - Between two scans the kernel can unplug, replug and disconnect a
      connector, and change its mode list, in any order.
    - A connector's property refresh can fail.
    - A consumer can hold a reference on an output across the scan that
      retires it.
  - *Properties that make it correct:*
    - A scan leaves exactly one output for each connector that is usable,
      has modes and refreshed.
    - An output never loses its last known modes.
    - A referenced output is never freed, and a zombie is freed with its
      last reference.

## Modules

Modules are listed in order of importance. Each `MC*` module instantiates one
model with model values for TLC.

- **`CommitMailbox`** is the abstract specification of the commit thread: a
  single-slot mailbox. The render side may do three things:
  - put a commit;
  - replace the content of a full slot, learning that it succeeded;
  - be refused a replace when the slot is empty.

  The consumer takes exactly the commit the slot holds.
- **`DrmCommitThread`** (checked through `MCDrmCommitThread`) models the worker
  and the render thread.
  - *Worker actions.* Each `Worker*` action is one step of the loop in the
    constructor's lambda, in the code's order:
    - `WorkerCheckInterruption` (lines 20-22);
    - `WorkerLock` (23-25);
    - `WorkerWake` or `SpuriousWakeup`, leaving `wait` (25);
    - `WorkerCheckCommit` (27-30), which reads `m_targetCommitTime` under
      the lock and unlocks;
    - `WorkerReadTarget` (31), which reads `m_targetCommitTime` a second
      time, without the mutex, to compute the `sleep_for` duration;
    - `WorkerWakeFromSleep` (31);
    - `WorkerRelock` (32);
    - `WorkerSubmit` (34-40).
  - *Render-thread actions:*
    - `SetCommit` and `ReplaceCommit` are the two API calls.
    - `RequestInterruption` and `DestroyNotify` are the two halves of the
      destructor.
    - `DeliverFailure` is the event loop running the queued `commitFailed`.
  - *Variables.*
    - `lockHolder` is `m_mutex`.
    - `notified` is whether a `notify_all` has come since the worker began to
      wait.
    - `interruption` is the thread's interruption flag.
    - `now` is a bounded clock moved by `Tick`.
  - *Refinement.* The model instantiates `CommitMailbox` with
    `slot <- commit`, `delivered <- submitted` and `answer <- replaceResult`,
    and checks its `Spec` as the property `MailboxRefinement`.
- **`DrmProperty`** (checked as part of `DrmObject`, through `MCDrmObject`)
  models:
  - the two QMaps;
  - `valueForEnum`, as the recursive operator `ValueLoop`;
  - `enumForValue`, as `EnumLoop`;
  - `hasEnum` and `setEnumLegacy`.

  Words are `Width` bits wide, so that `mask <<= 1` wraps to 0 at the top bit.
  The 32-bit cast is modelled as `% 2^HalfWidth`. The registered maps come
  from `initEnumMap`, which is not in `src/`: they are constants of the MC
  module, one bitmask map and one plain enum map.
- **`WaylandQPainterSwapchain`** (checked through `MCWaylandLayers`)
  models the swapchain and the primary layer. Slot pixels are abstracted to the
  number of the frame they show, and the damage journal to the number of
  damages it has logged.
  - `BeginFrame` is the whole of `beginFrame`:
    - swapchain recreation on a size change;
    - `acquire`, as the operator `Acquire`;
    - the repaint of `accumulateDamage(age)`;
    - the crash on a null slot.
  - `EndFrame` is `endFrame`: it adds one damage to the journal.
  - `Present` is `present` followed by `release`, as the operator `Release`.
  - `BufferReleased` is the host's `wl_buffer.release`.
  - `Resize` is the host resizing the window.

- **`DrmObject`** (checked through `MCDrmObject`) extends `DrmProperty` and
  models the refresh of an object's property slots. The MC instance has two
  definitions: the enum property, required for legacy, and a plain property,
  required. `UpdateProperties` is the whole of `updateProperties`:
  - the early return when `drmModeObjectGetProperties` fails;
  - the matching loop, in which a property whose `drmModeGetProperty` failed
    counts as not found (the set `lost`);
  - keeping a slot with `setCurrent`, creating a new `DrmProperty` (a fresh
    map from `initEnumMap`), or resetting the slot;
  - the required-property check under atomic or legacy mode-setting.

  `KernelChange` is a hotplug or driver change of what the kernel reports.
  `UseProperty` is a caller using the enum property through its non-null
  slot.
- **`WaylandEglSwapchain`** (checked through `MCWaylandLayers`) models
  the EGL nested swapchain and its primary layer, with the same abstraction of
  pixels as the QPainter model.
  - `BeginFrame` covers recreation (`NewBuffers`: the constructor keeps 0, 1
    or 2 buffers, since each allocation may fail), the round-robin `acquire`,
    and the division by zero.
  - `Present` is `present` followed by `release`.
  - The host's releases change only `held`, because the code does not listen
    for them.
  - `beginFrame` has two early returns, on an `eglMakeCurrent` failure and on
    a missing format. They change nothing, so they are not separate steps.
  - Only `SupportsBufferAge = TRUE` is checked. Without buffer age, the
    region that gets repainted is decided by the scene, which is not in
    `src/`.
- **`MCWaylandLayers`** composes the two nested-Wayland primary layers. It
  instantiates both swapchain modules, each with its own renamed variables
  (`q...` and `e...`), and interleaves their steps: a step of one leaves the
  other unchanged. The two layers share no state in the code, so each
  behaviour of the composition is a pair of behaviours of the layers.
- **`GLPlatform`** (checked through `MCGLPlatform`) models
  `GLPlatform::detect`.
  - *Strings.* A string is abstracted to what the code asks of it:
    - the substrings of the code's `contains` tests that it contains;
    - the numbers its regular expressions extract (`HD nnnn`, `Xnnn`,
      four digits, `NVxx`, GeForce numbers, an integer token);
    - its length;
    - its text, where the code compares it whole.

    A renderer also has the prefixes of the code's `startsWith` tests and its
    space-separated tokens. A version string is its tokens.
  - *Detectors.* `detectRadeonClass`, `detectNVidiaClass`, `detectIntelClass`
    and the ARM detectors are operators. A run of `contains` tests that ends in
    a return is a group in a sequence, and `FirstGroup` takes the class of the
    first group that matches.
  - *`Detect` is the whole of `detect`*, composed in the code's order:
    - the extension and Mesa-version flags (`BaseFlags`);
    - the driver cascade (`DriverAndChip`, then `GalliumDriverAndChip`);
    - the feature blocks (`RadeonFeatures` to `LateFeatures`).

    A token read past the end of a token list is undefined behaviour, and
    `Detect` then ends in phase `undefined`.
  - *Other actions.* `Cleanup` is `cleanup` followed by the next
    `instance()`, which gives a platform with the constructor's values.
  - *The enumerations.* The order of `ChipClass` is taken from
    `chipClassToString8`; `kwinglplatform.h` is not in this repository.
- **`WaylandDragSources`** (checked through `MCWaylandDragSources`) models
  the two drag-source objects.
  - *Object lifetime.* Every object id has an incarnation number. `Create`
    starts the next incarnation; `Destroy` ends it. A raw pointer is the pair
    of an id and an incarnation, so a pointer to a destroyed object stays
    distinguishable from a later object with the same id. A `QPointer` reads
    as `Null` once its incarnation has ended (`QPointerGet`).
  - *Actions.* `GetExtendedDragSource` and `GetXdgToplevelDrag` are the
    managers' requests. Each includes its constructor (`ExtDragSourceCtor`,
    `XdgToplevelDragCtor`), which registers the object in the data source.
    `ExtDrag` and `Attach` store the surface or toplevel. The `Destroy...`
    actions are the `destroy` request and `destroy_resource`.
    `DestroyXdgToplevelDrag` includes the destructor `ToplevelDragDtor`.
  - *Environment.* The client also creates and destroys data sources and
    surfaces. Their interfaces are outside these files.
  - *Omitted.* A failed `wl_resource_create` posts `no_memory`, which ends
    the client, so it is not modelled.
  - *A header mismatch.* `datasource_interface_p.h` declares
    `extendedDragSource` but not `xdgToplevelDrag`, which the `.cpp`
    assigns. The model follows the `.cpp`.
- **`EglGbmLayer`** (checked through `MCEglGbmLayer`) models the DRM GPU
  layer together with the parts of the pipeline and the EGL surface it talks
  to. Those two parts are not in `src/`, so `Present`, `StartRendering` and
  `SurfaceFits` are modelled from the spec. Buffers are records: their
  origin (rendered or client), the frame they were made for, and their size.
  - `Scanout` has three outcomes: the import fails, the test commit
    succeeds, or the test commit fails.
  - `EndFrame` returns nothing, so a failed render still goes on to be
    presented.
  - `CheckTestBuffer` is the pipeline's request for a test buffer after a
    mode change.

- **`DrmGpu`** (checked through `MCDrmGpu`) models a DRM device with its
  outputs. It also models the kernel that the DRM autotests drive through
  `MockGpu` and `MockConnector` (`autotests/drm/mock_drm.h`).
  - *Spec-modelled.* `DrmGpu` and `DrmOutput` are not in `src/`, so their
    actions are written from `spec.md` (sections 3, 4.2, 7 and 8):
    `GpuCreate`, `UpdateOutputs`, `Ref`, `Unref` and `GpuDestroy`.
  - *From the code.* The kernel's state is the mock's. Its actions are the
    mutations the tests make in `drmTest.cpp`: `Unplug` and `Plug`
    (`connectors.removeOne`, `push_back`), `SetConnection`, `ClearModes`,
    `AddMode` and `SetDeviceCaps` (planes and the atomic capability).
  - *Outputs.* An output is the pair of its connector and a serial number,
    so a replugged connector's new output and its old zombie stay distinct.
  - *Status.* An output is `unborn`, `live` (in `drmOutputs()`), `zombie`
    (retired but still referenced) or `freed`.
  - *Refresh.* `UpdateOutputs` takes, for every connector, whether
    refreshing its properties succeeded. A failed refresh keeps a new
    connector from getting an output.

### Plan for later modules

- The two cursor layers, which share the swapchains above.
- A spec-modelled `DrmPipeline`. It would compose `EglGbmLayer` with
  `DrmCommitThread`: pending and current state, and test commits that must
  not change `current`.

## Runs

Every run listed under `"runs"` in `PROJECT.json`:

| Run | cfg | Expect | Checks |
|---|---|---|---|
| `commit_thread` | `MCDrmCommitThread.cfg` | pass | `TypeOK`; `MailboxRefinement`; `CommitEventuallyResolved`: a handed-over commit is submitted or superseded, unless teardown began |
| `commit_thread_early` | `MCDrmCommitThreadEarly.cfg` | violation | `NoEarlySubmit` |
| `commit_thread_teardown` | `MCDrmCommitThreadTeardown.cfg` | violation | `TeardownStopsWorker` |
| `drm_object` | `MCDrmObject.cfg` | pass | `RoundTrip`: `enumForValue(valueForEnum(e)) = e` for every supported `e`, after any lookups and refreshes; `RefreshSound`: a refresh that succeeds leaves every required property present, with the value the kernel reported |
| `drm_object_legacy` | `MCDrmObjectLegacy.cfg` | violation | `LegacyWriteCorrect` |
| `wayland_layers` | `MCWaylandLayers.cfg` | pass | `QAgeTruthful`, `EAgeTruthful`: in both nested layers, no buffer ever holds pixels mixed from different frames |
| `qpainter_owner` | `MCWaylandLayersOwner.cfg` | violation | `QExclusiveBuffer` |
| `drag_sources` | `MCWaylandDragSources.cfg` | pass | `ToplevelDragNotDangling`: a live data source's `xdgToplevelDrag` is null or a live drag, whatever order drags, data sources and surfaces are created and destroyed in |
| `gl_platform` | `MCGLPlatform.cfg` | pass | `FlagsConsistent`: a limited feature is a supported one, and limited GLSL only on Radeon before R600, NVIDIA before G80 and Intel before I965; `CompositingFollowsHardware`: NoCompositing exactly for Radeon before R600, NVIDIA before NV40, Intel before I915 and Adreno 1xx, on hardware that is neither a software renderer nor a virtual machine's |
| `gbm_layer` | `MCEglGbmLayer.cfg` | pass | `ScanoutTested`: a client buffer reaches a real commit only after its test commit passed |
| `drm_gpu` | `MCDrmGpu.cfg` | pass | `HotplugTracked`: after a scan, each connector has at most one live output; a live output's connector is listed and connected; a usable connector with modes whose refresh succeeded has an output. `ModesNeverLost`: a live or zombie output always has modes, and after a scan a live output shows its connector's modes whenever the connector has any. `OutputLifetime`: a referenced output is never freed, and a zombie exists only while referenced |
| `gbm_test_buffer` | `MCEglGbmLayerTest.cfg` | violation | `TestBufferFits` |

What the violations show (see `"findings"` in `PROJECT.json`):

- **`NoEarlySubmit`.** The worker reads `m_targetCommitTime` and sleeps until
  it with the lock dropped. Meanwhile `setCommit(c2, later)` replaces the
  commit. The worker wakes at the old deadline and submits `c2` early.
- **`TeardownStopsWorker`.** The worker reads the interruption flag without
  the lock. The destructor's `requestInterruption` and `notify_all` then both
  happen before the worker reaches `wait`, which has no predicate, so the
  worker waits forever.
- **`LegacyWriteCorrect`.** `valueForEnum(3)` on a property that does not
  support 3 inserts `3 -> 0`. `hasEnum(3)` is then true, and `setEnumLegacy(3)`
  writes 0 to the kernel.
- **`QExclusiveBuffer`.** `acquire` does not mark a newly allocated slot as
  used. After that slot is presented, the next frame acquires it again while
  the host still holds it.
- **`TestBufferFits`.** A frame is rendered in one mode, and then the mode
  changes. `checkTestBuffer` renders again because the surface no longer
  fits, and that render fails: `startRendering` fails and `endFrame` keeps
  the old buffer. `checkTestBuffer` then returns true for the previous
  mode's buffer.

Every property of a passing run also has a mutant in `PROJECT.json`: a
plausible bug in a mapped definition, under which TLC finds the property
violated.

- `WorkerSubmitNoReset` does not reset `m_commit` after the submit.
- `SetCommitNoNotify` drops `notify_all`.
- `NeedsOutputDuplicating` creates an output without looking for the
  connector's live one (breaks `HotplugTracked`).
- `KeptModesDropping` takes an empty mode list from the scan (breaks
  `ModesNeverLost`).
- `RetireFreeingAlways` frees a retired output even while it is referenced
  (breaks `OutputLifetime`).
- `ReplaceCommitUnguarded` replaces without checking that a commit is pending.
- `ValueLoopStrict` uses `integer > mask` as the loop condition.
- `RefreshedKeepStale` does not reset a slot that was not found.
- `ScanoutEarlyAssign` sets `m_currentBuffer` before the test commit.
- `ReleaseNoAging` does not age the other slots, in both swapchains.
- `RadeonFeaturesLimitedFirst` computes `m_limitedGLSL` before GLSL is cleared
  for chips before R300.
- `IntelFeaturesOffByOne` turns compositing off for I915 too.
- `ToplevelDragDtorNoClear` leaves the registration in place in the toplevel
  drag's destructor.

What the `gl_platform` run shows besides its properties: the context
`AMD Radeon R7 Graphics (CARRIZO, ...)`, a RadeonSI APU, is detected as R600G,
with chipset `AMD` and class `UnknownRadeon`. The R600G test matches the
substring `R7` before the RadeonSI test runs. The hazards in `PROJECT.json`
list this and the out-of-range token reads. No run states them as a property,
because the run budget is spent.

Three more defects that the models reach have no run, for the same reason:

- **EGL allocation failure.** If both allocations in the swapchain's
  constructor fail, `acquire` computes `(m_index + 1) % 0`; the model
  reaches it as phase `crashed`.
- **Extended drag source.** Its destructor is defaulted. A client that
  creates one and destroys it leaves the data source's `extendedDragSource`
  pointing at freed memory.
- **Extended drag surface.** `drag` keeps the surface as a raw pointer,
  which dangles once the client destroys the surface.

The toplevel drag has neither problem: its destructor clears the
registration, and it holds the toplevel in a `QPointer`.

## Bounds, and why they are enough

- **Commit thread.**
  - *Bounds:* three commits (model values), target times and a clock in
    `0..2`.
  - *Why this is enough:*
    - Two commits are needed for a replace during the sleep.
    - A third commit is needed to have a commit pending while a failure is
      still queued, and a replace after the worker's unlocked second read.
    - Times 0..2 give one sleep that a later `setCommit` can interrupt.
  - *Size:* about 270 000 distinct states, in about 30 s.
- **DRM object.**
  - *Bounds:*
    - two definitions;
    - kernel values `{0, 1}` or absent;
    - every subset of transient read failures;
    - the same maps and words as for the property translation, with enum
      inputs `{0, 1, 2, 3, 9, 36}`.
  - *Why this is enough:*
    - The input 9 is at least `2^HalfWidth`, so the 32-bit cast selects a
      different key.
    - Together the inputs cover supported values, unsupported values and
      combinations of bits.
    - The input 36 = 32 + 4 has the top bit of the 6-bit word, so the mask
      is shifted out to 0 and the loop must stop there.
  - *Size:* about 1.1 million distinct states, in about 46 s.
- **GPU layer.**
  - *Bounds:* four frames and two modes.
  - *Why this is enough:* one behaviour can hold a scanout, a failed test, a
    failed render, a present and a mode change.
- **Nested Wayland layers** (both swapchains, composed).
  - *Bounds:* five presented frames per layer, at most three QPainter slots,
    two output sizes, and a journal capacity of 10 as in `DamageJournal`.
  - *Why this is enough:*
    - A QPainter slot can reach age 3, be reused after the host released it,
      and be thrown away on a resize.
    - An EGL buffer goes through two full rounds of a two-buffer swapchain,
      with a resize in between.
  - *Size:* about 1.1 million distinct states, in 15 s.
- **GL platform.**
  - *Bounds:* 32 contexts, every subset of the five extensions the code
    tests, and both platform interfaces.
  - *The contexts:*
    - the sample strings quoted in the code's comments;
    - one or more renderer strings of every driver the cascade recognises:
      classic Radeon and Intel, fglrx, the NVIDIA blob, r300g, r600g,
      radeonsi, nouveau, llvmpipe, softpipe, swrast, SVGA3D, virgl,
      VirtualBox, Adreno, Panfrost, Lima, VC4 and V3D;
    - an unknown GPU.
  - *Why this is enough:* every branch of the cascade is taken, and chips on
    both sides of every threshold the feature blocks test appear: R200/R300,
    R300/R700, NV10/NV30/NV40/GF100, I8XX/I915/I965, and Adreno 1xx/5xx.

- **Drag-source objects.**
  - *Bounds:* one data source, one surface, one extended-source id and two
    toplevel-drag ids, with every id bound at most twice.
  - *Why this is enough:*
    - Two drags can name one source, and be destroyed in either order.
    - Every id can be reused after its object is destroyed, so a stale
      pointer can meet a newer object with the same id.
  - *Size:* about 140 000 distinct states, in 2 s.

- **GPU and outputs.**
  - *Bounds:* one connector, two modes, three outputs for it, two
    references per output and one `DrmGpu` object.
  - *Why this is enough:*
    - The model decides each connector from its own state, so a second
      connector only multiplies the states.
    - Three outputs let a connector be replugged twice while the zombies of
      its earlier outputs are still referenced.
    - Two modes let a mode list change, and not only appear and disappear.
    - The kernel may change the capabilities before the one `DrmGpu` is
      created, so both the atomic and the legacy constructor are reached.
  - *Symmetry:* the two modes are interchangeable (`ModeSymmetry`); the run
    checks only invariants, so the reduction is sound.
  - *Size:* about 72 000 distinct states, in a few seconds.

## Fairness

- **Commit thread.** The specification assumes weak fairness of:
  - *the worker's steps:* the thread runs at `TimeCriticalPriority` and never
    blocks except in `wait` and `sleep_for`;
  - *`Tick`:* time passes;
  - *`DestroyNotify`:* a destructor that has started runs to its end.

  The render thread's actions, `DeliverFailure` included, have no fairness:
  nothing obliges it to hand over more commits, and whether it runs the
  queued `commitFailed` depends on its event loop, outside the repository.
- **Other models.** The other modules, `DrmGpu` included, check only
  safety and assume no fairness: hotplug, scans and consumers' `unref`s are
  free not to happen.

`CHECK_DEADLOCK FALSE` appears only where the program really stops:

- The commit thread idles in `wait` once the bounded supply of commits is used
  up.
- The swapchain models stop after the crash of a failed allocation.
- The GL platform model stops when `detect` reads past a token list, which is
  undefined behaviour.
- The drag-source model stops once the client has bound every id as often
  as the bound allows and destroyed its objects. The server then only waits
  for requests.
- The GPU layer model checks deadlock: at the frame bound, mode changes and
  test buffers stay possible.

## What is not modelled, and why

- **Pipeline.** `DrmPipeline` is not in `src/`. The spec says little about
  it beyond prose, and only one test exercises it, asserting that
  `present()` succeeds. `DrmGpu` and `DrmOutput` are spec-modelled in
  `DrmGpu`.
- **Commit thread teardown without a join.** The destructor does not join
  the worker. The model interleaves the destructor's steps with the
  worker's but does not track the lifetime of the members, so a use after
  destruction is not stated.
- **Slot field defaults.** `WaylandQPainterBufferSlot`'s header is not in
  `src/`. The model takes its fields `used` and `age` to start as `false` and
  `0`, the defaults `spec.md` implies for a fresh slot.
- **Image validity after mmap.** A slot whose `mmap` failed keeps a null image
  and is still used. The model does not track image validity.
- **Versions in GL detection.** The X server, kernel, GLSL and driver
  versions are only stored and printed. `Version::parseString` is not in
  `src/`; the model keeps only whether the Mesa and Gallium versions are
  valid, because `isMesaDriver` selects loose binding on EGL.
- **Failed resource creation in the drag managers.** It posts `no_memory`,
  which ends the client.
- **Outside the KMS backend.** The other Wayland protocol interfaces (for
  example screen edges, which only emit signals and hold a `QPointer`), effect
  configuration, KCMs, scripting and the scene renderer have no state that
  the properties here depend on.
- **`utils/common.h`.** It holds declarations: enums, flag operators, the
  X server grab helpers and the prototypes of conversions defined elsewhere.
  It has no behaviour to model.
- **The Wayland backends' cursor layers and output maps.** The cursor
  layers hand a buffer to the host's cursor and release the slot in the
  same `endFrame`; the slot stays `used` until the host's release event, as
  for the primary layer. The backends look outputs up with `operator[]`.
  The cursor layer would be a third
  independent layer in the `wayland_layers` composition, whose state space
  is the product of its layers. Whether a removed output is ever looked up
  depends on callers outside the repository.
