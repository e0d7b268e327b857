# Verification of Gallium Nine Standalone

TLA+ models of `wine-nine-standalone`: the part of Gallium Nine that lives between a Direct3D 9
application under Wine, the Gallium driver (`d3dadapter9`) and the X server. The heart of it is
the PRESENT backend, which hands rendered buffers to the X server and learns from asynchronous
events when it may draw to them again. Around it are the devices with their windows and display
modes, the objects they are made of, and the tool that installs all of it in a Wine prefix.

Line numbers below and in the modules refer to files under `src/`.

## The system

| Component | Code | State | Operations | What makes it correct |
|---|---|---|---|---|
| PRESENT backend | `d3d9-nine/xcb_present.c` | `PRESENTpriv` (window, event queue, list of pixmaps, counters, geometry), `PRESENTPixmapPriv` per buffer, two locks and the flag `xcb_wait` | prepare and present a pixmap, wait for one or for any release, poll, create, free, change of window, destroy | a buffer is called released exactly when the server is done with it; no event is lost, stolen or counted twice; nothing blocks for ever |
| DRIPresent device | `d3d9-nine/present.c` | presentation parameters, display mode, saved style, focus window, flags | create, reset (`SetPresentParameters`), release, `device_process_message`, the buffer calls | mode, style and screen saver are restored; a failed reset leaves a consistent device; a device that lost its mode knows |
| Window procedure table | `d3d9-nine/wndproc.c` | table of window, original procedure, device | register, unregister, `nine_wndproc` | messages reach the device that is registered, and the window's own procedure in any case |
| Drawable cache | `present.c` 515-534, 675-740 | the X context from window handle to `d3d_drawable`, `context_section` | get (returns with the lock held), release, destroy | one drawable per window, never used after it is freed |
| Presentation groups | `present.c` 1425-1695 | reference counts, one presentation object per adapter of the device | create, add a swap chain, release | everything acquired is released once, also when creation fails |
| Adapter enumeration | `d3d9-nine/d3dadapter9.c` | groups, outputs, map from adapter numbers, reference count | find and remove groups and outputs, make the map, create devices | numbers lead to the right outputs, half-built groups do no harm, the object outlives its devices |
| DRI backends | `backend.c`, `dri3.c`, `dri2.c` | chosen backend; for DRI2 one EGL display with a reference count, a context and a list of pixmaps per backend | probe, create, init, deinit, destroy, import a buffer | a device's buffers stay on its list and the display is not given up while anybody uses it; both with limits, see "Properties and runs" |
| Configuration tool | `ninewinecfg/main.c`, `common/registry.c` | `d3d9.dll` and its backup in two system directories, two registry values | enable, disable, query | enable and disable undo each other, the original file survives |
| Debug ring | `common/debug.c` | ring of 1024 bytes, position | take a part | parts handed out at a time do not overlap |
| Rest | `device_wrap.c`, `d3d9_main.c`, `shader_validator.c`, `common/library.c`, build files | none | forwarding | see "Not modelled" |

How they interact: an application thread calls the driver, the driver calls the `ID3DPresent`
table. With `thread_submit` a second driver thread waits for buffers while the first one renders.
Several threads are therefore inside one `PRESENTpriv`, and all read one special event queue of
one X connection (`xcb_connection`), while presentations are sent over another one
(`xcb_connection_bis`). A presentation runs with `context_section` held (from
`get_d3d_drawable` to `release_d3d_drawable`) and takes `mutex_present` twice, not once. The
application's windows call back into a device through `nine_wndproc`, also in the middle of the
device's own calls. All devices of a process share the drawables, the window procedure table, the
screen saver, the display mode and one EGL display; devices of one adapter also share a backend.

What is hard to test: the order of the server's events, which differs with the completion mode
(copy, flip, skip); a thread that blocks for an event with `mutex_present` released and handles
it later; `PRESENTForceReleases`, which has to get every buffer back before the queue is
dropped; windows that move or die; a connection that breaks; resets that fail half way while
messages come in; applications that replace the window procedure; devices of several threads that
are made, fail and go in any order over shared objects; file operations that are cut short.
`PROJECT.json` lists each hazard with its line.

## Modules

| Module | Models |
|---|---|
| `XServerPresent` | the X server's side of the PRESENT protocol and the special event queue (not code of the repository) |
| `XcbPresent` | `xcb_present.c`, and the calls of `present.c` that lead into it |
| `XcbPresentProperties` | what the backend promises |
| `BufferRelease` | the abstract specification: who has a buffer, and how that may change |
| `XcbPresentProofs` | theorems: types, the lock protocol, who reads events |
| `XcbBufferProofs` | theorems: presentations, released buffers, the refinement of `BufferRelease` |
| `XcbCountProofs` | theorems: the counts of presentations whose complete event is to come |
| `XcbForceProofs` | theorems: `PRESENTForceReleases`, idle events |
| `MCXcbPresent` | model values, symmetry and thread roles for TLC |
| `WndProcTable` | `wndproc.c`, and what an application does to a window procedure |
| `PresentDevice` | the fullscreen side of `present.c`; extends `WndProcTable` |
| `PresentDeviceProofs` | theorems: types, messages and entries, what a device gives back, display modes |
| `MCPresentDevice` | requests and symmetry for TLC |
| `DriBackend` | `backend.c`, `dri3.c` and the shared state of `dri2.c`: operators, not steps |
| `Adapter` | the IDirect3D9 object of `d3dadapter9.c`; extends `DriBackend` |
| `Drawable` | the table of drawables of `present.c`: operators, not steps |
| `PresentGroup` | composes `Adapter` and `Drawable`: devices, groups and swap chains from creation to release |
| `PresentGroupProofs` | theorems: types, drawables, adapter numbers, lifetimes, buffers |
| `MCNineLifecycle` | displays, failures and symmetry for TLC |
| `NineCfg` | `ninewinecfg/main.c` with `common/registry.c` |
| `NineCfgProofs` | theorems: the original file, what a call achieves |
| `MCNineCfg` | names the instance for TLC |

### XServerPresent

`held[p]` is what the server does with a pixmap (nothing, `pending`, on the `screen`), `heldOn[p]`
the window it was presented to. `CompleteCopy`, `CompleteFlip` and `CompleteSkip` finish a
presentation in one of the three modes and send its events; `Forced` answers the copy with
serial 0 by which `PRESENTForceReleases` takes a flipped pixmap off the screen; `Notify` answers
`xcb_present_notify_msc`; `Configure` moves the window; `DestroyWindow` and `Disconnect` are the
failures. Assumed of the server, because the code says it relies on it:

- the events of one request arrive together; for a copy the idle event may come before or after
  the complete event (622: "on some paths the Xserver sends the complete event just after the
  idle event"; 303: "idle events are send with the complete events when it is not flips");
- what a presentation replaces on the screen becomes idle before the events of the presentation
  itself; the events of a forced copy (serial 0) come after that idle event;
- a notification with serial 1 (289-291) is sent after the complete events of everything
  presented before, one with serial 0 (274) before everything requested later;
- events are sent only to the queue that is registered; a window's death sends none.

Serials stand for pixmaps: serial 0 is `NoPixmap`, and a pixmap's serial is the pixmap. The
counter behind `PRESENTGetNewSerial` is not modelled.

### XcbPresent

The fields of `PRESENTpriv` and `PRESENTPixmapPriv` are variables of the same meaning
(`pending` is `pixmap_present_pending`, `completePending` is `present_complete_pending`,
`idleSince` is `idle_notify_since_last_check`, `special` is `special_event`); the linked list is
the set `listed`. `mutexPresent`, `mutexXcbWait` and `contextSection` hold the owner of a lock.
`pc`, `buf`, `dest`, `hand` and `todo` are a thread's position, arguments and locals. A step is
what a thread does between two points at which another thread or the server can make a
difference, so the unlocked window in `PRESENTwait_events`, each event of a flush and each
request of `PRESENTForceReleases` are steps of their own.

| Call | Actions |
|---|---|
| `DRIPresent_PresentBuffer` | `BeginPresentBuffer`, `PRESENTPixmapPrepare`, (the force actions, `PRESENTPrivChangeWindow`, `ChangeWindowSelect`), `FlushEvent`, `PrepareEnd`, `PRESENTPixmap` |
| `PRESENTForceReleases` | `ForceBegin`, `ForceHandshake`, `ForceDrain`, `ForceNotify`, `ForceWalk`, `ForcePixmap`, `ForceWait`, `ForceEnd` |
| `PRESENTWaitPixmapReleased`, `PRESENTWaitReleaseEvent` | `BeginWaitBuffer` or `BeginWaitEvent`, `WaitLock`, `WaitFlushEnd`, then `WaitReturn`, or `WaitBehind` and `WaitWake`, or `PRESENTwait_events`, `TakeEvent`, `HandleTaken` |
| `PRESENTIsPixmapReleased` | `BeginIsReleased`, `FlushEvent`, `PRESENTIsPixmapReleased` |
| `PRESENTInit`, `PRESENTPixmapInit`, `PRESENTTryFreePixmap` | one action each |
| `PRESENTDestroy` | `BeginDestroy`, the force actions, `PRESENTDestroy` |

The callers' contract, from the driver's use of the interface: no two calls are made on the same
buffer at a time (`Unused`); at most one thread waits (`ParallelWaits = FALSE`; "we'll never use
two PRESENTWaitPixmapReleased in parallels", 789) unless a run says otherwise;
`WaitBufferReleaseEvent` is called only while some buffer is out; the device is destroyed when no
call is in progress. `Calls` says which calls a thread makes.

Abstracted: `last_msc`, `last_target` and the target of a presentation (see "Not modelled"),
rectangles and regions, depth, the two connections' request streams (the answers say what is
needed of their order), out-of-memory of `HeapAlloc`. `PRESENTPixmapCreate`,
`PRESENTHelperCopyFront` and `PRESENTGetGeom` change no field and are left out.

### BufferRelease

A buffer is nobody's, the client's, the server's, or returning to the client. The refinement
mapping `Owner` (in `XcbPresentProperties`) tells it from both sides of the protocol: a pixmap
that the server holds is the server's; of the others, one that is not in the list is nobody's,
one with `released` set is the client's, and one without is returning. The mapped steps:

| `BufferRelease` | `XcbPresent` |
|---|---|
| `Create` | `PRESENTPixmapInit` |
| `Discard` | `PRESENTTryFreePixmap` when the record is freed |
| `Present` | `PRESENTPixmap` when the server accepts it |
| `Finish` | a completion (of the presented pixmap, of the one it replaces, or of both), a forced copy, the death of a window |
| `Learn` | `PRESENThandle_events` on an idle event, in a flush, a wait or the handling of a taken event |
| `Close` | `PRESENTDestroy` |

Everything else leaves the owners alone. In particular a buffer the driver destroys early stays
the server's and in the list, and an idle event that was dropped with the queue leaves
the buffer returning for ever, which `NoIdleLost` rules out when nothing fails.

### WndProcTable and PresentDevice

`table[w]` is the entry of window `w` with the fields of `struct nine_wndproc`; `wndproc[w]` is the
window's `GWLP_WNDPROC`, and `appPrev[w]` what the application's own procedure, if it put one in
front, calls next. The operations of the table are operators that run under `nine_wndproc_cs`.
`Receiver(w)` follows a message from the window to a device.

A device is a record of variables with the fields of `struct DRIPresent` (`life` tells a live one
from one that was freed, or that `present_create` leaves to nobody, 1474 and 1518). Style and
`style_ex` are one value, sizes and rates come from small sets, and `mode` is the one display mode
of the system.

| Code | Actions |
|---|---|
| `present_create` | `CreateBegin` (parameters, focus window), `CreateMode`, `CreateModeReturns` (mismatch cleared, style), `CreateEnd` (parameters taken over, backend) |
| `DRIPresent_SetPresentParameters` | `ResetBegin` (focus window), `ResetMode`, `ResetModeReturns` (mismatch cleared), `ResetEnd` (style, release of the focus window, size), or `ResetUnchanged` |
| `DRIPresent_Release` | `Release` |
| `device_process_message` | `Destroy` (WM_DESTROY), `Deactivate` and `Activate` (WM_ACTIVATEAPP); WM_DISPLAYCHANGE is `Heard`, part of each step that changes the mode |
| other programs, the application | `ThirdParty`, `Application` |

A call is cut where Windows may dispatch a message in the middle of it; `Dispatch` names the
positions. One of them is inside `ChangeDisplaySettingsExW`, when the new mode is there and the call
has not noted it (`cset`, `rset`). Sections with `filter_messages` set let only WM_DISPLAYCHANGE
through and are one step. `overtaken` is a history variable: the devices whose mode was replaced
in that place.
A message is one step and meets a live table: devices and their windows belong to one thread, as
Direct3D 9 requires of an application. Devices in several threads could free a device between
lines 121 and 126 of `wndproc.c`; this is a listed hazard that no property covers.

`set_display_mode` gives the set of what it may do: refuse a size of zero, leave a mode that suits,
change it, fall back to no refresh rate ("norate"), fail, or report success without a change when
the current mode cannot be read ("unknown"). The request it writes to is `initial_mode` when a
device leaves fullscreen, so the fallback loses the initial refresh rate, and the properties speak
of sizes.

### DriBackend, Adapter, Drawable and PresentGroup

One state machine in four modules; `PresentGroup` extends the others and has the specification.

- `DriBackend`: `display` and `displayRef` are the static variables of `dri2.c`, `context` is the set
  of backends whose GL context is alive and `pixmaps[b]` the list of a backend. Nothing locks
  them, so `dri2_init` and `dri2_deinit` go step by step, with `call[d]` for the place where the
  thread of a device is:

  | Code | Steps |
  |---|---|
  | `dri2_init` (278-320) | `GetDisplay`, `CountDisplay`, `InitializeDisplay`, then `CreateContext` or, after any call that fails, `InitFails` |
  | `dri2_deinit` (569-592) | `DestroyContext` (buffers and context), `Uncount`, `TerminateDisplay` if the count is zero |

  A count that two threads change at once may lose one change (`Counts`). `dri2_init` keeps its
  count when it fails and terminates the display (283, 318); `backend_probe` initialises without
  deinitialising. History variables: `doubled` has the DRI2 backends in use that had two users at a
  time, `spoiled` those that were in use when a `dri2_init` failed, and `overlapped` says whether
  two devices were ever in these calls at once. The constant `Overlap` lets them.
- `Adapter`: `groups` is the array with, of each group, its backend, whether the driver gave an
  adapter, and the number of outputs that stay; `map` is `adapter_map`. Numbers start from 1 where
  the code's start from 0. `FillGroup` is one turn of the loop of `fill_groups` and `MapGroup` one of
  the loop that makes the map.
- `Drawable`: `table` has the windows with an entry in the X context, `allocated` counts drawables
  in memory, `d3d[p]` is the pointer a presentation object keeps, or `Freed` if its
  drawable was freed since. A freed pointer that is read tells any window (`Told`). `getting[p]` is a call that
  creates a drawable without the lock.
- `PresentGroup`: `device[d]` is what `CreateDeviceEx`, the group and the driver's device keep;
  `presRefs` counts the references to a presentation object and `backend` tells whose it is.

| Code | Actions |
|---|---|
| `present_has_d3dadapter`, `d3dadapter9_new` | `LoadDriver`, `New`, `FillGroup`, `FillFails`, `FillEnd`, `MapGroup` (all under `Object`) |
| `d3dadapter9_CreateDeviceEx` | `CreateDevice`, `CreatePresent` for each object, `DriverCreates`, and after a failure `GroupReleases`, `DeviceGone` |
| `DRIPresentGroup_CreateAdditionalPresent` | `CreateAdditionalPresent` |
| `DRIPresent_PresentBuffer`, `SetPresentParameters`, `get_d3d_drawable` | `UseDrawable`, `DrawableCreated` |
| `DRIPresent_D3DWindowBufferFromDmaBuf`, `DestroyD3DWindowBuffer` | actions of the same names |
| `DRIPresent_Release`, `DRIPresentGroup_Release`, `d3dadapter9_Release` | `ReleaseSwapChain`, `GroupReleases`, `DeviceGone`, `ReleaseObject`, with the operators `DRIPresent_Release` and `Release` |

The driver's device is not code of the repository. Taken from how the code relies on it: it takes
over the reference to the group (565 releases it only when the driver failed), keeps a reference
to the IDirect3D9 object and to each presentation object it asked for, and destroys the buffers of
an object before it releases it. Each device is used by a thread of its own; no lock
covers these calls, so steps of two devices interleave freely, those of `dri2_init` and
`dri2_deinit` too where `Overlap` is set.

### NineCfg

`dst[a]` and `back[a]` are `d3d9.dll` and `d3d9-nine.bak` of an architecture's system directory:
absent, Wine's file, or nine's symlink. `override` and `redirect` are the registry values.
A run of the program is `pc`, the architecture it was started in (`own`) and the one it works in
(`at`: the program first starts the other architecture's with `-n` and waits). One step is one file or
registry operation, so `nine_set` is `OtherArch`, `DelRedirect`, `SetOverride`, then `CheckDst`,
`CheckBack`, `Rename` or `Remove`, `Load`, `Link` to enable, and `CheckLink`, `Unlink`, `LookBack`,
`Restore` to disable, and `Result`. `CommandLine` starts it, or `Click` in a dialog opened by
`load_settings`. Between any two steps the process may die (`Crash`: the parent, or the child alone)
and Wine may put a missing file back (`Update`). `Install` is `tools/nine-install.sh`, whose calls
of `ninewinecfg -e` are runs of `CommandLine`. Every operation may fail, as `Failures` allows.

## Properties and runs

| Run | Instance | Shows |
|---|---|---|
| `present_safety` | 2 threads, 2 buffers, 2 windows, copy, flip and skip, no configure events; 218 thousand states with symmetry | `TypeOK`, `OneReader`, `CompletesAccounted`, `ReleasedIsReleased`, `NoIdleLost`, `AllReleasedAfterForce`, `NoUnexplained`, `PreparedStays`, `ReleaseProtocol` |
| `present_live` | the same with flips only, one thread presents and destroys, one waits; no symmetry; 42 thousand states | `PresentReturns`, `WaitReturns`, `DestroyReturns` |
| `present_faults` | 2 threads, 1 buffer, 2 windows that move and die, a connection that breaks, parallel waits; 1.3 million states | `OneReader`, `CompletesAccounted`, `ReleasedIsReleased`, `PreparedStays`, `ReleaseProtocol` |
| `present_lockout` | 3 threads, two of them wait | violation of `PresentReturns` |
| `present_configure` | one configure event | violation of `AllReleasedAfterForce` |
| `present_geometry` | one thread, two geometries | violation of `GeometryTracked` |
| `device_modes` | one device, Ex or not, 2 windows, 2 sizes, 2 refresh rates, windows that die, another program that changes the refresh rate; 36 thousand states | `TypeOK`, `HearsMessages`, `ModeHeld`, `WindowedIsClean`, `DesktopRestored`, `ResetRestores` |
| `device_windows` | 2 devices on one window that dies and comes back, an application that subclasses it, failures of memory, mode, `PRESENTInit` and the client area; 1.6 million states with symmetry | `EntriesLive`, `OriginalReached`, `FailedKeepsSize` |
| `device_reset` | as `device_modes`, but no window dies and another program changes the mode | violation of `ResetRestores` |
| `ninecfg` | 2 architectures, one user, every failure, crashes and updates; 57 thousand states | `TypeOK`, `OriginalKept`, `Settled`, `CallWorks`, `ClickToggles` |
| `lifecycle` | 2 displays of three outputs of which one is bad, 2 devices, 2 presentation objects, 2 windows, every failure, no overlapping calls on the EGL display; 1.1 million states with symmetry | `TypeOK`, `MapRight`, `PresentsOutlive`, `BuffersUsable`, `DrawablesAccounted`, `NoFreedDrawable` |
| `dri2_shared` | one display on DRI2, no failures | violation of `DeinitHypothesis` |

- `OneReader`: at most one thread at a time can take an event off the queue.
- `CompletesAccounted`: `present_complete_pending` equals the complete events still to come,
  those in a thread's hand included, and `pixmap_present_pending` is their sum (the number of
  elements of `Outstanding`, the presentations waited for); so neither of the unsigned counters
  ever wraps. With windows that die it may only be too large.
- `ReleasedIsReleased`: a released, or freed, pixmap is not held by the server, and no idle event
  of it is on the way that could release its next presentation early.
- `NoIdleLost`: the converse, a pixmap that is not released is still held or exactly one idle
  event of it is on the way.
- `AllReleasedAfterForce`, `NoUnexplained`: what the comments of `PRESENTForceReleases` say, and
  its "Code bug" message, which is never printed.
- `PreparedStays`: what `PRESENTPixmapPrepare` established holds until `PRESENTPixmap`, although
  `mutex_present` is free in between (the question of present.c:1097).
- `ReleaseProtocol`: `XcbPresent` implements `BufferRelease` (below).
- `PresentReturns`, `WaitReturns`, `DestroyReturns`: the calls return, a wait unless the buffer
  it waits for is on the screen (only another presentation takes it off).

- `HearsMessages`, `OriginalReached`, `EntriesLive`: a fullscreen device gets the messages of its
  window; every message ends at the window's own procedure, not in `DefWindowProc` nor in a circle;
  no entry of the table names a freed device.
- `ModeHeld`, `WindowedIsClean`, `DesktopRestored`: a fullscreen device whose mode is gone knows it;
  a windowed one has no claim left; without devices the desktop is what it was. `ModeHeld` and
  `ResetRestores` except a device that is `overtaken`: a focus lost inside `ChangeDisplaySettingsExW`
  after the change takes the mode away again (407-423), then 853, 868 or 1498 clears the mismatch
  that was noted for it, and a device that is not Ex goes on without its mode and is never told.
- `ResetRestores`, `FailedKeepsSize`: a reset that succeeds brings the mode back; one that fails
  does not change the size.
- `MapRight`: adapter numbers and outputs correspond one to one, and groups are contiguous from their
  master adapter, as `GetDeviceCaps` tells it.
- `PresentsOutlive`: what a device uses is allocated.
- `BuffersUsable`, three statements about a presentation object of a DRI2 backend. A buffer is on the
  list, if the backend has one user, always: also when calls overlap and fail. There is a display to
  ask, if no two calls overlapped: also after a failed init. The display is up with the backend's
  context, if besides no `dri2_init` failed while the backend was in use. The conditions are
  there because the code does not do better. A failed `dri2_init` on one adapter terminates the
  display, and with it the contexts, of all devices in use (318): without the condition TLC finds
  it with two adapters in 14 states. And a `dri2_init` between `display_ref--` and
  `eglTerminate` of another thread (585-588) loses the display it has just set up: with
  `Overlap = TRUE` and without the condition TLC finds it, with no failure at all.
- `DrawablesAccounted`, `NoFreedDrawable`: one drawable per entry, none lost; no pointer to a freed
  one until two presentation objects came to share a window.
- `OriginalKept`, `Settled`: Wine's `d3d9.dll` is always one of the two files; without accidents
  each directory is enabled or disabled cleanly.
- `CallWorks`, `ClickToggles`: a call in which nothing fails has its effect in both architectures from
  any state; a click that works changes the box.

Two buffers and two windows are the least with which a flip replaces a buffer, a force releases a
buffer other than the one that is presented, and the destination changes back; two threads are a
waiting one and a presenting one. The third thread matters only for two waits in parallel
(`present_lockout`). `MaxQueue` bounds only configure events: the other events are bounded by the
requests. Deadlock is not checked in `present_*`: a thread may wait for ever for the buffer on the
screen when no one presents another one.

`device_modes` has no second device and no subclassing because `HearsMessages` and
`WindowedIsClean` do not hold with them (a shared entry goes with either device, `wndproc.c`:139 and
198); `device_windows` has both and one size and rate, since it asks about windows only. In
`device_modes` another program changes only the refresh rate: when it changes the size,
`DesktopRestored` cannot hold, and `ResetRestores` does not (`device_reset`). A failing change of
mode is left to `device_windows`: after one, nothing restores the mode. `Failures` of
`device_windows` leaves "backend" out, after which an entry does dangle (a listed hazard). Two
displays, devices, objects and windows are the least with which devices share or do not share an
adapter, an object is additional, and a window has two presenters; `MaxDisplayRef` (2, or 4 in
`dri2_shared`) bounds the count that failed inits leave behind. `Overlap` is `FALSE` in `lifecycle`:
with overlapping calls there are too many states, and of `BuffersUsable` only the list remains, which
`BuffersStayUsable` proves for them; the other properties do not depend on the display. It is
`TRUE` in `dri2_shared`. These specifications state no
fairness: they have no waiting in them, and their properties are safety.

Deadlock is not checked in `device_*`, where a device is created once and all may be freed, nor
in `lifecycle` and `dri2_shared`, where nothing happens without a driver. It is checked in `ninecfg`.

Fairness (`FairSpec` of `XcbPresent`, used in `present_live` and `present_lockout`): a thread inside a call goes on (weak fairness of `Continue(t)`); a thread
that wants a lock that is free again and again gets it (strong fairness at the positions where a
lock is entered, as critical sections wake their waiters); the server answers each
presentation, notification and forced copy (weak fairness of each). No call has to be made, no
window has to move, and nothing fails of necessity.

### Disagreements between comments and code

- **Two waits in parallel** (`present_lockout`). xcb_present.c:791 says of a second waiting
  thread "it would make it work in that case". It enters `mutex_xcb_wait` with `mutex_present`
  held. The first one waits for an event which only a new presentation would cause, and the
  presentation needs `mutex_present`.
- **A configure event in PRESENTForceReleases** (`present_configure`). 335 says "by assumption
  this can only be idle event"; configure events are selected on the same queue (389).
- **Geometry read before its events are selected** (`present_geometry`), lines 371 and 387.
- **A reset that does not restore the resolution** (`device_reset`). present.c:1347 says "A device
  reset is required to restore the requested resolution" after another program changed it. A reset
  with the same parameters finds nothing changed (815), moves the window and succeeds; the mismatch
  stays.
- **Not all textures are destroyed** (`dri2_shared`). dri2.c:562 takes it for granted when a backend
  is deinitialised, and 282 counts references "for multi device setups". But every presentation
  object of an adapter deinitialises the same `dri2_priv`: the first one that goes takes the buffers
  and the context of the others along.

## Proofs

`XcbPresentProofs`, checked by TLAPS for any threads, buffers, windows and modes, from
`ServerAssumption` and `ThreadAssumption` alone:

- `TypeCorrect`: `Spec => []TypeOK`. `TypeOK` is inductive; one step of the proof per action.
- `LocksHeld`: `Spec => []LockProtocol`. `LockProtocol` is the inductive invariant of the two
  locks: a thread is in a critical position exactly when it owns `mutex_present`; it is in
  `xcb_wait_for_special_event` exactly when it owns `mutex_xcb_wait`; `xcb_wait` is set exactly
  while some thread waits or has an event in hand, and that thread is the only one; a thread in
  `PRESENTForceReleases` past its handshake finds `mutex_xcb_wait` free, and nobody can take it
  because that needs `mutex_present`.
- `EventsNotStolen`: `Spec => []OneReader`, which follows from `LockProtocol` and is not inductive
  without it: that nobody waits when a flush begins is known only from `xcb_wait` and the lock.

`XcbBufferProofs` builds on these, under the same assumptions. Its invariant has three parts,
all in `XcbPresentProperties` (they hold in the instances of `present_safety` and
`present_faults`, too):

- `CallInvariant`: what a call may rely on. A buffer has at most one call in progress and is in
  the list during it; only a thread between `TakeEvent` and `HandleTaken` has an event in hand;
  during the destruction no other call is in progress.
- `WindowInvariant`: a presenting thread owns `context_section` from beginning to end, and the
  window of the backend is the one it presents to, or none, once it was changed.
- `BufferInvariant`: a pixmap the server holds is in the list and not released; a pixmap that is
  not in the list, or released, or held by the server has no idle event on its way; and at most
  one idle event of any pixmap is on its way, in the queue or in a hand. The last part is what
  makes it inductive: after one idle event was handled there is no second one that could release
  the next presentation.

From them:

- `PreparedHolds`: `Spec => []PreparedStays`. Nobody else is in a position to change the window
  while `context_section` is held, and `released` is unset only by the buffer's own call.
- `BuffersReleased`: `Spec => []ReleasedIsReleased`.
- `ReleaseRefined`: `Spec => ReleaseProtocol`, that is `Spec => Buffers!Spec` under `Owner`. The
  lemmas `BufferStutter`, `BufferFinish` and `BufferHandle` each treat one kind of step and give
  both the invariant and the abstract step; `BufferServer`, `BufferCall`, `BufferForce`,
  `BufferPresent` and `BufferContinue` bring each action of `Next` under one of them. The events
  are followed through the queue by `Appended`, `Read`, `Taken` and `Handled`.

`XcbCountProofs` counts events. Its invariants are `CountInvariant`, defined there, and those it names of
`XcbPresentProperties`:

- `CompletesCounted`: `Spec => []CompletesAccounted`, from the two assumptions, with windows that die
  and a connection that breaks. `CountInvariant` also says of a pixmap out of the list that no
  complete event of it is to come, so that a new record starts from zero rightly. That an event is
  counted once, as it is sent (`OwedSent`), taken by a thread (`OwedTaken`) and handled (`OwedRead`,
  `OwedHandled`), follows from lemmas about the number of events of a kind in a queue (`NumCat`,
  `NumTail`). The equality (while nothing is lost) needs what
  a change of window knows: `SpecialInvariant` (the queue belongs to the window of the backend),
  `SerialInvariant` (the answer with serial 1 is on its way at most once, and only for the thread that
  asked) and `OrderInvariant` (behind this answer nothing is pending), so that `PRESENTFreeXcbQueue`
  drops no complete event.

`XcbForceProofs` is about `PRESENTForceReleases`, while no window and no connection is lost (`Calm`) and
no configure event comes (`MaxQueue = 0`):

- `IdlesKept`: `Spec => [](Calm => NoIdleLost)`; `ReleasesForced`: `Spec => [](Calm =>
  AllReleasedAfterForce)`; `AllExplained`: `Spec => [](Calm => NoUnexplained)`; and
  `ForceReleasesAll`, the three without `Calm` when no window and no connection can be lost.
- The hypotheses are those the code relies on. A configure event is taken for the answer to a forced
  copy (`present_configure` shows it), and events of a lost window or connection never come.
- `ForceInvariant` is the argument of the function's comments, made exact. `OwedInvariant`: which
  answers the server owes, for which window and to a thread at which step; one pixmap is on the
  screen at most. `WalkInvariant`: the walk finds an empty queue, and a pixmap it is past is
  released by the server; after a forced copy nothing is held at all. `IdleKept`: an idle event is
  dropped neither by a reader nor with the queue. `FlipKnown`: a pixmap on the screen is known to
  be flipped, so that the walk forces it off, or its event is in the queue or in the hand of a thread
  that waits.

`PresentDeviceProofs`, for any devices, windows, modes and requests, from `TableAssumption` and
`DeviceAssumption`:

- `MessagesFindOriginal`: `Spec => []OriginalReached`. Its invariant `Reaching` says where nine's and
  the application's procedure may stand: nine's is in a window only with an entry to go on from, and
  the application's is in front of it or behind it, not both. `OriginalReached` alone is not
  inductive, since it says nothing of what `Unsubclass` will put back.
- `EntriesNeverDangle`: `Spec => []EntriesLive` if every device has a focus window (`WithFocus`) and
  no backend fails to initialise. Its invariant `EntriesKnow` says that an entry with a device is of the
  window the device wrapped, so that the device's release finds it. Both provisos are needed:
  without a focus window a device may wrap two windows one after the other.
- `MessagesHeard`: `Spec => []HearsMessages` for one device (`OneDevice`) under the same provisos,
  if the application leaves the window procedure alone. The invariant `Plain` says that nine's
  procedure is in exactly the windows that have an entry, and that a window the device wrapped has one;
  with `EntriesKnow` the entry names the device.
- `DeviceTypeCorrect`: `Spec => []TypeOK`. `Placed` says that a live device and a call under way have a
  window, and that the mode to go back to has a size.
- `WindowsGivenBack`: `Spec => []WindowedIsClean`, for one device that goes fullscreen in one window
  (`OneWindow`) and changes of mode that do not fail. `Dressed` follows the saved style: it is the
  frame of the window from the step that made the window bare to the one that gives it back.
- `DesktopGivenBack`: `Spec => []DesktopRestored`, for one device, while no other program sets a
  resolution (`DisplayAlone`) and a mode that names a size is granted (`ModesGranted`, with or without
  its rate). `Claims` says when a device wraps no window and who will switch the screen saver
  on again; `Home` that the mode to go back to is the desktop's.
- `FullscreenModeHeld`: `Spec => []ModeHeld`, and `ResetsRestoreMode`: `Spec => ResetRestores`, for the
  same and if the end of a call is not cut by a message (`Filtered`: `filter_messages` is set there,
  present.c:190, 217, 251, 885). `Held` says that a fullscreen device has its mode, knows that it has
  not, or has lost its focus window, and that it has its mode unless the next reset will set it
  again (`reapply_mode`). `ModeHeld` alone says nothing of `reapply_mode`, on which the next reset
  depends.
- `FailedResetsKeepSize`: `Spec => FailedKeepsSize`. The size of a live device is written by `Resize`
  alone; `CreateEnd` writes it while the record is still being created, which `Sized` keeps.

The provisos (`FullModes`: a fullscreen request names a size) are those of the runs `device_modes` and
`device_windows`; without one of `OneDevice`, `DisplayAlone` or `ModesGranted` the properties are false,
as the section on the runs explains and `device_reset` shows.

`NineCfgProofs`, for any failures, with one run of the program at a time (`OneUser`), and
architectures as in `ArchsAssumption` (one or two):

- `OriginalNeverLost`: `Spec => []OriginalKept`; `BackupNeverNine`: `Spec => []TypeOK`. The invariant
  `KeptInv` adds `Tested`: what a run found out about the files still holds when it relies on it,
  whatever Wine put back meanwhile. With two runs it is false: the second one moves the first one's
  symlink over the original.
- `TogglesSettle`: `Spec => []Settled`. Its invariant `Phase` names the directory a run is at work in
  and what is there at that point: `d3d9.dll` is missing and Wine's file is the backup.
- `CleanCallsWork`: `Spec => CallWorks`. The invariant `Working` follows a call in which nothing went wrong
  yet (`OnCourse`: the override is as asked from the step that writes it on, a removed `d3d9.dll` is still
  away when the symlink is made, an architecture's part ends with the architecture done) and keeps
  in mind that the other architecture was done before the program's own (`OtherFirst`). Earlier
  accidents do not matter, since nothing is assumed of the files when the call begins but `KeptInv`.
- `ClicksToggle`: `Spec => ClickToggles`. From `Working` and `Asked`: a click asks for the contrary of
  what the dialog shows.

`PresentGroupProofs`, for any displays, outputs, devices, presentation objects and windows, from
`AdapterAssumption`, `UsableAssumption`, `BufferPerPresent` and `DevicesFinite`:

- `DrawablesAreAccounted`: `Spec => []DrawablesAccounted`, which is inductive, written as an equation
  that each operation on the table preserves (`Accounted`).
- `AdaptersMapRight`: `Spec => []MapRight`. `MapInv` follows the creation of the object: `GroupsMade`
  (a group with outputs has an adapter and a backend of its own), `MapPhase` (what each phase has
  done) and `MapSoFar` (`MapRight` for the groups mapped until now, with room for the rest).
- `ObjectsOutlive`: `Spec => []PresentsOutlive`. `OutliveInv` counts references: `Owners` says that
  a presentation object has as many references as its device has to it (one from the group, one from
  the driver's swap chain), and that no two devices have one in common; `RefsRight` says the
  same of the IDirect3D9 object, the devices and the application. Together with `MapInv` a
  backend goes only with the object, and the object only after the last device.

- `FreedOnlyWhenShared`: `Spec => []NoFreedDrawable`. `Apart` says more of the time before two objects
  came to share a window: no two of them have one in common.
- `BuffersStayUsable`: `Spec => []BuffersUsable`, for `Overlap` either way. `UseInv` has `Listed` (what
  the one user of a backend finds on its list) without any condition on the display and, as
  long as no two calls overlapped, `OneCall`, `RefRight` and `UsersCounted`: the display's count is
  never below the number of users, one more while a call that has counted or not yet uncounted is
  under way (a failed initialisation may leave it too high), so that it comes to zero, and the display
  goes, only with the last one. `Kept` is what is left of the display for the others.
- `NineTypeCorrect`: `Spec => []TypeOK`. Not inductive by far: that no count falls below zero follows from
  all the invariants above and `SizeInv`. The count of the display is excepted once two calls that
  change it overlapped.

Model-checked only: liveness under fairness (`PresentReturns`, `WaitReturns`, `DestroyReturns`), which is
out of the prover's reach. Every safety and action property of a passing run is stated by a theorem,
those of `XcbForceProofs` and of one device or one user under the conditions named there.

## Not modelled

- The timing of presentations (`last_msc`, `last_target`, the target of a presentation): it decides
  when a buffer is shown, and nothing else depends on it but the assumption of xcb_present.c:291,
  which `XServerPresent` takes over.
- Display modes of outputs, the queries about them, and the calls that are forwarded to the driver's
  adapter: data that is read once and handed out.
- The position of windows and of drawables in them, z-order, cursors, gamma, formats.
- What the DRI2 backend does with GL, and the leak at dri2.c:505.
- A presentation to a NULL window, which PRESENTPixmapPrepare refuses after it bound it (613-618): the
  drawable comes from a window that has one (`get_wine_drawable_from_wnd`).
- Two devices in the properties that are about one: a screen saver or a window that another device
  took first (present.c:278) is followed for the table's entries, `OriginalReached` and
  `EntriesLive`, but not for `DesktopRestored`, `WindowedIsClean` and `HearsMessages`, which do not
  hold then. The destruction of a device after copies is covered by `present_safety` as far as
  safety goes; that it ends (`DestroyReturns`) is checked with flips.
- What a second presentation object does with a drawable that the first one freed, once they share a
  window: `NoFreedDrawable` speaks of the time before.
- The debug ring: one compare-and-swap. Whether a part is reused while it is printed depends on the
  ring's size and on how much is logged.
- `common/library.c` (one walk over a list of paths), `device_wrap.c` and `d3d9_main.c` (forwarding),
  `shader_validator.c` (a stub), build files and resources.

## What could follow

The theorems on one device for two devices with windows of their own; the conditions under which a
configure event does no harm to `PRESENTForceReleases`; message dispatch in several threads
(wndproc.c:121) as steps of `PresentDevice`; the timing of presentations.

Runs are kept few: one for each question, with the third thread, the second geometry or the
failures only where the question needs them.
