# obsbotd in TLA+

obsbotd is a daemon that owns one OBSBOT camera and serves it to many MCP
clients.  This directory models the daemon, checks the models with TLC on
small instances, and proves with TLAPS, for every value of the constants, all
the invariants that the runs check, the order of service, and the safety half of
both refinements.  Some of the theorems have hypotheses on the
camera or its clients, which "The proofs" names.

    tlc -config Daemon.cfg Daemon            a run (see "The runs")
    tlapm DispatchProofs.tla                 its proofs (see "The proofs")

## The system

| part | code | state it keeps | operations |
|---|---|---|---|
| dispatch | `server.py` `_run`, `_lock` | the `asyncio.Lock` and its queue, the jobs of the thread pool | a call arrives, waits, runs in a thread, is answered or cancelled |
| motion tools | `server.py` `work()` closures, `camera.py` | none between calls but `_seq`; the locals of the method at work | snapshot, status, wake, sleep, move, recenter, position, zoom, ai_track, aim_at_pixel, zoom_to_fit |
| settings tools | same files | none but `_seq`; the camera keeps what is in force | ai_track_speed, focus, exposure, image_adjust, image_mode |
| the camera | external | where each axis is and is going; `uvcvideo` caches the pose last commanded | obeys commands later, reports a status block, loses its state when unplugged |
| media | `record.py`, `capture.py` | `_preview._proc`; the child processes | preview start and stop, record_clip, take_snapshot |
| discovery | `discovery.py` | none | `find_camera` scans `/dev/video*` on each call |
| aiming | `aim.py` | none | pure geometry |
| codec | `protocol.py` | none | frames, checksums, the status block, scaling to ranges |
| ioctls | `uvc.py` | a file descriptor for one access | open, one ioctl, close |
| entry point | `server.py` `main`, `systemd/` | none | configuration of the HTTP server |

A tool call is a coroutine.  It takes the daemon's one lock, hands a `work()`
closure to the thread pool and awaits it.  `work()` finds the camera anew
(`Camera.find`), then opens its node once for each access.  Nothing but the
lock orders the calls of different clients, nothing but the camera remembers
what they did, and the camera moves at its own pace: a command returns when it
is sent.  The video stream has one reader, so the preview window (a child
process that outlives the call that opened it) and the captures exclude each
other.

### What is hard here

* A thread cannot be interrupted.  A cancelled call frees the lock while its
  thread goes on using the camera.
* All knowledge of the camera is second hand: a status that may be late, a
  pose that is the last command, frames whose age nobody knows.  Between the
  calls of one client any other client may have moved the camera.
* Loops with deadlines (wake, zoom, AI mode) end in two ways that callers
  partly do not tell apart, and some errors in them are swallowed.
* The camera can vanish between any two accesses and come back under another
  node; several tools do more than one write.
* Windows die at any moment, and may not die when told to.

`PROJECT.json` lists these as hazards, each at its line and with the
properties that would catch it.

### What makes each part correct

* dispatch: one thread at a time; first come, first served; nobody is lost in
  the queue; each call is executed once and answered.
* motion tools: an aim at a current frame hits the pixel, or says that it was
  clamped; a sleeping camera is
  not used; tracking is not fought; `settled`, `matched` and `awake` are true;
  a refusal moved nothing; a success did everything; a lost camera is reported
  as such and nothing else is; each call ends.
* settings tools: what was answered is in force; nothing but what was passed
  is changed, also by a call that fails half way; no other device is written
  to; frames in a row have different numbers, never 0.
* media: no window is lost; stop frees the stream; a snapshot uses its
  attempts before it fails; a clip gives up only after the silent recording;
  each call ends.
* discovery: a camera that stands at its node and answers is found whatever
  happens at the other nodes; one that stands there and does not answer is
  reported as resetting, not as absent.
* pure functions: a frame is parsed to what it was built from and a damaged one
  is noticed; values and zooms are read back as they were set; a fitted region
  is in the frame; a JPEG is known to be whole and of which size; a snapshot of
  a 16:9 stream can be aimed by.

## The modules

    SerialService  <- Dispatch  <- DispatchProofs
                                <- Daemon (one Media for each thread)
    Media  <- Daemon
    Media, Picture  <- MCMedia
    Device  <- Camera
    Camera, Optics  <- MCCamera
    Discovery, Codec  <- Settings  <- MCSettings

    Codec, Optics, Picture  <- FunctionProofs  <- DamageProofs
    MCMedia, FunctionProofs  <- MediaProofs
    Daemon, DispatchProofs, MediaProofs  <- DaemonProofs
    Camera  <- CameraProofs
    CameraProofs, MCCamera, FunctionProofs  <- CameraTimelyProofs
    MCSettings, DamageProofs  <- SettingsProofs

**SerialService** is the abstract promise of `_run`: a queue of calls; the
first one's work begins, ends and is answered before the next one's begins.

**Dispatch** is `_run` with what it uses of `asyncio.Lock` and
`asyncio.to_thread`.  `task` is where each coroutine is, `locked` and
`waiters` are the lock, `submitted` and `threads` are the pool.  `ArriveFree`,
`ArriveBusy` and `Grant` are `async with _lock`; `Start` and `Finish` a thread
picking up and ending a `work()`; `Resume` the end of the await, which frees
the lock; `CancelWaiting` and `CancelRunning` a `CancelledError` at either
await (no `except` clause of `_run` catches it).  The refinement mapping to
SerialService puts the holder of the lock in front of its waiters.

**Device** is the camera, an external component.  `cam.now` is where each axis
(run state, pose, zoom, AI mode) is, `cam.goal` where it was sent, `cam.cache`
the pose `gimbal_get` reads.  A command sets a goal.  The axis gets there in a
step of its own (`Stows`, `Wakes`, `Arrives`), the zoom through what lies between
(`ZoomTravels`), the AI mode through a byte that does not decode (`AiLeaves`);
tracking moves the gimbal (`Follows`); sleep stows it, and waking levels it and
may start to track.  A nap of the program (`Nap`) passes the time of the axes
under way, and moves the zoom if `ZoomShows`.
Its facts come from the comments and documents of the repository: the header
of `camera.py`, the tools' docstrings, `docs/spec-tools.md` on `verifyFraming`
on wake and sleep, and on the zoom's travel, `docs/AGENT-GUIDE.md`.

**Camera** is the worker: one action for each access to the device with the
code up to the next one.  `pc` names the access, `reg` holds the locals.
Find, Look, SendWake, WakePoll, WakeSettle are `Camera.find` and
`ensure_awake`; Steady, SteadyAgain and Readback `_aim_preconditions` and the
computation of the aim, whose target is refused past vertical and clamped past
the end of the yaw, the one axis standing for both; Report, Sleep, Gimbal, ZoomSet, ZoomPoll, AiBefore,
AiWrite, AiPoll and Grab the methods of those names.  At each access `Try`
chooses between success, a camera that is not there (`gone`: the open or the
ioctl fails with ENODEV, ENXIO or ENOENT on the node) and the faults of the
configuration: `eio`, `pipe` (an OSError that is not a lost camera) and
`denied` (EACCES on open).  `Raise` is `_run`'s mapping of exceptions to
answers.  `frame` is what each client's last snapshot shows, which the daemon
does not know.  Between calls and between accesses the camera takes steps of
its own.

**Media** is the stream and its readers.  `window` is the life of each ffplay
process, `proc` is `_preview._proc`, `reader` the window that has the stream.
StartFails, StartOpens, StartEnds, StopTells and StopEnds are `Preview.start`
and `Preview.stop` around their waits; Snapshot, Grab and Retry are
`take_snapshot` and `_grab_raw_frame`; ClipFails, Clip and Record
`record_clip`, where each recording ends with an exit status of ffmpeg and with
something or nothing at the path of the clip, which is all that the code looks at.
`Stream` and `Exit` are the windows' own steps.

**Daemon** puts Dispatch and Media together: each thread of the pool has the
locals of a `work()` of its own (`thread[c]`), and all threads share the
windows and `_preview`.  PickUp and End are Dispatch's Start and Finish with
Media's Begin and Deliver, Step any step of Media's worker, Coroutine the event
loop.  Dispatch assumes that a thread ends and Media that calls are worked on
one at a time; Daemon assumes neither, and the run shows that it implements
both SerialService and Media, with their fairness.

**Discovery** is `find_camera`.  `todo` are the candidates of the scan in the
order of `sorted`, `saw` is `saw_camera_without_xu`, `fd` the open node.  List
is the `glob`, Open the open with `is_capture_node` and `card_name`, Probe
`_probe_xu_unit`; each may meet a fault and each is a step, between which Leave
and Come change what is at a node (nothing, the camera, its node without
capture, another camera), Hang and Recover whether the extension unit answers.
A descriptor whose device has left stays dead.  `luck` is how the camera fared
since the list was made; what fails at other nodes does not touch it.

**Settings** is the other `work()` closures.  `WorkOf` gives the accesses of a
call in order, each with what it sets: a vendor frame and a settings buffer
open the node each, the V4L2 controls of one method share a descriptor
(`Opening`).  Access is one of them: what it does depends on what is at the
node, or whether the descriptor is dead.  `force` is what is in force in the
camera, which ignores a face priority while the exposure is manual (the
docstring of `obsbot_exposure`), and a focus position and a white balance
temperature while these are automatic (V4L2's rule for such controls).

**Codec**, **Picture** and **Optics** are the pure functions: `protocol.py`
and `next_seq`; `is_complete_jpeg`, `jpeg_dimensions`, the scaled size and
`is_16_9`; the zoom's units and magnifications and `fit_magnification`.
Each module defines what the functions promise of one input (Survives, Scales,
Plausible, Fits, Whole, Aimable) and the set of sample inputs that fail it, and
the MC modules state that the set is empty, in the states in which the worker
rests: TLC takes a formula without variables for an assumption.  `Sizes` has the
frame as it is beside the scaled one, since `_scale_jpeg` may fail, and
`DefaultSizes` are what the second grab, which names no size, may get.

### What the models leave out

One gimbal axis stands for two; a pixel is one of three on a line, or outside
the frame, and the aim is linear in it, where `aim.py` composes rotations:
TLC has no real numbers, and the properties need only that an aim starts from
the frame's centre and is scaled by its zoom.  Zoom and field of view are one
scale of few steps, each more than the tolerance of one percent.  The checks
of `margin` and of the frame's shape are refusals before any access like that
of a pixel outside the frame, and `recenter` is `move` to 0.  `read_focus`
swallows its errors and changes nothing, so status ends with its pose.  Time is the
naps of the polling loops; `settle_ms` and the lengths of the final sleeps are
not modelled.  The windows that open where no display is, the microphone and
ffmpeg's outcomes are choices.

Floats are fractions with the rounding of Python's `round`.  Where the float
that is rounded may lie on either side of a tie (`_scale_jpeg`), both results
are allowed.  A ratio is a whole number of thousandths and a percentage a whole
number, as the clients pass them.  The five image controls are one.

`Camera.find` is one step in Camera, and the camera is found before Media's
calls begin: Discovery has the scan.  ffmpeg and ffplay are installed; without
them `take_snapshot` ends at its first attempt, with an OSError.

Daemon is checked without cancellation, for the reason given below.

Not modelled: ioctl structures, HTTP, allowed hosts and systemd, which are
configuration and I/O without a state of their own; the trigonometry; which
display and which microphone are found; GET frames, which no tool sends.

### What the models show beside the runs

The runs state what holds, and five of them what a comment or document promises
and the code does not do.  Of the following TLC has counterexamples, too, but no
run of its own reports them.

* A call that is cancelled leaves the lock while its thread goes on.  A preview
  start that is cancelled within its second has not stored its handle when the
  next one looks for it: two windows are open ("One ffplay window at a time",
  `record.py:115`), and one of their handles is lost.  So with `MayCancel = TRUE`
  neither ImplementsMedia nor Media's invariants hold of Daemon.
* A node that may not be opened is skipped by the scan (`discovery.py:69`) and
  answered as an unplugged camera, which "must NOT" be (`server.py:82-84`): in
  Camera, `reply = "unavailable"` with no error but `denied`.
* `record_clip` takes any failure of the recording with the microphone for the
  microphone's.  If a preview had the stream and is closed since, the clip is
  silent and the answer's note blames the microphone, though "Uses the camera's mic
  when available" (`server.py:535`).  In Media: a Record with `left = 2` that fails
  while a window reads, its Exit, and a Record that succeeds.
* The grab that follows a failed one of the native size names no size, and what
  it gets is answered as a snapshot: "snapshots always return 16:9 frames"
  (`server.py:159`) is not so.  EverySnapshotAims shows that the aiming tools refuse
  such a frame, however it is scaled, so nobody aims by it.
* A header whose payload length is damaged to 0 passes `parse_frame` (the header's
  checksum does not cover it), which DamageIsCaught exempts.
* A camera that loses its power between two accesses of one call and comes back at
  the same node keeps only the later writes, under an answer that says ok, which
  InForce exempts through `left`.

## The runs

| run | what it shows |
|---|---|
| `dispatch` | Daemon with 3 calls, 2 threads, 2 windows, no cancellation: `OneThread`, and it implements SerialService and Media, liveness included |
| `dispatch_cancel` | Dispatch with 4 calls and cancellation: `LockGuardsLive`, `QueueIsWaiting`, `FirstComeFirstServed`, `EveryCallEnds` |
| `camera_aim` | 2 clients, 5 calls of snapshot, move, zoom, aim and fit: `AimHits`, `SettledIsThere`; and Optics: `ZoomReadsBack`, `FitFits` |
| `camera_modes` | 2 clients, 5 calls of snapshot, move, sleep, wake, track and aim: `NoFight`, `AwakeForUse`, `WakeHonest`, `MatchedIsThere`, `TrackLands` |
| `camera_faults` | 3 calls of any tool, 2 faults, unplugs or replugs anywhere: `AnswerTellsDeeds`, `EveryCallAnswered` |
| `media` | 3 windows and any calls: `NothingLeaks`, `SnapshotPersists`, `ClipFallsBack`, `StopFreesStream`, `MediaAnswered`; and Picture: `CutIsNoticed`, `SizeIsOwn`, `EverySnapshotAims` |
| `settings` | 2 calls of any settings tool over 3 nodes, 2 changes of the bus, 1 fault: `InForce`, `OnlyPassed`, `OnlyTheCamera`, `NumbersDiffer`, `SteadyIsFound`, `ResetIsTold`, `SettingsAnswered`; and Codec: `ParseInvertsBuild`, `DamageIsCaught`, `ValuesReturn` |

Each property also has a mutant in its module (an operator marked `mutant:`),
a plausible slip in the code under which TLC finds the property violated.

Five runs end in a counterexample, where the code does not do what its
comments or documents say:

* `stale_aim`: the guards of an aim look at the camera, never at the age of
  the frame, so an aim at a frame that was taken before somebody moved the
  gimbal is accepted.  The tool says it refuses when the frame is stale.
* `aim_after_wake`: move, sleep, snapshot, aim.  The snapshot wakes the camera
  to level and shows it there, the aim starts from the pose commanded before
  the sleep and misses.  A fresh snapshot, the advice of the refusal after a
  wake, does not help: only a move or a recenter does.
* `loss_unreported`: `ensure_awake` takes a status it cannot read for an awake
  camera, so `obsbot_wake` says awake of a camera pulled out after the scan.
* `track_glitch`: when the read of the mode before a switch fails, `ai_track`
  takes that mode for a landing and answers in the middle of the switch.
* `tight_fit`: the zoom for a region is rounded to a unit.  With a margin of 0 or
  1 percent it may be half a unit too close, and the region that the tool says
  fits is cut at an edge.  FitFits says how much at most, at every margin.

### Bounds

* `Calls`: four calls are the holder of the lock, two waiters to reorder and
  one that arrives; the proofs drop the bound.  In Daemon three are enough for
  two threads at once and two waiters.
* `MaxCalls`: five calls are enough for the interference of another client
  between a snapshot and the aim at it, with one more on either side.  With
  faults on, three calls of one client are enough for a fault in any call and
  its effect on the next one.
* `PoseLimit`, `ZoomLimit`: with 2 and 3 an aim can be inside the range, at its
  end, and past it (refused or clamped), at four scales of a pixel, and a zoom has
  two levels to pass on its way.  The other runs do not
  depend on them and take the least values.
* `WakePolls`, `ZoomPolls`, `VerifyPolls` stand for 12, 30 and 30 reads: what
  matters is whether the camera's `Latency` is below them.  In `camera_aim` it is
  not: the zoom may need 3 naps and is polled once, so `zoom_set` ends while the
  zoom travels on into the next call, where only the second read of an aim can
  notice it.
* `MaxFaults`: two faults reach an unplug with its replug, an unplug after an
  error, and errors in both reads that one method makes.
* `Windows`: one to be replaced, one to replace it, one too many.
* `MaxAttempts` is the code's, but 2 in Daemon, where it only lengthens a call.
* `Nodes`, `AtFirst`: three nodes hold the camera, its second node and another
  camera, with the camera first, second and last in the scan and a free node to
  move to.
* `MaxChanges`: two changes are a device that leaves and another that takes its
  node, or a camera that moves from one node to another; `MaxFaults` in
  Settings: one error in any access, after which the call or the scan goes on.
* `SeqMax` 2 for 0xFFFF: a call sends one frame at most, so that two calls reach
  the wrap from a fresh start and cross it from just before.
* `MaxCalls` in Settings: two calls, so that a setting is changed and changed
  back; `Asked`: each tool in each of its forms, with levels and temperatures in
  the range and past both ends.
* Codec: all lengths of payload, four commands, four numbers; every one and
  every two neighbouring bits damaged in three frames; all percentages in 30
  ranges.  Optics: all 1001 ratios; regions of 16 by 9 steps, four zooms, five
  margins from 0 on.  Picture: all buffers of up to 6 of the 4 bytes that matter;
  five segments in each of two places before the size; four 16:9 streams and
  three 4:3 ones in all admitted resolutions.

### Assumptions on the camera

`SettledIsThere` and the refusals hold for any latency.  `MatchedIsThere` does,
too, of the AI switch itself, but a wake that comes after the loop has given up
on it may start tracking in the place of the mode that was matched.
`WakeHonest`, `AwakeForUse`, `TrackLands` and `NoFight` need a camera that gets
to a goal within the polls of the loop that waits for it (`Latency` 2 for a wake
and 1 for the rest, with 3 polls).  They also need `SleepShows`: with a status
that says awake for some time after a sleep command, a snapshot that follows at
once is taken of a camera on its way to the stow pose.

`AimHits` needs `ZoomShows`: a zoom under way is seen to have moved from one nap
to the next, which is what `_steady_status` relies on.  `docs/spec-tools.md:45`
says that the beat between the two reads detects a zoom of more than 12.5 points
a second and that 42 were measured.  In the time before a zoom starts to move
(`:137` has 140 ms, of another zoom command) both reads may show the same value,
and an aim is computed for a zoom that does not last.  How many naps the zoom needs
does not matter.  `AimHits` is checked where nobody sleeps, tracks or unplugs;
`aim_after_wake` shows why.

`camera_faults` assumes none of this: there `SleepShows` and `ZoomShows` are false
and loops run out of polls.

### Fairness

Dispatch: the event loop runs every coroutine that can go on (`Grant`,
`Resume`), the pool picks up jobs (`Start`), and a `work()` ends (`Finish`),
because every loop in it has a deadline and every child process a timeout.
The last is what `EveryCallAnswered`, `MediaAnswered` and `SettingsAnswered`
show of the three kinds of work, from the fairness of single steps, and Daemon
does without it: there each thread goes on with its steps (`Step`, `End`).  No client has to call and
nothing has to be cancelled.  Camera: the worker goes on (`Work`, `Deliver`)
and the camera gets where it was sent (`Settle`); tracking, travel, unplug and
replug are never obliged.  Media: the worker goes on, since each of its waits
has a limit, and a killed process exits; a window that is only told to
terminate need not.  Settings: the worker goes on; the bus need do nothing.

## The proofs

`DispatchProofs` proves of Dispatch, for every set of calls and any number of
threads:

* `TypeCorrect`, `LockProtects`, `QueueHonest`, `CameraExclusive`: TypeOK,
  LockGuardsLive, QueueIsWaiting and OneThread are invariants of Spec;
* `FirstServed`: FirstComeFirstServed, an action property;
* `RefinesSerial`: with `MayCancel = FALSE`, Spec implies Serial!Spec under
  the mapping of Dispatch.

The inductive invariant is the conjunction of the type, the lock's and the
queue's part.  None is inductive alone: that a granted call was waiting needs
the queue, that the queue holds no holder needs the lock, and that a lock
released by a cancellation leaves no job in the pool needs `submitted` to
belong to the holder.  `NextLock` and `NextQueue` prove the two parts action
by action; four lemmas say what Tail, Append and RemoveAt do to a queue
without repetitions.  OneThread follows from the lock's part, since a thread
without the lock belongs to a cancelled call and there is none.  The assumptions
are those of Dispatch: at least one worker, MayCancel a Boolean.

`CameraProofs` proves of Camera, for any clients, tools, ranges, latency,
polls, faults and unplugs:

* `TypeCorrect` (TypeOK), from two conjuncts: `AtWork` says which tool can be
  at which access and what its arguments are, `Counting` that a polling loop
  that goes on has polls left;
* `AnswersHonest` (AnswerTellsDeeds), from `Deeds`: what has been commanded at
  each access.  The property alone is not inductive, since it speaks only of
  answers.  Each action either goes on and keeps Deeds, or answers with what
  Deeds says of its `pc`; an error may come anywhere and claims nothing;
* `SettledHonest` (SettledIsThere), from `Sent`: while `zoom_set` polls, the
  zoom's goal is the target it compares with.  A read at the target is then a
  read of an axis that has arrived, and from there only a zoom command or an
  unplug starts it again.

`CameraTimelyProofs` proves what Camera promises of a camera that keeps its
times, for any clients, ranges, latencies and numbers of polls.  Its theorems
have hypotheses on the constants:

| theorem | hypotheses | what happens without them |
|---|---|---|
| `MatchedHonest` (MatchedIsThere) | no faults, `SleepShows`, `Latency["run"] <= WakePolls` | an unplug between the last read and the answer resets the mode; a wake that comes late may start tracking |
| `TracksLand` (TrackLands), `NeverFights` (NoFight) | those, and `Latency["ai"] + 1 < VerifyPolls` | the finding `track_glitch`; a switch that outlasts the polls |
| `UsedAwake` (AwakeForUse), `WakesHonest` (WakeHonest) | no faults, `Latency["run"] <= WakePolls`, `SleepShows` | a status that cannot be read is taken for awake (the cause of `loss_unreported`); the rest in "Assumptions on the camera" |
| `AimsHit` (AimHits) | no faults, `ZoomShows`, no client sleeps or tracks | the finding `aim_after_wake`; a zoom that passes for one at rest; an unplug resets the pose |

The runs `camera_aim` and `camera_modes` are instances of them.  The argument on
the modes is a count.  `Reliable` says that nothing is lost without faults.  Then
the run state and the AI mode are under way only while the loop that sent them
polls, and the naps still due are no more than those the loop has left
(`RunInTime`, `AiInTime`): each nap of the loop is one of the axis too.  So whoever
comes after the loop finds the axis at rest.  NoFight follows because tracking
moves the gimbal only in a mode that the aim's check would have read.

The zoom is not counted: it may be under way in any call.  `Measured` says that
between the two reads of an aim a zoom under way has left the value that was read
first behind (`Passed`), so that it is at rest if both are the same, and that from
there on the zoom read is the one the camera is at.  AimHits follows with `Still`
(the camera is awake and does not track, and the driver's memory of the pose is
where the gimbal is sent): the target is the pose of the pixel, clamped just if
that is past the end (`ClampedAway`).

`FunctionProofs` proves of the pure functions, for every argument, what the
runs try on samples:

* `ParseInverts`: `parse_frame` accepts what `build_frame` builds from any
  command, receiver, sequence number, flags and payload of up to 44 bytes, and
  finds them and the sender in it.  The lemmas put the frame together byte by byte and show
  that the bytes under each checksum are the same on both sides; of the
  checksum only its 16 bits matter;
* `LevelsKeepEnds`, `LevelsKeepOrder`, `LevelsReturn`, together `RangesScale`:
  the scaling of percentages to any range and back;
* `RegionFits`: a region in a frame of any size, at any zoom and with any margin
  is in the frame at the zoom commanded for it, but for half a unit of zoom and
  wholly if the margin is two percent or more, and fills it but for the margin and
  half a unit.  `AxisFits` bounds the rounding along one axis, `OtherAxis` compares the axes;
* `CompleteIsWhole`: `is_complete_jpeg` accepts exactly the buffers that start
  as a picture and end as one but for zeros.  `Unpadded` chooses where the zeros
  begin, so its existence is a least number (`LeastIn`: the sets of smaller
  numbers are well-founded);
* `SizeOfFirstSof`: `jpeg_dimensions` reads the size of the first SOF, however
  many segments and stray bytes are before it, and (0, 0) when the buffer ends
  without one.  The loop is a recursive function of the place in the buffer:
  that it has values at all is shown from the end of the buffer backwards
  (`DimensionsRead`), and what they are is followed part by part to the SOF;
* `SnapshotsAim` and `OddOnesRefused`: what `take_snapshot` returns of any 16:9
  stream, scaled or not, passes the shape guard, and of a 4:3 one nothing does.
  `SideNear` bounds the rounding of a side.

The two recursive functions, of `jpeg_dimensions` and of the checksum, need an
induction over a length.  The induction theorems of the library take an operator,
which the provers cannot instantiate; `AllNaturals` says the same of a set that
holds 0 and with each number the next, and has it from the least number outside
the set.

`DamageProofs` proves what a damaged frame is parsed to.  The register of
`crc16_usb` is a set of bits, and what eight shifts make of it is written down
bit by bit (`Stepped`):

* `DamageNoticed`: whatever a frame is built with, up to 44 bytes of payload, and
  whichever of its 480 bits, or two neighbouring ones, are flipped, `parse_frame`
  rejects the frame or returns what was sent, if the damaged length is as it was,
  or beyond the frame, or longer by one flipped bit (`Exposed`).  The register is
  linear.  When the frame and the damaged one both pass a check, the difference of
  their registers is fed the damage alone (`SectionsDiffer`), and it is never
  empty again (`BurstLives`); only the last bit of a checksum together with the
  first of the byte after it needs more, a table of what 44 bytes of zeros make
  (`TokenEdge`).  A length that is longer by one bit brings zeros under the
  checksum, which then has the wrong number of 1 bits (`LongerIsBad`);
* `NothingUnnoticed`: no damage of the frames of the run's sample escapes.  For a
  length that became shorter, or longer by two bits, the checksum is computed over
  other bytes than were sent and nothing general can be said: TLC and the prover
  compute it.  The 14 cases are tables of registers, each line one byte (`Chain`),
  which end in another checksum than the one that was sent (`NoneKept`,
  `FourKept`, `FiveKept`).

From them follow the properties of the runs: `FramesParse`, `DamagesCaught` and
`ReadAsSet` (ParseInvertsBuild, DamageIsCaught and ValuesReturn, in
SettingsProofs), `ZoomsReadBack` and `FitsAlways` (ZoomReadsBack and FitFits, in
CameraTimelyProofs), `CutsNoticed`, `SizesAreOwn` and `SnapshotsServe`
(CutIsNoticed, SizeIsOwn and EverySnapshotAims, in MediaProofs).

`MediaProofs` proves of Media, for any number of windows and attempts,
`TypeCorrect`, `NoWindowLost` (NothingLeaks), `SnapshotTriesAll`
(SnapshotPersists) and `ClipsFallBack` (ClipFallsBack).  NothingLeaks is
inductive once the types are known, so the guard of `Preview.start`, the store
of the handle and the kill in `Preview.stop` are all it takes; SnapshotPersists and
ClipFallsBack need `Stages`, that a grab or a recording under way is one of the
attempts that are left.

`DaemonProofs` proves of Daemon, for any calls, pool, windows and attempts:

* `RefinesDispatch`: the threads with the code in them still are a dispatcher,
  with or without cancellation;
* `DaemonIsSerial` and `RefinesMedia`: with `MayCancel = FALSE` the daemon
  implements SerialService, and its threads together are Media's one worker.
  The inductive invariant is the dispatcher's with `Rested`: a call that no thread
  works on has the locals of rest.  Since there is at most one thread, `Active`,
  the locals of the one that runs, changes by its steps alone; where it begins and
  ends it is at rest, which is where Media's worker begins and ends a call;
* `DaemonKeeps`: so the three invariants of Media hold of the daemon.  The proofs
  of Media are instantiated with those locals.

`SettingsProofs` proves of Settings and the scan in it, for any nodes, faults,
requests and changes of the bus:

* `SteadyFound` (SteadyIsFound) and `ResetTold` (ResetIsTold), from `Watched`:
  a camera that has stood since the nodes were listed is still to be tried, is
  being probed, or has been seen and did not answer.  `Min` picks the candidate,
  so that each Open removes one or probes it (`MinIn`: a nonempty set of
  candidates has a least one, by the well-foundedness of the subsets of a
  finite set);
* `CameraOnly` (OnlyTheCamera), from `Held`: unless the device has left, the
  camera is at the node from its probe to the last access of the call.  `Come`
  takes a free node and `Open` forgets what `left` said of another one.

It proves the rest of Settings, too, for any ranges, levels, temperatures,
requests, nodes and `SeqMax`:

* `FramesDiffer` (NumbersDiffer), from `Numbered`: the number of a frame is that
  of an earlier one and as many more as frames lie between, past SeqMax back to
  1.  Two numbers at most SeqMax apart in it cannot be the same;
* `PassedOnly` (OnlyPassed), `TypeCorrect` (TypeOK) and `AnsweredInForce`
  (InForce), from `ValueInv`.  Of each of the five tools `WorkOf` is shown to be
  good: no two accesses set the same setting, each value is in its range, and what
  the camera ignores in a mode comes after the switch out of it.  What is still
  planned is the end of such a work, and what was done is in place: an access
  disturbs no earlier one, so a call whose plan is empty has all it ordered in
  force.  InForce also needs that the values are the nearest the range has
  (`ScaledNear`, `KelvinClosest`).

The proofs use the ASSUMEs of Dispatch, Daemon, Device, Camera, Media,
Discovery and Settings, which say what a configuration is, and the hypotheses
above.  RefinesSerial, DaemonIsSerial, RefinesMedia and DaemonKeeps assume that
nothing is cancelled (`MayCancel = FALSE`), which OneThread says of itself.

Only model-checked is liveness, which is out of the prover's reach:
EveryCallEnds, EveryCallAnswered, StopFreesStream, MediaAnswered,
SettingsAnswered, and the fairness halves of ImplementsSerialService and
ImplementsMedia.

## Plan

Liveness stays with TLC.  Two theorems could say more than they do:

1. AimsHit with tools that sleep, where the aims between a wake and the next
   move are excepted: those are the misses that `aim_after_wake` shows.
2. The theorems of CameraTimelyProofs for cameras that fail in other accesses
   than the reads on which `track_glitch` and `loss_unreported` depend.
