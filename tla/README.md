# A TLA+ model of steam-stream-server

The repository packages a Moonlight game-streaming host in a container:
`server/` is the C++ server a Moonlight client pairs with, launches an app on and
streams from; `rootfs/` holds the shell scripts that prepare the container;
`config/encoders.toml` is its user-editable encoder configuration. The modules
here model the server's control: its threads and what they share, its
handshakes, what survives a crash, and the packets it makes. Paths below are
relative to the repository; `S/` stands for `server/src/server/`.

## 1. The system

### Threads and shared state

`S/main.cpp` starts four servers, each on one thread:

| thread | serves | shared state it changes |
|---|---|---|
| HTTP | pairing, PIN page, `/unpair` | pair cache, paired clients, `g_pending_pins` |
| HTTPS | `/launch`, `/resume`, `/cancel`, serverinfo | session registry, session keys, `media_holder` (through `stop_session`) |
| RTSP | OPTIONS, DESCRIBE, SETUP, ANNOUNCE, PLAY | session parameters, `media_holder` |
| control (ENet) | input, IDR requests, TERMINATION | `media_holder`, the compositor, virtual gamepads |

To these come a detached thread for every phase-1 pairing request that waits for
a PIN, for every start of media one that waits for the compositor and launches
the app, two that listen for the client's RTP pings, one that mirrors the cursor
and GStreamer's streaming threads; and the app itself, a process group that only
signals reach. A session is created by `/launch`, gets its parameters from
ANNOUNCE, its media from PLAY, input and stop requests through ENet, and goes
with `/cancel`. The registry, `media_holder` and the pair cache have a mutex each;
a media object has none but the one of its gamepads.

### Components

| component | state | operations | what makes it correct |
|---|---|---|---|
| session registry (`S/session.hpp`) | sessions, their owner and keys | add, remove, lookups | one session per client; every lookup that decides a stop or a resume finds the right one |
| media object (`S/media.cpp`) | two pipelines, app pid, gamepads, audio key | start, stop, retarget, rebuild_audio, destructor | stopped by one thread, closed before it is freed, never stopped for another session |
| app (`S/launcher.cpp`) | process group | launch, setsid, exit, kill | one app at a time; gone when its media is gone, or signalled with all there is |
| UDP sinks and the audio of a resume (`S/media.cpp`, `gst-plugin/audio.hpp`) | RTP destination, key and iv in session and payloader | ping, send, retarget, rebuild_audio | sends only to who pinged; settles on the client, under its own key |
| stream parameters (`S/rtsp_commands.hpp`, `S/media.cpp`, `pulse-sink.sh`) | rate, VBV, channels, speakers, sink layout | ANNOUNCE, start, update_bitrate, rebuild_audio | what runs is what was negotiated last, and fits the client's budget |
| pairing (`S/servers.cpp`, `S/moonlight_proto.cpp`) | pair cache, PIN pages, waiting threads | four phases, PIN entry, timeout, unpair | a client is paired by its own PIN only; requests are answered |
| identity and state (`S/state.cpp`, `crypto/src/x509.cpp`, `entrypoint.sh`) | key, certificate, uuid, paired clients on disk | boot, save, migrate | nothing saved is lost, and the identity never changes under the clients |
| RTSP server (`S/rtsp_server.cpp`, `S/rtsp_commands.hpp`) | bytes read, session parameters | read, parse, dispatch, answer | a request is handled once, whole, and answered |
| video payloader (`gst-plugin/video.hpp`) | sequence and frame numbers | split, FEC, headers | every frame can be put together and repaired |
| audio payloader (`gst-plugin/audio.hpp`) | sequence numbers, four packets, key | packet, FEC, new key | FEC covers the packets it names; one key per packet |
| encoder configuration (`S/encoder_config.cpp`) | `encoders.toml` | seed, load, select, reload | the pipeline links; the codec is one the client knows of |
| gamepads (`S/uinput.cpp`, `S/fake_udev.cpp`) | devices, faked udev records, chord state | create, destroy, update | the records match the devices; a press has one outcome, Home never sticks |
| pointer sync (`S/pointer_sync.cpp`) | last cursor position, time of client activity | watch, poll, inject | follows the app's cursor, does not fight the client's mouse |
| control packets (`S/control_packets.hpp`, `S/control.cpp`) | connected peers | input, IDR, TERMINATION | the right packet reaches the right device of the right session |
| XML, crypto wrappers, HTTP plumbing, logging | none that lives on | | not modelled: formats and library calls |
| container scripts, Reed-Solomon, build, tests | | | not modelled, but for the migration in `entrypoint.sh` |

What is hard: three threads stop and replace media objects that a fourth starts,
with a teardown of up to 22 seconds that holds no lock; a launcher that learns
the app's pid after somebody may have wanted to kill it; PIN pages that outlive
their handshake; crashes between two renames; FEC limits that only some frame
sizes reach; TCP segments that end anywhere; minor numbers the kernel reuses.
`PROJECT.json` lists each hazard at its line with the properties that watch it.

## 2. The modules

    SessionRegistry <- MediaSession <- SessionLifecycle <- SessionApps (with AppProcess)
                                        |                    ^
                           MediaLifecycle (abstract)   SessionLifecycle_proofs
    RtpSink <- AudioResume               <- AudioResume_proofs
    EncoderConfig <- StreamParams (<- MCStreamParams)  \
    VideoPayloader, AudioPayloader <- RtpStreams     <- Streams_proofs
    PointerSync, GamepadChord <- ControlInput        <- ControlInput_proofs
    Pairing (<- MCPairing)                           <- Pairing_proofs
    IdentityStore    <- IdentityStore_proofs
    RtspConnection   <- RtspConnection_proofs
    VirtualPads      <- VirtualPads_proofs

`A <- B` reads: B extends A. MCPairing and MCStreamParams hold constants of their
runs; the configurations of the others say theirs.

**SessionRegistry, MediaSession.** Operations on the registry and on one media
object, as actions on their variables. A session is a number in order of
creation, its owner an address, its AES key a model value. A media object has a
life phase (`none`, `live`, `dying` while its destructor runs), an owner session
and what it holds open: `video`, `audio`, `pads`.

**SessionLifecycle** composes them into the three threads. `pc[t]` says where a
handler stands, `arg[t]` its session, `ref[t]` the `shared_ptr` it holds, `ret[t]`
where it continues after it lets that go. Handlers are cut where the code takes or
releases `media_mtx` or the registry's mutex, reads an atomic, or runs long
without a lock; between two cuts the code touches nothing another thread sees.
`shared_ptr` counting is explicit: dropping the last reference runs the
destructor, which runs `stop()` again, on whichever thread that is. Input or a
retarget that meets elements `stop()` has released is undefined behaviour in
the code; the model lets the process crash there (`Crash`), which ends
everything it held, or carry on.

**MediaLifecycle** is the abstract specification: an object is absent, building,
current or retired; at most one builds and at most one is current; it is freed
only when retired and empty. `SessionLifecycle!ImplementsLifecycle` is the
refinement (`stage` computed from phase, holder and PLAY's position).

**AppProcess, SessionApps** add the detached launcher and the app's process
group: the launcher stores the pid in a step of its own, the child calls
`setsid` in another, and `stop()` polls for the group: after SIGTERM until it is gone or
the polls run out (`EscalateApp`), after SIGKILL likewise, and then it goes on with
an app that is "still lingering". They extend the steps of SessionLifecycle
instead of changing them.

**Pairing** has handshakes as records of what client and server know; a key is
the salt and PIN it was derived from, a hash the secret, challenge and certificate it
covers. The cache is keyed by the uniqueid the client sends and its address, as in
the code; two devices that send one uniqueid from one address share an entry, go on
from each other's, and the certificate that is added or unpaired is the entry's.
`home` places the devices. `Waiter` is the detached thread that waits 180 s for a PIN.

**IdentityStore** is the disk: files are replaced step by step (temporary file,
rename), a crash may fall between any two, any write may meet a full disk. Boot, first
start, pairing, unpairing (memory first, then the file, whose error is ignored) and the
migration of `entrypoint.sh` are the operations.

**RtspConnection**: a request is known by the byte at which each of its parts is
complete, and arrives in any segmentation. One thread runs all handlers and is
busy during PLAY. There is no timeout in the model because the deadline of the
code is cancelled as it is armed (`rtsp_server.cpp:67-73`).

**RtpSink, AudioResume**: `RtpSink` is one UDP sink between its listener thread,
the streaming thread and `retarget()`; pings are lost, repeated and late.
`AudioResume` extends it with what a reconnecting client changes while packets
flow: the HTTPS thread hands out a key, PLAY on the RTSP thread stops the old
pipeline, builds one with another layout (which may fail), drops the destination
and pushes key and iv into the payloader in two steps, and the streaming thread
derives the iv, encrypts and sends in three. A pair of key and iv is the number
of the connection it belongs to.

**VideoPayloader, AudioPayloader, RtpStreams**: a frame is its number of packets,
a packet its header; FEC blocks, header fields and counters are computed as in
the code, at their widths. The two payloaders share nothing, so `RtpStreams`
lets one run while the other rests.

**EncoderConfig, StreamParams**: `EncoderConfig` is the file, edited at any time,
and the three reads of it a start makes, in the order the code makes them. The file is
three lists of blocks, the capture heads, the sink's name and the Opus rates. A block is
what its text decides: which plugins `check_elements` names, which plugin's encoder
`encoder_pipeline` runs (or none), whether that is named `video_encoder`, and whether
the block has zero-copy parameters. Any of these may be edited (`Edited`), and the seed
the server writes may be cut off anywhere (`Seeds`). The rest of the pipeline strings is
taken to be sound GStreamer syntax with the placeholders of the stock blocks.
`StreamParams` extends these steps with what flows through them: `/launch` and
ANNOUNCE compute rate, channels and format in the code's integer arithmetic, a
start sets up the sink (whose script may fail, unseen by its caller), the encoder
and the audio pipeline, and a resume changes what it changes in the running
ones: `update_bitrate` finds only an encoder that is named, and of the stock encoders
only NVENC has the VBV property it sets. ANNOUNCE and PLAY run on one thread, so no
ANNOUNCE falls between the steps of a start; edits do.

**VirtualPads**: gamepads of two media objects on different threads with the
records the server fakes for them. Writing or removing an hwdb file and sending an event
may each fail, which the code logs at most; `fileFailed` and `eventFailed` say for
which minors the last of these did.

**PointerSync, GamepadChord, ControlInput**: `PointerSync` is the thread that
polls gamescope's cursor and repeats its motion on the parent compositor's
pointer. It checks the client's activity in one step and injects in another; the
control thread notes the activity in one step and sends the motion in another.
Positions are points of a line, "near" is one apart, and 0 is the origin that
Xwayland reports for a cursor it does not have. `GamepadChord` is
`VirtualGamepad::update` as far as Back, Guide and Home go, with ages for times.
`ControlInput` is the control thread that drives both: peers connect and
disconnect, a packet reaches the mouse or the pad. A behaviour chooses mouse or
pad at its start, since the two share the thread and no state.

Every module declares its constants with an ASSUME, has Init, one action per
operation or step, Next and Spec, a type invariant and its properties at the
end. Definitions marked "Faulty variant" are how a plausible bug in the
definition beside them would read; the mutants of `PROJECT.json` put them in
place to see the property they name fail. Where a definition differs from one
of the source's names, `PROJECT.json` maps it.

## 3. The runs

### What holds

| run | configuration | shows |
|---|---|---|
| `teardown` | one address, two sessions, two media objects, two channel layouts, one ENet peer | no two threads stop one object; open pipelines always have an owner; PLAY publishes into an empty holder; late stops spare newer sessions; a resume never relaunches; the refinement of MediaLifecycle; the inductive invariant `Ownership` |
| `clients` | two addresses, two AES keys and none, two sessions, one media object at a time, no ENet peer | one session per client, though `/resume` moves sessions between addresses; a completed PLAY leaves the payloader with the current key; media that left the holder is destroyed |
| `apps` | launcher and app process, two sessions, no ENet peer | an app outlives its media through the launch window only, or by outliving SIGKILL; PLAY does not launch beside an app that stop() could end; a known app is gone or gets SIGKILL; every handler returns, though no app has to end |
| `identity` | two clients, a legacy state directory or none, three crashes and full disks | key and certificate match; saved pairings and the uuid survive, unpaired clients stay away; the server comes back |
| `pairing` | two devices that share uniqueid and address, or one of the two; three handshakes | pages and threads are not crossed; paired by one's own PIN only; every request is answered, unless attempts run through one cache entry |
| `rtsp_requests` | two requests of any kind in any segmentation | the body is waited for when the header came whole; answered at most once; a request sent whole is ended |
| `rtp_packets` | all thresholds of the splitter, two frames; wrapping counters | gapless numbers; frames decodable but for partly skipped ones; audio FEC covers its block |
| `resume_audio` | two sources, three moves of the client, two resumes with two layouts | nothing is sent blind; no packet begun after PLAY is under an old or mixed key; the stream settles on the client under its own key, unless the rebuild failed or it came by `/launch` |
| `stream_params` | all sets of plugins, all cuts of the seed, one edit to a file of stock or of odd blocks; stereo, 7.1 and a count no layout has | a pipeline links if its block checks its own encoder; the silent fallback and another sink need a file that changed; rate, NVENC's VBV, channels and speakers are those of the last ANNOUNCE, and all that is sent fits the budget |
| `pads` | two media objects, two controllers, three minors, two failures at a time | records match devices but for those whose own last change failed, no device leaks, gone media has no pads |
| `control_input` | four positions, one tick of quiet; three ticks of hold, two of Home | a motion of the client is overridden at most once; the pointer comes to rest by the app's cursor; one outcome per press of Back; Home is held long enough and goes up again |

A property named `...Inv` is the module's type invariant together with the safety
invariants that stand above it.

### What does not hold

`orphan` checks one statement of the repository and finds it broken:
`state.hpp:63-64` says that stop_session "lets /cancel tear down the live session
(registry removal alone leaves the app + pipelines orphaned)". A `/cancel`
handled while PLAY starts the media of its session finds an empty holder and stops
nothing; PLAY then publishes the media without looking the session up again, and
no later `/cancel` can name it.

Other statements the code does not keep were met while modelling. Each is a
definition at the end of its module, for which TLC gives a counterexample when it
is added to the module's configuration as an invariant or property (the two of
SessionLifecycle need two addresses and a peer, NoAppCollision one session more
than it takes to fill the holder).

| definition | the statement | what the code does |
|---|---|---|
| `StopMeansRemoved` | TERMINATION is the "same teardown as HTTP /cancel" (`control.hpp:21`) | the session stays registered: serverinfo reports it busy, `/resume` finds no app |
| `SecretSuffices` | "secret/IP check suffices" (`control.cpp:115`) | only the first session's secret and address are compared |
| `NoAppCollision` | PLAY stops the previous app first, "else the two collide on the X11 display" (`main.cpp:171`) | a stop that another thread began is not waited for |
| `NoAppPastTheWait` | stop() blocks "until the app's process group is gone" (`media.cpp:675`) | it can look for the pid before it is stored, or for the group before the child's setsid, and it gives up 2 s after SIGKILL |
| `EntryOfOneClient` | a cache entry is the "in-flight state for a single client's multi-step PIN handshake" (`state.hpp:18`) | two devices that send one uniqueid from one address go on from each other's |
| `NoHalfIdentity` | key and certificate are "renamed into place only once both succeeded" (`x509.cpp`) | a crash between the two renames leaves a key without its certificate, which the next start refuses |
| `Migrated` | `entrypoint.sh:69-73` moves the old state to its new place | a copy cut short is taken for done at the next boot |
| `EveryFrameDecodable` | FEC information is written into the packets (`video.hpp:174`) | frames of 637, 638 and 640 packets have headers of two kinds, as only some of their blocks fit |
| `RediscoversClient` | the listener "re-discovers the reconnected client" (`media.cpp:633`) | a late ping of the old address is discovered as well |
| `AnnounceApplied` | "keep reading until we have Content-length bytes" (`rtsp_server.cpp:90`) | not when a segment ends before that header's value: ANNOUNCE is answered 200 without its parameters |
| `LaunchIsHeard` | a launch of a client that has a session resumes it (`servers.cpp`) | it gets the old session with its old key, and hears no audio under its own |
| `UsableConfig` | "always has a usable config" (`encoder_config.hpp:84`) | validate() only logs, also that an edited or cut-off block runs no encoder |
| `CapturesTheAppsSink` | the pipeline captures the sink the apps play into (`encoder_config.hpp:38`) | each start reads the name twice and a resume once more |
| `VbvFollowsTheRate` | a resume updates the rate "(vbv={}kbit) for resume" (`media.cpp:625`) | `vbv-buffer-size` is NVENC's property; the VA encoder keeps the `cpb-size` of its start |
| `AlwaysASink` | a failure of the sink script is "non-fatal: the stream still works" (`launcher.hpp`) | the script unloads the old sink before it fails to load the new one |
| `PlaysTheNegotiatedFormat` | ANNOUNCE captures the client's parameters "into the session" (`rtsp_commands.hpp`) | a resume that negotiates another codec goes on with the running one |
| `StayInStep` | the watcher re-injects the cursor "so the two stay in step" (`pointer_sync.hpp`) | a motion suppressed beside client activity is never caught up, and what is near is measured from the position injected last, which the client's mouse has left |
| `LongHoldNeverTaps` | a hold of 750 ms "never emits Back" (`uinput.cpp`) | the threshold is only looked at in packets that hold Back: a release that is the next packet is a tap |

### Bounds

The code has one media holder and three threads, so two media objects and two
sessions reach every pair of old and new; a third would repeat what the second
does to the first. Sessions, media objects, handshakes, faults, edits, frames and
packets are counted and capped by `MaxSessions`, `MaxMedia`, `MaxAttempts`,
`MaxFaults`, `MaxEdits`, `MaxFrames`, `MaxResumes`, `MaxMoves`,
`MaxGen`, `MaxMinors`; a run that reaches its bound stops there, and
that is why those runs do not check for deadlock. Media objects are reused once
they are freed, so `MaxMedia` bounds only how many exist at a time: a PLAY that
needs another waits in `PlayStart` until one is freed, which its holder, on
another thread, does without waiting for PLAY.

The three runs of SessionLifecycle divide the work. `teardown` has everything but
a second address and a second key, which no stop looks at. `clients` has those
and leaves out ENet: input and termination change neither the registry nor keys.
It has one media object at a time, since what its properties relate is the
registry, the keys and the one object in the holder. `apps` leaves ENet out too:
a termination does the steps a `/cancel` does, by the same operators, and an input
thread's last reference to an object is `teardown`'s. So what these two runs show
of liveness is about the HTTPS and the RTSP thread; that the control thread's
references end is its fairness, and that an object exists only while referenced is
the theorem `OwnershipHolds`.

`FrameSizes` holds one packet, both sides of every threshold of the splitter, and
the largest frame the headers describe. `VideoSeqMod` is small where wrapping matters.
A body of four bytes and a two-digit length have every cut a real ANNOUNCE can
have. `encoders.toml` is edited once, at any moment: that separates any two of
the reads of a start and a resume. What it may become differs from the default in
the sink's name, the capture head, two empty lists, the rate of 7.1 audio, or in blocks
that check too little, are not named as they should be or have zero-copy parameters
they should not; or it is gone, or does not parse. The channel counts and rates of
`stream_params` have a layout of the server and one of none, a rate on either side of
the 2.5 Mbit/s from which the budget holds, and no rate at all. `MaxFailures` lets the file
and the event of one pad, or of two, stand failed at once. The three placements of two
devices in `MCPairing` are what sharing an entry or a page depends on. Three moves and two
resumes let a late ping of an older source meet each step of a newer PLAY. Three faults
are one more than the two renames that must stay together. Four positions have the origin and pairs that are near, far and exactly
at the limit; the ticks of `control_input` are the shortest that leave room before,
at and after each threshold.

### Fairness

`SessionLifecycle`: weak fairness of each thread inside a handler; the stop of an
app is bounded by the loops in `stop()`, so no handler waits for the outside
world. Clients are never fair. `SessionApps` adds the launcher's thread (its window
is 20 s) and the child's `setsid`; nothing makes an app end, so handlers return
because their waits have bounds. `Pairing`: a request that arrived is handled, and
`wait_for(180s)` returns; whoever is to enter a PIN is not fair. `IdentityStore`: a running start or save goes on; crashes
and full disks are bounded by `MaxFaults` and otherwise free. `RtspConnection`:
strong fairness of each connection's ready handler, since the io_context's queue
is first in first out and its thread is taken away only for the length of a
PLAY. `AudioResume`: listener, streaming and RTSP thread go on, the client sends
the PLAY of a resume and goes on pinging as Moonlight does, and a ping sent
infinitely often is received infinitely often. `ControlInput`: the watcher polls
for ever and gamescope takes in the pointer's motion; time passes; a connected
client goes on sending controller packets ("streams controller packets
continuously while a pad is connected", `uinput.cpp`), what they hold being its
choice. Nothing makes a client connect, move the mouse or let go of a button.

### Assumptions about what is outside

- A motion injected into the parent compositor reaches gamescope before the
  watcher's next poll, 16 ms later: `pointer_sync.cpp` counts on it. Where it
  takes longer, the watcher can chase its own injections.
- There is one Xwayland where gamescope may run up to five, each with a
  connection of its own.
- The kernel gives a new device the lowest free minor number; PulseAudio and
  GStreamer do what they are asked or fail.

## 4. The proofs

TLAPS proves every invariant and every action property that a passing run checks,
and the refinement, for all values of the constants: any sets of addresses, keys,
devices, clients, connections, sources and controllers, any number of sessions,
media objects, attempts, faults and resumes, frames of any size the headers can
describe, counters of any width, any blocks in the configuration file and any ANNOUNCE. The
runs show the same on small instances.

| module | theorem | property |
|---|---|---|
| `SessionLifecycle_proofs` | `TypeCorrect`, `OwnershipHolds`, `SingleStopperHolds`, `LiveMediaIsOwnedHolds` | `TypeOK`, `Ownership`, `SingleStopper`, `LiveMediaIsOwned` |
| | `PublishesIntoEmpty`, `StaleStopsSpareNewer`, `ResumesNeverRelaunch` | the action properties of `teardown` |
| | `LifecycleImplemented` | `ImplementsLifecycle`: `Spec` implements `MediaLifecycle` |
| | `OneSessionPerClientHolds`, `AudioKeyFollows` | `OneSessionPerClient`, `AudioKeyFollowsResume` |
| | `AppsTypeCorrect`, `PlaysLaunchAlone`, `LeaksOnlyInLaunchWindow` | `AppsTypeOK`, `PlayLaunchesAlone`, `LeakOnlyInLaunchWindow` |
| `VirtualPads_proofs` | `PadsInvHolds`, `OnlyOwnersRetractHolds` | `PadsInv`, `OnlyOwnersRetract` |
| `AudioResume_proofs` | `StreamInvHolds`, `FreshPairAfterPlayHolds` | `StreamInv`, `FreshPairAfterPlay` |
| `Pairing_proofs` | `PagesInvHolds`, `PairedByItsPinHolds` | `PagesInv`, `PairedByItsPin` |
| `IdentityStore_proofs` | `StoreInvHolds`, `LostOnlyUnsavedHolds`, `UuidStableHolds` | `StoreInv`, `LostOnlyUnsaved`, `UuidStable` |
| `RtspConnection_proofs` | `ReadInvHolds`, `AnsweredOnceHolds` | `ReadInv`, `AnsweredOnce` |
| `ControlInput_proofs` | `InputInvHolds`, `ChordOutcomesHold` | `InputInv`, `ChordOutcomes` |
| `Streams_proofs` | `PipelineInvHolds`, `StreamAsNegotiatedHolds` | `PipelineInv`, `StreamAsNegotiated` |
| | `BlocksInvHolds`, `NumberingInvHolds`, `Decodable` | `BlocksInv`, `NumberingInv`, `DecodableUnlessPartlySkipped` |

### Assumptions

The ASSUMEs of the modules on their constants, and in two places a condition
that the theorem states:

- `~AllowNew` (IdentityStore): `STEAM_STREAM_ALLOW_NEW_IDENTITY` is not set, which is
  the default. Setting it is asking for a new identity.
- `FecPercent # 0` (`NumberingInvHolds`): every ANNOUNCE has 20. With 0 the code does not
  move `cur_seq_number` on, and every frame would have the numbers of the first.
  `Decodable` is about single frames and needs no such condition.

### Inductive invariants

**Media objects.** `SingleStopper` is not inductive: that no second thread can begin
to stop an object follows only from where every reference is. `Ownership` says
that: a thread holds a reference exactly inside the blocks that declare one, an
object exists exactly while something refers to it, what is being stopped is out of
`media_holder`, a dying object is one thread's alone, and from the moment PLAY
emptied the holder it stays empty. `Custody` adds what the action properties
need: running video is in the holder, with PLAY or with a thread that is about to
close it and knows whose it is. `IInv` is `TypeOK /\ Ownership /\ Custody`; the
steps are proved action by action (`TypeStep`, `OwnershipStep`, `CustodyStep`).
The refinement needs `IInv` before and after each step. `OneSessionPerClient`
has a strengthening of its own, that the registry lists each session once and that
lookups find what is there; it rests on the least-number principle
(`HasLeast`, from the well-foundedness of < on Nat).

**The audio key.** `AudioKeyFollowsResume` speaks of the times when no PLAY is under
way. `KeyInv` says what holds in between: a payloader that lags behind its
session's key has had a `/resume` since, or has lost its session, or a PLAY of that
session has yet to come to its retarget; sessions without a key never had one; and
what a PLAY builds or resumes is its own session's.

**Apps.** Every step of `SessionApps` is one of `SessionLifecycle` (`AppsStepIsAStep`),
so `IInv` carries over. `LaunchInv` adds that an app which no launcher is starting,
nobody knows the pid of, no stop() has missed and no SIGKILL was sent to is one that a
thread waits for (`LaunchInductive`).
The proof corrected the property: a restart of the server frees all media objects at
once and takes the apps with them, so the app has to be alive after the step.

**Gamepads.** Each record is at the same place of its pad's life as the operation in
progress (`RecordsArePads`), pads and minor numbers are in bijection (`DevicesArePads`,
from which the numbers agree by the library's theorems on bijections), and whoever
is not running, held or being cleared is empty. The records are compared only at minors
whose last change did not fail.

**Audio of a resume.** What is or is about to be the destination has pinged
(`DestinationsHavePinged`), and a PLAY that is over left the pair it had read, whole
(`PlayLeavesItsPair`).

**Pairing.** An attempt has one request at a time that may be answered
(`WireInv`, `HttpInv`, `WaiterInv`), and wherever a PIN, a salted hash or a challenge
is kept, it is of the attempt whose page the PIN was entered on (`PinInv`): so an
entry that two devices share never lets one through on the other's PIN. While
a client is being added, it is the owner of the entry's certificate (`HttpInv`).

**Identity.** What each step of the boot finds and has written (`BootInv`); that all
clients trust the one identity this host can have, so none is generated while
somebody trusts another (`TrustInv`, as long as the migration has not failed); and that
whoever trusts the server is on disk and in memory or was known to be unsaved
(`SavedInv`, as long as the migration was not disturbed).

**RTSP.** A reply ends its connection and a thread that is busy with a PLAY has not
answered it (`RepliesEnd`). That the body is whole rests on `WholeBody`: once the
header came unsplit, whatever is not Incomplete holds all parameters.

**Input.** While the client counts as active either its motion has been overridden
once or an injection chosen before it is pending, never both (`OneOverride`). A press
under way has produced Home once or nothing, and BTN_MODE is down for at least as
long as Home (`ChordInv`).

**Stream parameters.** What was advertised, asked for, made and captured agrees with
the file as long as it says what it said (`FileInv`), and what is taken from a list is one
of its blocks whose checks passed (`FirstIsAvailable`); what a start has set up so far is
what was negotiated, as no ANNOUNCE falls into a start, and NVENC's VBV is that of the
rate at all times (`ParamsInv`). That the audio layouts place every speaker is computed for the
three layouts there are.

**Audio packets.** Position, sequence number and row wrap together (`Aligned`,
`SameRow`), and the slots filled so far are those of the block (`BlockSoFar`). The
modulus is not a constant of the proof, so the lemmas `Split`, `Remainder` and
`Advance` do its arithmetic.

**Video packets.** A `Run` is a sequence of packets with consecutive numbers whose
data lies in an interval of the stream. A FEC block is one (`BlockIsRun`), and two
that follow each other are one (`RunsJoin`); the third of three blocks is never larger
than the others (`BlocksOfFrame`), so if it is left without FEC so are they
(`LargerIsTooLarge`), and each starts where the one before ended (`ThreeBlocks`).
`NumbersInv` adds to `NumberingInv` that `cur` lies ahead of all that was pushed. For
`Decodable` the headers of a block tell its number of data packets and, by their
percentage, that of its parity packets (`SplitIsTold`, also where the percentage was
raised to reach the minimum); a frame is one such block, three, or a mixture of blocks
with and without FEC (`FrameShape`), and a client finds each block by its number
(`BlockFound`). `FramesInv` says so of the latest frame.

### What is only model-checked

Liveness: `RetiredMediaIsDestroyed`, `KnownAppDies`, `HandlersReturn`, `Recovers`,
`ResumedIsHeard`, `RequestsAreAnswered`, `SentRequestsEnd`, `PointerFollows` and
`HomeGoesUp`. Fairness and ENABLED are out of the prover's reach. So is induction
over data (what a recursive definition computes for every input); the models do
without it. `orphan` finds a violation, of which there is nothing to prove.

## 5. Plan

Done, in this order: the threads that share `media_holder` (the system's most
important behaviour), the app, persistence, the payloaders and sinks, pairing,
configuration, gamepads and RTSP; then the audio of a resume around `retarget()`,
the parameters of a stream from ANNOUNCE to the encoder, and input.

Then the proofs, component by component, until every safety property of a
passing run had its theorem.

Left:

1. **Abstract specifications** of the other components, in the manner of
   `MediaLifecycle`: pairing as a client's PIN that is entered or not, the store as a
   set of pairings that survives, the sink as a destination that has been heard from;
   with refinements and their proofs.
2. **Composition**: RtspConnection with the registry of SessionLifecycle. Now
   each knows of the other one bit: whether `get_for_rtsp` finds a session, and
   that PLAY runs alone on its thread.
3. **Container scripts**: start-up order of `entrypoint.sh` and restarts of the
   app by `startup-app.sh`.

### Not modelled

- Byte formats: control packets, XML documents, SDP text, `rtsp::parse` beyond
  what a cut request lacks.
- OpenSSL and Reed-Solomon themselves: keys are symbols, parity recovers as many
  losses as it has shards. GStreamer and the compositor, beyond the blocking and
  failing of the calls the server makes.
- `moonlight/control.hpp`, `VirtualMouse` and `VirtualKeyboard`: nothing in the
  server uses them. Keys, buttons and scrolling keep no state in the server.
- `http`'s TLS plumbing, logging, the build, `quickstart.sh`, deployment, users and
  devices of the container: no state of the running server.
- Data races on `std::string`s and on flags that are not atomic, beyond the old
  or the new value: the C++ standard gives them no other meaning.
