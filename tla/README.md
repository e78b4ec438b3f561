# A TLA+ model of mock-ptz-camera

mock-ptz-camera is a Go program that pretends to be a pan-tilt-zoom IP camera:
it renders frames for the current position, has ffmpeg encode them, and serves
the H.264 stream over RTSP and WebSocket while ONVIF and web clients move the
head. This directory holds TLA+ modules of it, the TLC configurations that check
them and proofs that TLAPS checks.

## The system

| Component | State | Operations | Talks to |
|---|---|---|---|
| AU hub, `media/auhub.go` | subscriptions with a buffered channel each, last keyframe, two callbacks | `SetCallbacks`, `Subscribe`, `Unsubscribe`, `Broadcast`, `LastKeyframe` | calls `Pipeline.Start`/`Stop` after its unlock; channels to viewers |
| Pipeline, `media/pipeline.go`, `renderer/renderloop.go` | `running`, `encoder`, `done` | `Start`, `Stop`, broadcast loop, render loop | owns encoders; reads the PTZ position; broadcasts to the hub |
| Encoder, `renderer/encoder.go` | ffmpeg, `running`, the channel `aus`, `done`, SPS/PPS | `NewEncoder`, `WriteFrame`, `Stop`, `readNALUs`, `waitAndRestart` | pipes to ffmpeg, channel to the broadcast loop |
| PTZ state, `ptz/state.go` | position, velocity, target, autoflip, presets | six commands, presets, `tick` every 50 ms | `onChange` calls the events service |
| RTSP server and stream loop, `rtsp/` | playing sessions, `activeSub`, time of the last warning | `OnPlay`, `OnSessionClose`, `OnStreamWriteError`, `StreamLoop` | one hub subscription shared by all sessions |
| Web, `web/` | per connection: subscription, status goroutine | `/ws/video`, `/ws` | hub, PTZ state |
| ONVIF events, `onvif/events.go` | per pull point: queue of 100, wake-up token, termination time | publication, PullMessages, Renew, Unsubscribe, cleanup | PTZ state's `onChange`; HTTP clients |
| ONVIF PTZ, device, media, discovery, `onvif/` | none | commands, templates, probes | PTZ state |
| Panorama renderer, `renderer/pano.go` | frame buffer, projection parameters, worker pool, cached position, saved OSD region | `Render`, `worker` | called by the render loop of every pipeline |
| Bootstrap, `renderer/bootstrap.go` | an encoder of its own | one blank frame, `WaitSPSPPS` | the parameter sets go to RTSP and hub |
| TLS and listeners, `netutil/` | two PEM files, two accept loops, two channels | `LoadOrGenerateCert`, `Serve`, `Accept` | HTTP, HTTPS, RTSP, RTSPS servers |
| `main.go` | where start-up is | phases in order, `log.Fatal` | everything |
| `auth/`, `config/`, drawing, browser pages | none | - | - |

What makes it hard: the hub decides "first" and "last" under its lock and acts
after it, so callbacks overtake each other; `Pipeline.Stop` joins nothing, so
goroutines of two encoders overlap, in the renderer's one buffer too; the encoder
swaps its channel on a restart without telling the goroutines that use the old
one; RTSP sessions hand one subscription on under a lock that
`OnSessionClose` gives back before it unsubscribes; a puller looks, sleeps and is
woken in three steps, with publication, renewal and cleanup in between; six
commands interrupt each other and a multi-tick flip; a listener waits for the first
byte of whoever came first; two files make one certificate.

What correctness means: no CPU without viewers and no viewer without a picture;
one ffmpeg; pictures in order; nothing left behind after Stop; crashes survived;
the reported PTZ status true; events delivered once, in order, and nobody asleep
on a full queue; the program comes up with one identity whatever it finds on
disk. `PROJECT.json` lists the hazards one by one, with the lines they bite at
and the properties that cover them.

## The modules

```
AnnexB   SplitListener          AUHub            PullFeed
    \      /                    /    \              |  (refined by)
     Startup             Pipeline   Viewers       Events     Encoder  PTZ  PanoRenderer
```

**AUHub** - the hub. A subscription is a member of `Sub`; it is used once, as
each call of `Subscribe` allocates a fresh `AUSub`. What a method does under
`h.mu` is one action. `callPC[s]` is where the goroutine that owns `s` is:
`new`, `starting` (has decided to call `onActive`), `open`, `stopping` (has
decided to call `onIdle`), `gone`. An access unit is its encoder and its frame
number; frame numbers 1, GOP+1, ... are keyframes.

**Pipeline** (extends AUHub) - `Start` and `Stop`, each one action because
`p.mu` is held throughout, and for each encoder the four things around it:
ffmpeg, the render loop (`frames`), `readNALUs` (`coded`, `aus`), the broadcast
loop (`hand`). An encoder bears the name of the subscription whose `Subscribe`
started it: that call starts at most one. `Lag` bounds the frames inside ffmpeg
and the pipes. `MayFail` lets `NewEncoder` fail; `EarlyViewer` lets a viewer
come before `NewPipeline` has registered the callbacks, as `main.go` does.
ffmpeg does not crash here; that is Encoder's subject.

**Viewers** (extends AUHub) - the two users of the hub. RTSP sessions with
`h.mu`, `playing` and `activeSub`; the stream loop of each subscription up to
`OnStreamWriteError`, whose three steps (load the last warning, read the clock,
compare and swap) are actions; the `/ws/video` handlers. The subscription that
a handler holds in a local variable is `cur`. `Activated` is `onActive`, which may
create an encoder; `Frame(g)` is the broadcast loop of encoder g: it sends that
encoder's units in their order, at any time, also between those of a newer encoder,
because `Stop` does not wait for it. When encoders start and end is Pipeline's subject
and free here. `main` wires the server in three steps, the two assignments
of `SetSubscriber` (`SetSubscribeFn`, `SetRTPEncoder`) and `NewPipeline`; `bare` are the
stream loops that were started with the encoder still nil. gortsplib is external: it
calls the callbacks of one session one after the other and may call `OnPlay` again for
a session that plays. The `dropCount` that the warning prints decides nothing and is
left out.

**Encoder** - one `Encoder` under crashes and restarts. Call p of
`startProcess` makes process p, its reader and its waiter; channel c is the
c-th value of `e.aus`. Every read of a shared field that Go evaluates early is
a step of its own: `defer close(e.aus)` (`ReaderStart`), the channel of a
`select` (`ReaderSelect`), `range encoder.AccessUnits()` (`ConsumerStart`), the
pipe of a write (`WriteFrameLock`). A panic ends every goroutine. `Code` and
`Crash` are ffmpeg's steps, external to the repository. `LateStart` says whether
ffmpeg may exit before the goroutines launched to serve it have run at all.

**PTZ** - `ptz.State` on an integer grid, the code's constants as parameters.
Each command is one action (one critical section). `Tick` is the critical
section of `tick`, which leaves in `report` the status, position and whether the head
moves, that `Notify` passes to `onChange` after the unlock. Easing
moves a fraction of the distance, rounded toward the target, so the code's
tolerance of 0.001 becomes "on the target". Pan is any integer, as the code wraps it
once only. `flipFrom` and `strayed` are history variables: where a flip began, and
whether any animation has had a target out of the pan range. `ClientToken` are preset
tokens that clients make up.

**Events** - the pull points. `es.mu` is held by the publisher over its whole
iteration (`pubTodo`) and by the cleanup loop over its own (`clnTodo`); `sub.mu`
never outlives an action. `PullMessages` is the steps `PullTake`, `PullWait`,
`PullWake` or `PullTimeout`, `PullRetake`, `PullAnswer`; `late` remembers renewals
between the cleanup loop's look and its delete.
**PullFeed** is what a pull point promises without locks, token and steps: an event
is accepted once and answered at most once, lost only when the feed is full or
behind older ones in an answer that was cut. Events implements it with `pending`
mapped to the queue and what requests hold.

**PanoRenderer** - `Render` step by step, its workers row by row. A row is the
position it shows and how often the OSD was drawn over it (`DarkenRect` halves
what it finds). A row rendered while two loops are inside holds `Torn`: nothing is known of it.

**AnnexB** - the byte stream and `extractOneNALU`, byte by byte as far as start
codes go. **SplitListener** - the two listeners that tell TLS from plain by the
first byte. **Startup** (extends both) - one run of the program after another:
`main`'s phases, the bootstrap encoder and `readNALUs` for every way the pipe cuts the
stream, the two PEM files with a truncation and a write each, and clients on the
ports. A kill may fall between any two steps; `StartAgain` finds what is on disk.
A file is the number of the run that wrote it, 0 if an operator did.

**PipelineProofs**, **DeliveryProofs**, **EncoderProofs**, **PTZProofs**,
**EventsProofs**, **ViewersProofs**, **PanoProofs**, **StartupProofs** - the proofs. **MCPipeline**,
**MCPTZ**, **MCStartup** - the symmetry and the inputs for TLC.

Definitions headed "Mutant:" are plausible bugs that no specification uses.
Substituted for the definition that follows them, each breaks one property: they
show that the property can fail.

## The runs

| Run | Question | Bounds |
|---|---|---|
| Pipeline_lifecycle | Does anything keep running without viewers, are there ever two encoders, is the keyframe cache ever behind? | 3 subscriptions, hence 3 encoders: one stopping, one running, one to come. Two frames each, every one a keyframe, so that the cache changes within an encoder; failing starts and early viewers allowed |
| Pipeline_delivery | Are pictures delivered in order? Does an idle pipeline stop, does a stopped one drain, does a slow viewer block anyone? | 2 subscriptions and encoders, viewer buffers of 2, the other channels and ffmpeg hold 1, so that everything fills up; failing starts and early viewers allowed |
| Pipeline_starved | Does everybody who watches get a running pipeline? **No** | 2 subscriptions, one frame, no failures: the race alone |
| Encoder_faults | One process, every exit watched and answered, no misuse of channels before a crash, does Stop end everything? | 2 processes, 1 crash, capacities 1, restarts may fail |
| Encoder_recover | Do pictures flow again after a crash? **No** | as Encoder_faults, restarts succeed |
| Encoder_leak | Is Stop final? **No** | as Encoder_faults, restarts succeed, goroutines may be late |
| PTZ_motion | Is the status true, does a flip make half a turn, does an animation end, is every position reported, are new tokens fresh? | the circle -3..3, tilt -1..1, zoom 0..1, flips of two ticks with an odd rest, inputs on and over every limit, relative moves of one turn and of more than two, 2 generated presets |
| PTZ_farturn | Does pan stay in range? **No** | as PTZ_motion, with a relative move of more than a turn |
| Onvif_events | Is an event ever given twice or out of order, does a puller ever sleep on a full queue, what may cleanup delete, is everybody answered, is this the feed PullFeed describes? | 1 pull point (they share nothing but `es.mu`), 2 requests, queue of 2, 3 events: the queue overflows while one request holds a batch and another sleeps; limits 1 and 2; a clock of one tick, a lifetime that expires in it and a renewal that survives it |
| Viewers_sessions | Who holds the shared subscription, can it be lost, do loops end, are warnings apart, does a web picture jump? | 2 RTSP sessions and 1 web viewer sharing 2 subscriptions, up to 2 encoders that broadcast 3 units between them, every first of two a keyframe, buffers of 2, a clock of two windows |
| Pano_overlap | Do work and completions balance, does every Render return, is a frame whole? | 2 loops, 2 positions, 3 workers for 2 rows: one worker has no range, one row has the OSD and one has not |
| Startup_runs | Are SPS and PPS whole, is there one certificate, does every start come up, does every connection reach its server? | 2 runs, one death of the bootstrap ffmpeg, all three modes, every state of the files, 4 NAL units with start-code look-alikes inside, 2 connections and channels of 1 |

The bounds are small because one more of anything adds interleavings of the
same kind: each instance has enough actors for two of them to interfere while a
third event of their kind follows, and each queue meets empty, full and in between. Where the
proofs below cover a property it holds for all sizes. Names are interchangeable in
Pipeline, hence the symmetry of its safety run; liveness is checked without
symmetry. The deadlock check is off in the Encoder runs, because after Stop or a
panic the encoder really comes to rest, and in Startup_runs, because the last run of the
program ends. In Pipeline the action `Finished` marks the only state in which
nothing is left to do.

**Fairness.** The Go scheduler runs every runnable goroutine, a kill ends
ffmpeg, a living ffmpeg codes what it is given: weak fairness of each
goroutine. Two are strong: `RenderExit` in Encoder, because `select` picks at random
among ready cases, and `Render` in PanoRenderer, because a channel serves the
goroutines that wait for it in their order, so a loop whose turn comes again and again
takes it. Nothing is assumed of viewers, PTZ and ONVIF clients, connections and the
clock: they may never come, read, speak, leave or advance; ffmpeg need not crash and
the program need not be killed. `AnimationEnds` is about executions in which
clients eventually fall silent, `HandedOver` about ports that no silent connection
keeps for ever.

## What the runs found

1. **A viewer without a pipeline** (`Pipeline_starved`). The last viewer leaves;
   before its `onIdle` runs a new one subscribes, finds the hub empty and calls
   `Start`, which returns because `running` is still set; then the pending
   `Stop` tears everything down. The hub is not empty, so no later viewer
   starts the pipeline either. README.md:32 and :34 promise the contrary.
2. **A crash is not survived** (`Encoder_recover`). `waitAndRestart` puts a new
   channel in `e.aus`; the broadcast loop keeps the old one, sees it closed and
   exits. encoder.go:226-227 calls the restart resilience against crashes.
3. **A process outlives Stop** (`Encoder_leak`): `done` is checked before the
   restart and not after it.
4. **Pan leaves its range** (`PTZ_farturn`): RelativeMove wraps once.

Smaller observations, which the properties state as exceptions:

- A PLAY before `SetSubscriber` has no picture, nor has anybody who joins before
  all players have left (`early` in `FeedFollowsPlaying`); a second PLAY of the
  only playing session forgets the first subscription (`OnlyReplayLeaks`). A PLAY
  between the two assignments starts a stream loop with a nil RTP encoder; it does no
  harm, as it came before `NewPipeline` and no encoder runs while it is in the hub
  (`NilEncoderUnused`).
- After a restart of the pipeline pictures of the old encoder and of the new one may
  take turns on one screen: what is promised holds for each encoder's
  (`WebStepsBackOnce`, `InOrder`).
- An animation towards a target more than a full turn out of range never ends: the
  distance is wrapped once, so it stays at a turn or more, and the head is reported
  moving until a command stops it (the exception in `AnimationEnds`).
- Only `tick` reports, so a command that stops or starts the head tells nobody. The
  status `onChange` was told last is then behind (the exception in `ReportsCurrent`);
  the events service uses its position only, and the control socket asks `GetStatus`.
- A renewal between the cleanup loop's look and its delete is answered and the
  subscription removed all the same (`late` in `CleanupSparesLive`).
- A frame rendered while an old render loop is still inside `Render` may be torn,
  and the cache keeps it for as long as the head does not move (`FrameWhole`).
- An ffmpeg that dies with the bootstrap frame leaves `main` in `WaitSPSPPS`
  (`Stuck` in `ComesUp`), and a kill while the PEM files are written leaves a pair that
  later starts cannot load (`torn`). cert.go:20 says the pair is generated "if
  neither file exists"; the code generates it when either is missing.
- A connection that says nothing keeps everybody behind it waiting (`HeldUp`).
- The splitter knows the end of a NAL unit by the next start code, so the last
  unit of the bootstrap frame is not seen; the parameter sets come before it.

## What is proved

For every value of the constants that the modules' named assumptions allow:

- **Pipeline** - `TypeCorrect`: `TypeOK`, channels within their capacity and an encoder
  behind every running pipeline; `PipelineIdleStops`, `PipelineOneEncoder`,
  `NoSendOnClosed` from `OnDemandInv == TypeOK /\ CallsMatch /\ OneEncoder /\
  IdleStops`. `IdleStops` is not inductive alone: a pending `Start` could set
  `running` with the hub empty. `CallsMatch` says that its owner is still in the
  hub, that a channel is closed only after that, that an encoder is not launched
  before its own `Start`, and that callbacks exist once anything has started.
- **Delivery** - `Delivery`: `InOrder`, from `DeliveryInv == TypeOK /\ InOrder /\
  Coded`, where `Coded` says that what is in transit sits with its own encoder and
  is numbered no higher than what that encoder has sent. `Keyframe`:
  `KeyframeNotBehind`, inductive together with `DeliveryInv`.
- **Encoder** - `SingleProcess`: `OneWatchedProcess`, for any number of crashes
  and with `LateStart`. The waiters form a chain: `WatchInv` says that only
  one of them is at work and that a living process is waited for, or is being
  published by the waiter of its predecessor. `EncoderTypes`: `TypeOK`, from
  `TypeInv`, which adds which channel the waiter has put in `e.aus`, that a reader
  sends only what it has read, and that no reader comes before its process.
  `NoPanicBeforeCrash`: `NoPanic`, with `FirstLife`, the state of the first
  process's goroutines until it exits. `EncoderInv` is the conjunction of the three.
- **PTZ** - `StatusIsHonest` from `StatusInv`; `ReportsAreCurrent`: `ReportsCurrent`,
  from `StatusInv` and that the last report is where the head is;
  `TokensAreFresh`: `NewTokenIsFresh`, from `TokensInv`, that what the
  server has yet to generate is free unless a client made it up. `FlipsAreHalfTurns`:
  `TypeOK` and `FlipIsHalfTurn`, for relative moves of any size. `PanStaysInRange`:
  `PanInRange`, under `WithinATurn`, that no client asks for a relative move of more
  than a turn; PTZ_farturn shows that this is needed. It follows from `PanKept` in
  `TypeOK`: without a target out of range `strayed` stays false.
- **Events** - `DeliveredOnce`: `NothingTwice`, from `FeedInv`: queues and batches
  are sorted, batches of one subscription are disjoint and older than its queue,
  and what the publisher is about to append is newer than everything.
  `PullPointsImplementFeed`: `ImplementsFeed`, the refinement, one step of PullFeed
  or none for each action. `WakeupNeverLost`: `NoLostWakeup`, inductive with `FeedInv`.
  `LiveSubscriptionsSpared`: `CleanupSparesLive`, from `VictimInv`: what the loop has
  found expired is still registered and expired or renewed since. `EventsTypes`:
  `TypeOK`, with `LockType`, that who holds `es.mu` iterates over registered ones.
- **Viewers** - `FeedFollows`: `FeedFollowsPlaying`, and `LeaksOnlyByReplay`:
  `OnlyReplayLeaks`, from `ViewInv`: the active subscription and those in the
  hands of handlers are pairwise different and in the hub, and who
  subscribes holds `h.mu` and plays alone.
  `WarningsApart`: `RateLimited`, from `TimesInv`. `StepsBack`: `WebStepsBackOnce`,
  from `PictureInv`: of each encoder a viewer's queue is sorted and newer than what it
  has shown, whatever other encoder's units lie in between.
  `ViewersTypes`: `TypeOK`. `BareLoopsIdle`: `NilEncoderUnused`, which no run checks:
  a subscription older than `NewPipeline` starts no encoder, and nobody who comes
  later finds the hub empty before it has gone.
- **Panorama** - `PoolBalances`: `PoolBalanced`, and `PanoTypes`: `TypeOK`, from
  `PoolInv`: what the `Render`s inside have given out and not got back is exactly what is
  in the workers' hands and in the completion channel. It counts the loops inside, hence
  `IsFiniteSet(Loop)`. `PoolQuiet`: while no loop waits for its ranges no worker is
  about to write to the buffer.
  `FramesAreWhole`: `FrameWhole`, from `PictureInv`: what a loop that has met no other
  finds at each of its steps - rows that show its position, or are still with its
  workers - and that a cache nobody has tainted is a clean projection of the position it
  is kept for, the OSD region lying in the saved copy.
- **Startup** - `IdentityKept`: `OneIdentity`, from `IdentityInv`: a certificate
  in use is whole on disk, only a run that has found a file missing writes, and
  nobody is connected before the certificate is there.
  `CapturesWhole`: `CapturedWhole`, from `ReaderInv`: the reader stands at a unit
  boundary, what it has read and what is to come lie there one behind the other, and the
  parameter sets are there as soon as their units are behind it. It rests on `Extracted`,
  which says what `extractOneNALU` does with any part of any stream.
  `WaitSPSPPSReturns`: `NeverInVain`, with `FedInv`, that before the first death of
  ffmpeg nothing of its output is lost: then `main` never waits while nothing is to be
  read or split off. It assumes a unit behind the PPS; a PPS at the end of the
  output is never seen. `ConnectionsKept`: `NoConnectionLost`, and `OneServer`:
  `HandedOnce`, from `ConnInv`: a connection is in one backlog, in one pair of hands or in
  one channel, once. The last three are proved and not in a run. `StartupTypes`: `TypeOK`.

**Assumptions.** Each module's named `ASSUME`s: bounds are naturals, names are
different, and a few that the proofs need. `Sub # {}` and `MaxClock >= Window` in
Viewers exclude models in which nothing can happen. `OutputAssumption` of Startup says
what H.264 and x264 guarantee of the blank frame: a unit holds no start code
(emulation prevention), does not end in zero (stop bit), and there is one SPS and behind
it one PPS. The instance that TLC checks satisfies all of them.

**Induction over data.** The layout of the stream is a fact about a concatenation of
any number of units. The library's induction theorems cannot be instantiated, so the
lemmas take the least unit for which the claim fails (`LeastNat`, from the
well-foundedness of the order on the naturals) and derive a contradiction.

Only model-checked: all liveness, which is out of the prover's reach. Every invariant
and every action property of the passing runs, and the refinement of PullFeed, is the
statement of a theorem. The violations are TLC's.

## What is not modelled

- **Device and media services, discovery, authentication, configuration** - each
  request is answered from constants and templates; no state, no order.
- **Drawing, font, test pattern, the projection** - pixel and floating-point
  data; that the OSD darkens what it finds is all PanoRenderer needs of it.
- **The H.264 level table and ffmpeg's command line** - data.
- **The browser client** - assets of a user interface.
- **The control socket's two writers** (websocket.go:120) - what two
  concurrent writes do is inside gorilla/websocket, not in this repository. Its
  commands are PTZ's actions.
- **GetStatus's two reads** (onvif/ptz.go:105): the position and the status are
  read under two locks, so an answer may pair a moving position with a later
  status. Nothing in the repository promises a snapshot.
- **Close of the listeners and of the RTSP server, `ptz.State.Stop`** - never
  called while the program runs.
- **Channel buffers of real size, real time, real XML** - abstracted as said above.

What could come next: an abstract on-demand service refined by Pipeline, and Encoder
composed with Pipeline, so that a crash reaches the viewers of the same model.
