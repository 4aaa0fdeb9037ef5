# HDZero goggle: TLA+ models of the firmware

The firmware of an FPV video goggle: it shows what a drone's camera sends,
records it to an SD card, streams it over Wi-Fi, plays it back, and talks to
the pilot's radio link through an ESP32 "backpack". This directory models the
parts of it whose correctness depends on the order in which threads, processes,
timers and a card in somebody's hand do things.

Paths are relative to the repository; "thread X" is a pthread of the app
`HDZGOGGLE`, "process" a separate Linux process.

## 1. The system

### 1.1 Components

| Component | Source | State | Operations |
|---|---|---|---|
| Recorder process | `src/record/main.c`, `disk.c`, `gogglemsg.c` | wanted and actual state, open container, file index, frame counter, sample of the card, status, message queue | take a command, idle tick (sample card, save status, run, split), start, stop, quit |
| Encoder threads, container | `src/record/vi2venc.c`, `ai2aenc.c`, `ffpack.c` | thread ids, exit flags, muxer | deliver a frame, time out, be joined |
| Live stream | `src/record/avshare.c`, `src/rtspLive/stream/avshare.c` | a second encoder channel on the same input, a ring of 56 slots in shared memory, a byte that says a client is there | start and stop with clients, add and fetch frames |
| DVR control | `src/core/dvr.c` | `dvr_is_recording`, `record_pending`, `dvr_mutex` | `dvr_cmd`, `dvr_update_status`, `dvr_star`, race label, writing `record.conf` |
| Peripheral thread | `src/core/thread.c` | `g_sdcard_enable`, `g_sdcard_ready`, statics of `detect_sdcard`, signal counters | detect card, poll recorder, watch signal |
| App state, menu | `src/core/app_state.c` | `g_app_state`, `g_source_info` | switch to menu, HDZero, analog, HDMI |
| Buttons and dial | `src/core/input_device.c` | tune state and timer, pending channel | press, click, roll; under `lvgl_mutex` |
| ELRS backpack | `src/core/elrs.c`, `src/driver/esp32.c`, `src/ui/page_elrs.c` | one response slot and semaphore, UART and reader thread, watchdog, delayed record command | ask, await, cancel, poll, power on and off, set recording, time out |
| SD card check | `src/ui/page_storage.c`, `mkapp/app/script/chkfixsd.sh` | repair flags, result file | check a new card, wait for the result; the script makes the recorder quit and starts it again |
| Receivers, scan core | `src/core/scan_core.c`, `src/driver/hardware-goggle2.c`, `rtc6715.c` | HDZero baseband and bandwidth, analog power and the flag for it, detected bandwidth | open, close, tick, probe, cross over, notify |
| Sleep mode | `src/core/sleep_mode.c` | previous state, saved fan speeds | go to sleep, wake up |
| Playback, streaming | `src/player/media.c`, `src/ui/ui_player.c`, `page_plex.c`, `src/core/plexstream.c`, `plexapi.c` | a pipeline with its thread and play state, the page's state, a download | buffer, step down, launch, pause, seek, recover, rebuild, end |
| OSD | `src/core/osd.c`, `msp_displayport.c` | glyph buffers | parse, draw |
| Head tracker, drivers, settings, pages, vendored code | `src/core/ht.c`, `src/driver/`, `src/core/settings.c`, `src/ui/`, `src/bmi270/`, `lib/` | | numeric, register I/O, layout, third party |

### 1.2 How they interact

- **Commands.** Four threads of the app (input, peripheral, backpack reader,
  and the ones that drive the menu) call `dvr_cmd`, which decides before it
  takes `dvr_mutex`, then runs `gogglecmd`, which posts to a SysV queue. The
  recorder polls that queue.
- **Status.** The recorder writes a number to `/tmp/record.dat`; the app polls
  it about twice a second and gives up when it is not 1. The file outlives the
  recorder.
- **Card.** The recorder's disk thread, the app's peripheral thread and the
  check script each look at the mount point in their own time.
- **Locks.** `lvgl_mutex` before `dvr_mutex` before a possibly full queue. The
  peripheral thread and the backpack's recording commands hold no `lvgl_mutex`.
- **Backpack.** Everybody who asks the ESP32 something shares one response
  slot; pages, timers, head tracking and the watchdog ask.
- **Tuner.** The peripheral thread probes and switches receivers that buttons,
  sleep, screen saver and backpack switch as well, partly without a lock.
- **Timers.** `lv_timer_handler` runs in the main loop, inside clicks, and in
  the player's own thread.
- **Shared memory.** Recorder and RTSP server share a ring without a lock. The
  server connects and disconnects by one byte; the recorder looks at it every
  100 ms, and when it adds a frame.
- **Restart.** Only `chkfixsd.sh` ever makes the recorder quit and starts it.

### 1.3 What is hard

Steps of two threads in an order nobody tried (a menu opened between a test of
`g_app_state` and the command it led to), multi-step starts that fail half-way,
a card pulled while it is being counted, an encoder that stops delivering, a
process killed by a signal with its queue and status file left behind, delayed
commands whose reason is gone. `PROJECT.json` lists each such hazard at its
line, with the properties that cover it or the module that will.

What each component owes its users:

- *Recorder*: obeys commands in order; writes only into an open container;
  never truncates a pilot's footage; its status is true; a STOP ends the
  session; a session interrupted by the card resumes.
- *DVR control*: never records behind its own indicator; the indicator and the
  recorder come to agree; every call returns.
- *Menu*: opening it ends a recording and leaves none to begin behind it.
- *Card check*: the recorder is there after it.
- *Backpack*: a reported bind happened; nobody cuts the power under a bind; the
  power follows the switch; a silent backpack is cycled once and read again.
- *Tuner*: the receiver that is looked at is on; a transmitter that stays is
  found, on whichever protocol and bandwidth.
- *Live stream*: in order, nothing twice, after a loss nothing that cannot be
  decoded; the picture keeps moving. The code does not keep this from the first
  byte for a client who is back before the recorder has looked (4.1).
- *Playback*: no download outlives its movie; there is a way out of the player;
  buffering and movies end; one pipeline at a time.

## 2. Plan

Written, in this order:

1. `Recorder`: the recorder process in detail.
2. `RecorderService`: what it promises; `Recorder` is shown to implement it.
3. `Dvr`: the app's side, composed with `RecorderService`.
4. `RecorderProofs`: theorems about `Recorder`.
5. `Backpack`: the ESP32's power and reader, requests, pages, watchdog.
6. `Tuner`: two receivers and everybody who switches them.
7. `AvStream`: what a client of the live stream is promised; `AvShare`: the
   ring, shown to implement it.
8. `Playback`: download, page, player and its pipelines.
9. `PlaybackProofs`: theorems about `Playback`.
10. `DvrProofs`: theorems about `Dvr`.
11. `AvShareProofs`: theorems about `AvShare`, its refinement included.
12. `TunerProofs`: theorems about `Tuner`.
13. `BackpackProofs`: theorems about `Backpack`.

Next: `SdRepair` (manual repair, boot, the time-outs of
`page_storage_repair_sd`, overlapping scripts), the dial's tune state machine,
and the page of recordings.

## 3. Modules

### 3.1 `Recorder`

The main thread is a program counter `pc`: `main_loop` takes a message
(`ReceiveStart`, `ReceiveStop`, `ReceiveQuit`, `ReceiveNothing`), then either
skips the idle tick or does it: `IdleTick`, `SampleSpace` (`disk_sdstat`),
`CheckDisk` (`record_checkDisk`), `IdleRun` (`record_run`), then one of the
`Pack...` actions (`record_pack`). `record_start` is `OpenFile` or
`OpenFileFails`, `StartVideo`, `StartAudio`, `Started`; `record_stop` is
`StopAudio`, `StopVideo`, `Close`, `Report`, and `ret` is where its caller goes
on. What happens under `recCtx.mutex` is one action. `VideoFrame`,
`AudioFrame`, `EncoderDies` are the encoder threads, `DiskThread` the disk
thread. A dereference of a null container is `Crash`: SIGSEGV, with the queue
and the files in `/tmp` left as they are.

| Variable | Code |
|---|---|
| `stateGo`, `stateGoing`, `ff`, `nbFileIndex`, `enableAudio`, `status` | fields of `recCtx` (`status` is also the content of `/tmp/record.dat`) |
| `vv`, `aa` | thread ids of the encoders; "dead" is a thread that has left its loop and was not joined |
| `fps` | `fpsStatus`: ten frames or fewer, and how many 500 ms ticks since `tickFps` |
| `sdContext`, `sdstat` | what the disk thread last saw; what `disk_sdstat` made of it |
| `card` | present, full, directory there, indices of `hdz_NNNN` and which hold footage |

Names other than contiguous numbers (dates, ELRS labels with a date) cannot
collide and are not modelled. `LIVE_cmdSTOP` is the recorder's STOP, since it
does the same to a recording. `SAVE` and the audio pass-through commands change
nothing here.

`Faults` chooses what may fail: preparing the encoders, the header, either
thread, `mkdir`, a split, the encoder, or a *torn sample*: the disk thread
running between the few instructions of `disk_sdstat` that copy and those that
compare.

### 3.2 `RecorderService`

Five variables say what the users of the process see: is it serving, leaving,
closed (its queue removed), gone or crashed; the commands not yet taken; was
the last one START; is a session going; does `record.dat` say so. `Recorder`
maps to it by `phase`, `wanted`, `recording`, `says`, and `ServiceKept` is
`Service!Spec` with that mapping.

### 3.3 `Dvr`

The threads `input`, `peripheral`, `backpack`, `repair` and the process
`script` each have in `todo` the steps they still have to do. A handler starts
with a program (`app_switch_to_menu`, `exits`, `retunes`, `checks`, the list
`Tick` begins), and a step that branches replaces itself by what follows. So
`dvr_cmd` is: decide and deal with a missing card, without lock; take
`dvr_mutex` and test (`DoStart`, `DoStop`); write the configuration and only
then look at `g_sdcard_ready` (`Conf`); post and unlock (`Send`). The recorder
is `RecorderService`.

`g_app_state` has two values, video and anything else. `Inputs` chooses which
parts of the environment act, which keeps each run small:

| Input | What it lets happen |
|---|---|
| `menu`, `button`, `retune` | the long press, record on a click, a confirmed channel |
| `backpack`, `timer` | immediate and delayed recording commands |
| `card`, `full`, `dirtyCard` | the card is pulled and inserted, found full, found dirty and checked |
| `signal` | video timing changes, signal lost and found (automatic recording) |
| `slowCheck`, `slowQuit` | the wait for the check times out; the recorder takes more than two seconds to quit |

No listed run enables the last two; they are there for `SdRepair`. With
`slowQuit`, `RecorderBack` fails: the new process finds the old one still
running and exits, then the old one quits. No comment or document promises
otherwise, so this is listed as a hazard and not as a finding. Without
`slowQuit` the model assumes that the recorder is gone when the script's
`sleep 2` ends.

### 3.4 `Backpack`

Threads are lists of steps, as in `Dvr`: the main loop, the input thread, head
tracking, and two reader threads (a second one so that `OneReader` can fail).

| Variable | Code |
|---|---|
| `fd`, `tid`, `stopping` | the statics of `esp32.c` |
| `slot`, `sem`, `cancelled` | `response_packet`, `response_semaphore`, `cancelled` |
| `busy` | the flow that `g_elrs_msp_busy_until` covers |
| `polls`, `repower`, `armed`, `misses`, `recovered` | the timers of the pages, `elrs_enable_timer`, the watchdog |
| `binding`, `label`, `enable`, `booted` | the page's flag and label, the setting, main's gate |
| `power`, `asked`, `line`, `pairing`, `hung`, `bound` | the ESP32: its pin, what is on the wire, its state |

`msp_send_packet` is `Drain` and then `Ask` or `Tell`, so that an answer may
come between; `msp_await_resposne` is `AwaitStart`, `AwaitBind` (the answer, a
cancellation, the time-out) and `AwaitAgain`. `disable_esp32` joins the reader
where the code does. A click holds `lvgl_mutex` from entry to return but for the
wait of a bind.

Assumed: a page's clicks come after boot; the power switch is not used twice
within the 100 ms of a waiting `elrs_enable_timer` (once it may be); one burst of polls of a kind; one timer per call of
`lv_timer_handler`; unless the input `slow` is there, a
backpack that answers does so within the two seconds of a watchdog tick and of
an await. The reader's copy into the slot and its `sem_post` are one step, as
are setting `cancelled` and posting.

Inputs: `bind`, `wifi`, `power`, `enter`, `version`, `vtx` (the user), `query`,
`track`, `channel` (commands the backpack sends), `slow`, `hang`, `readError`
(faults).

### 3.5 `Tuner`

The goggle with both receivers. A switch is a list of steps: power or close one
receiver, open the other, note it, push the app state, set the source. The
thread `peripheral` runs `scan_core_hdz_bw_tick` (`BwTick`, `Recheck`, `Hop`),
`scan_core_idle_tick` (`IdleTick`, `Forget`, `CrossTick`) and
`try_crossover_probe` (`ProbeAnalog`, `Compare`, `TryOther`, `Look`, `Verdict`,
`Adopt`), taking the lock where the code takes it. `input` and `backpack` are
the other two who switch; `detect_motion` is the screen saver.

| Variable | Code |
|---|---|
| `app`, `previous`, `isSleeping`, `source` | `g_app_state`, `previousState`, `isSleeping`, `g_source_info.source` |
| `setting`, `detected` | `hdzero_bw` ("both", or fixed at "wide"), `g_hdz_detected_bw` |
| `open`, `bw`, `garbage` | `hdzero_open`, `hdz_bw`; the baseband locked on garbage, which an analog probe may cause and a reset cures (`scan_core.c` 764-770) |
| `avOn`, `avDown`, `probed` | rtc6715's power, `analog_powered_down`, `last_probe_ts` not zero |
| `vtx` | the transmitter |

A receiver shows at once whether it has a signal; the code's debounces are
nondeterministic delays. There is one channel. Inputs: `menu`, `sleep`,
`retune` (channel commands), `saver`, `idle` (the five seconds), `vtx`.

### 3.6 `AvStream` and `AvShare`

`AvStream` is the promise: a bounded pipe of parts of frames, where a part may
follow another only if the client can decode it. `AvShare` is the code: slots
with a flag each, an index on both sides, one connection byte, the encoder's
callback, `live_run`, and the reader. `StreamKept` is `Stream!Spec` with the
mapping `pipe` = the slots from the reader's place on, as many as are in use.

| Variable | Code |
|---|---|
| `connect`, `slot` | the byte and the ring, in shared memory |
| `write`, `rest`, `picked`, `adding` | the writer's index; the parts of the frame still to put; `pStreamHead`; the frames the callback still has to add |
| `dropped`, `live`, `first` | `iDropped`; the encoder; `nbFramesLive` = 0 |
| `source`, `read`, `mode`, `cursor` | the RTSP server's source, its index, and where `avshare_readFrame` is |
| `kept`, `gap`, `prev` | history, for the mapping |

A slot holds its kind and its place in the frame; `full` is a network packet
that has no more room. Where the other side may run in between, a function is
more than one action: `avshare_add` (the look at byte and slot, `avshare_add`;
copy and hand-over, `Publish`, whose buffer is that of the index as it is by
then), `live_start` (`live_run` starts the encoder, `LiveStarted` clears
`nbFramesLive`; the main loop does nothing else meanwhile), the reader's
`ReadFrame`, `Search`, `Copy`. One look at a flag and what follows from it up to
the next is one step. A fresh encoder's first frame is an I frame, as encoders'
are.

A client may come back as soon as he likes, while the encoder is still on and
the writer in the middle of his predecessor's frame. What such a client is
promised begins with the first parameter sets that find him caught up: ring
empty, both indices equal (`caughtUp`). One who comes when the encoder is off,
the writer at slot 0 and the ring empty (`settled`) is promised everything from
his first byte. `kept` says that the promise holds, and `StreamKept` is
`Stream!Spec` with `kept` for the client. What a client is given before is the
question of `BegunAnew`.

One thing is assumed, and given up by the fault `preempted`: while the reader
searches, the writer puts no more parts than the reader looks at slots, so that
it cannot overtake the search. `StreamKept` fails without it.

There is one source at a time, as `reuseFirstSource` (`rtspLive/main.cpp:351`)
makes it. Nobody sends rtspLive START or STOP (`main.cpp:462-468`); its QUIT,
which stops the ring from another thread at the process's end, and a restart of
the recorder during a stream (`avshare_uninit` removes the segment) are not
modelled, nor which run's parameter sets a frame goes out with; `enableLive` is
never cleared and audio is compiled out.

### 3.7 `Playback`

One streamed movie after the other. `io` is the download; `page`, `playing`,
`tier`, `recover_*` are `g_plex`; `media`, `screen`, `is_playing` are
`ui_player.c`'s; `pipe` holds every pipeline with its play state; `at` says
where each thread is. Since lvgl's timers run in the main loop and in the
pipelines' threads (`notify_cb`), `plex_timer_cb(t)` is an action of either.
Code under `lvgl_mutex` is one action; `mplayer_exit` and `mplayer_reopen_at`
give the mutex up to join the pipeline's thread, and there an action ends
(`Exit`, `Recover`; `Join`; `Exited`, `Reopened`). Meanwhile the other one may
come along: a pipeline joined twice, or objects drawn after they were freed,
end the program (`crash`). A pipeline's own thread that rebuilds joins itself
and waits for ever: the firmware is built with musl (`setup.sh:2`), whose
`pthread_join` does not answer `EDEADLK`.

Time is in steps of five seconds and bytes in buffers of `PLEX_BUFFER_START`.
The demuxer may come to its end whenever it likes, may refuse to resume in
place, and the platform may refuse a file. Assumed: threads can be created, the
runtime is known, the player's keys are used only while no earlier pipeline is
left (what happens to two pipelines is up to the vendor's code). Inputs: `exit`,
`pause` (and seek), `leave` the page, `fails` (the server), `badFile`, `empty`
(an answer of no bytes).

## 4. Runs

| Run | Question | Result |
|---|---|---|
| `recorder_safety` | `ContainerInPlace`, `StatusIsTrue`, `NoOverwrite`, `ServiceKept` and `TypeOK` under every fault but a failing split and a torn sample | hold, 1.2 million states |
| `recorder_live` | `StopWins`, `LostCardStops`, `SilenceReported`, `SessionResumes`, `SessionEnds` with encoders that may die | hold |
| `recorder_split` | `FootageKept`, `ServiceKept` when a split may fail | hold |
| `dvr_safety` | `TypeOK`, `NoOrphan` with menu, button, dial, backpack, timer, automatic recording | hold, 2.3 million states |
| `dvr_live` | `Agreement`, `EveryCallEnds`, `PendingHonoured`, `RecorderBack`, `NoOrphan` with a button and a card that comes, goes and is checked | hold, 128 thousand states |
| `backpack_safety` | `OneReader`, `PowerFollowsSwitch`, `SuccessIsReal`, `BindUndisturbed`, `TypeOK` with binds, late answers, the power switch, retuning commands, both pages, a reader that dies | hold, 3.6 million states |
| `backpack_live` | `PowerFollowsSwitch`, `ClickReturns`, `Healed` with the power switch, Wi-Fi, head tracking, a backpack that hangs | hold, 69 thousand states |
| `tuner` | `AnalogStaysOn`, `Reacquired`, `TypeOK` through menu, sleep, saver, idle power-down, any transmitter | hold, 266 thousand states |
| `avshare` | `StreamKept` (the refinement), `StreamFlows`, `TypeOK` | hold, 837 thousand states |
| `avshare_reconnect` | `BegunAnew`, for clients who come back at once | violated |
| `playback` | `StreamReleased`, `WayOut`, `BufferingEnds`, `MovieEnds`, `TypeOK` with every input but `empty` | hold, 960 thousand states |
| `playback_pipeline` | `OnePipeline`, for a user who only starts movies | violated |

### 4.1 What the violations show

**`playback_pipeline`.** `plex_end_playback` is the end of a movie in two places. After the long press
`mplayer_exit` has run before it. When the movie ends by itself (its runtime is
reached, nothing more comes, recovery gave up) the page's timer calls it alone:
the download is stopped and the library is shown, but the pipeline, its thread
and the player's objects stay. The next movie's `mplayer_file` makes a second
set of each and overwrites `media`, so that nobody can end the first.

**`avshare_reconnect`.** `avshare_disconnect` clears the byte, sleeps 100 us "to
make sure that write does not go on", and returns. The recorder looks at the
byte every 100 ms, or with its next frame. The source of a client's DESCRIBE is
closed and the source of its SETUP opened a round trip later, so that the
recorder often sees no break at all: the encoder is on, `nbFramesLive` is not 0,
and the new client's first part is whatever comes, a P frame that cannot be
decoded, or the middle of a frame. It lasts until the next I frame that finds
the ring empty. TLC's trace is the shortest one, where the client changes while
`live_start` runs.

### 4.2 Bounds

- `MaxIndex` 1 (0 in `recorder_live`): a card with no, one or two recordings,
  so that an index can be free, just used, or taken by an earlier session. The
  theorems hold for every `MaxIndex`.
- `MaxQueue` 1, and 2 in `recorder_split`, where a crash leaves the queue
  behind: the next process drops one old command and obeys the other. One is
  enough for senders to meet a full queue, and a sender that waits there is a
  second command on its way. The theorems hold for every `MaxQueue`.
- `FpsTicks` 2: a second is two idle ticks.
- `MissLimit` 2: one miss that heals and one that powers off. `MaxPolls` 1: a
  burst in which the answer is early or late. `MaxLine` 1: what is sent to a
  full line is lost (a request) or waits (an answer). `MaxSem` 2 in
  `backpack_safety`: an answer and a cancellation.
- `Slots` 3, `MaxParts` 2 in `avshare`: a frame that wraps, one that meets the
  previous one half read, one that finds the ring full half-way; 1
  in `avshare_reconnect`, whose frames need no length. The theorems hold for any
  number of both.
- `dvr_live` has two senders and the check of the card, `dvr_safety` every
  sender and no card: together they would not be checked in reasonable time,
  and liveness not with more than two senders. `NoOrphan` is a theorem for all
  inputs at once.
- `MaxIndex` stands for 9999: `disk_countMovies` reads four digits back
  (`disk.c:288`). After the 10000th recording the code takes an index that is in
  use and truncates its file; the models end before that.
- `MaxPipelines` 2: one left behind and one in use. `MaxBytes` 3, `Runtime` 2,
  `MaxTries` 2, `Tiers` 2: each limit can be missed, met and passed.
- `Inputs`, `Faults`: each run takes those whose interplay it asks about; every
  action and every disjunct fires in one of the passing runs.

Deadlock checking is on in `tuner` and `avshare`. It is off elsewhere: the
recorder may have quit with nobody to restart it, a backpack that is switched
off is left alone, a crashed app does nothing.

### 4.3 Fairness

`Recorder`: the main thread, the disk thread and a live video encoder are
scheduled. The idle tick is strongly fair: `tkIdle` is reset only by START and
STOP, and `dvr_cmd` sleeps two seconds after each while a tick needs half a
second. `RecorderService` promises to take commands, end what nobody wants, say
so, and leave; it does not promise to begin a session. `Dvr`: a thread waiting
for a mutex or for room in the queue gets it eventually (strong fairness), since
every holder's work is finite; every fifth tick polls the recorder.
`Backpack`: threads go on; the input thread and each timer of the main loop get
`lvgl_mutex` in the end (strong fairness: its holders let go every 5 ms); time
passes (`BusyEnds`, `Boot`); a backpack that does not hang answers. `Tuner`:
threads go on, and a receiver that stays dark gets its attempts, which is what
the tick counters of both watchdogs count to. `AvShare`: both loops go on,
`live_start` returns (`LiveStarted`), and the encoder makes an I frame again and
again (`maxKeyItl`). `Playback`: the
main loop gets the mutex, pipelines and joins go on, the download moves or ends.

No input of the pilot, the card, the transmitter, the radio or the client is
fair anywhere.

The two seconds `dvr_cmd` sleeps after a command are not used as an ordering:
the models let the recorder be slower.

### 4.4 Known and not claimed

The modules have behaviours that no listed property forbids, because the code
has them. The hazards of `PROJECT.json` give the lines.

- A failed split leaves `record.dat` at 1 with no container; the next frame
  crashes the recorder. Code 7, "open record file failed", is overwritten before
  `record_start` returns.
- Opening the menu does not drop a recording that waits for a card, nor a start
  the backpack has delayed, nor one that the signal check has decided on.
- With `channel`, a power-off by a click waits for a reader that waits for the
  click's mutex. Switching the backpack off ends the watchdog for good: nothing
  arms it again. A cancellation before `cancelled = false` is lost.
- With `retune` and `idle`, the analog receiver may be switched off under an
  analog picture. A crossover may wake the screen's state out of sleep without
  waking the goggle.
- `detect_sdcard` tests the repair flag at its top (`thread.c:46`), and the
  repair raises it after a wait for `lvgl_mutex`: the rest of the pass may begin
  the recording that waited for the card that is about to be checked.
- With `track`, a backpack that answers every heartbeat may be power-cycled,
  once: each head tracking packet empties the semaphore (`elrs.c:613`), and with
  it throws the answer away.
- With `preempted`, parts of the stream change places.
- A torn sample of the card lets a recording be overwritten; after a recorder
  slower than `sleep 2` none is running (`slowQuit`).
- With `empty`, a movie buffers until the user cancels. Two rebuilds in a row
  without a picture start the movie again. An exit during a rebuild crashes.

## 5. Proofs

`RecorderProofs` proves, for every `MaxIndex`, `MaxQueue` and `Faults` that
`RecorderAssumption` allows:

| Theorem | Statement | Assumption |
|---|---|---|
| `TypeCorrect` | `Spec => []TypeOK` | |
| `ContainerSafe` | `Spec => []ContainerInPlace` | no failing split |
| `StatusTrue` | `Spec => []StatusIsTrue` | no failing split |
| `NothingOverwritten` | `Spec => NoOverwrite` | no torn sample |
| `FootageSafe` | `Spec => FootageKept` | no torn sample |
| `ServiceImplemented` | `Spec => ServiceKept` | |

The argument, one inductive invariant at a time:

- `TypeInv`: `TypeOK` and two facts about control: where `ret` may point while
  `pc` is inside `record_start` or `record_stop` (`Opening`), and what `isExit`
  and a closed queue say about it (`Leaving`). `TypeOK` alone does not show
  that the index stays in range, since `PackNext` and `Started` add one.
- `ContainerInv`: the container by location: open from `video` until `close`,
  and whenever an encoder thread lives. It is stronger than `ContainerInPlace`,
  which says nothing of the middle of `record_start`.
- `StatusInv`: what `status` may be while a session is started or stopped; at
  `report` the status is stale and about to be replaced.
- `UsableInv`, `WatchInv`, `CardInv`, `CountInv`: a sample that says the card is
  mounted and free belongs to the card that is in, or the flag that makes the
  recorder count again is up; so when `record_start` or `record_pack` opens
  `nbFileIndex`, it is above every index on the card. The torn sample is
  exactly what breaks this chain.

`ServiceImplemented` maps each action to a step of `RecorderService` or to a
stutter.

`PlaybackProofs` proves, for every value of the constants that
`PlaybackAssumption` allows and every set of `Inputs`:

| Theorem | Statement |
|---|---|
| `TypeCorrect` | `Spec => []TypeOK` |
| `NoStreamLeft` | `Spec => []StreamReleased` |
| `WayOutStays` | `Spec => []WayOut` |

- `TypeInv` adds to `TypeOK` that `recover_tries` has not passed its limit while
  a movie plays: the try that passes it also ends the movie, so the counter
  never counts on from there.
- `StreamInv` adds to `StreamReleased` that the download has its record's
  fields: `plexstream_stop` says something of `active` only then.
- `WayOut` is inductive as it stands. Both arguments go through one lemma about
  a tick of the page's timer, as the main loop and every pipeline run it.

`DvrProofs` proves, for every `MaxQueue`, both modes and every set of `Inputs`
that `DvrAssumption` allows:

| Theorem | Statement |
|---|---|
| `TypeCorrect` | `Spec => []TypeOK` |
| `NobodyOrphaned` | `Spec => []NoOrphan` |
| `MutexReturned` | an idle thread never owns `dvr_mutex`, and at most one thread is under it |

The invariant `DvrInv` has three parts.

- `Threading`: `dvr_mutex` is owned by `t` exactly when `t`'s next step is one
  of the four taken under it, and no program has such a step further on. Each
  handler's program is shown to be a sequence of the other steps once; after
  that an action only has to say which thread moves and whether the step it
  leaves or reaches is a critical one (`ThenPlain`, `BeginPlain`,
  `ThenCritical`, `PlainMovesKeep`).
- `Session` is what `NoOrphan` says and also holds while the mutex is taken:
  `dvr_is_recording` is set before START is posted and cleared before STOP is,
  so in between a thread stands at the very step that will post. `NoOrphan`
  alone says nothing of these moments and is not inductive.
- `RecorderPart` and `AppTypes` are types; `SendTells`, `TakeTells` and
  `PostTells` say what the recorder's and the senders' steps do to the last
  command told, which is all that `Session` needs of the queue.

`AvShareProofs` proves, for every `Slots` and `MaxParts` that
`AvShareAssumption` allows, with clients that come and go at any moment:

| Theorem | Statement | Assumption |
|---|---|---|
| `TypeCorrect` | `Spec => []TypeOK` | |
| `AccountsTally` | `Spec => []RingInv` | not `preempted` |
| `StreamImplemented` | `Spec => StreamKept` | not `preempted` |

What is assumed is a bound on how long the reader may lose the processor in the
middle of a search, nothing about clients: the invariant speaks of indices and
flags only while `kept`. That a client who came too soon is `kept` from
`caughtUp` on needs no assumption on when he came: whatever the indices were, an
empty ring and equal indices at the parameter sets leave nothing of it.

`RingInv` is what the code never writes down. From the reader's place on, as
many slots are in use as the writer is ahead, all others are free and the
writer's index is the first of these (`Ring`); where the writer is in a frame
agrees with what it has yet to add (`Stages`, `Callback`); and what it puts next
may follow what it put last, unless it knows of a gap and drops up to an I frame
(`Fits`). From `Ring` follows that the reader's search of all flags, which looks
as if it might find any slot, finds the one at its own place or none: that is
why the order is kept. `Modulo`, `Places`, `FullCount`, `FullPut` and `FullTake`
are the arithmetic of a ring, `Line`, `LinePut`, `LineTake` say what a slot
written or freed does to the sequence the mapping reads off it. `StreamStep` then
maps a slot published to `Put`, a slot copied to `Take`, connecting and stopping
to `Open` and `Close`, dropped parts to `Lose`, and the rest to a stutter. With
`preempted` the refinement is false, as TLC shows.

`TunerProofs` proves, with and without automatic detection and for every set of
`Inputs`:

| Theorem | Statement | Assumption |
|---|---|---|
| `TypeCorrect` | `Spec => []TypeOK` | |
| `AnalogStays` | `Spec => []AnalogStaysOn` | not automatic detection, `retune` and `idle` together |
| `LockReturned` | a thread with nothing left to do does not own `lvgl_mutex` | |

`AnalogStaysOn` speaks of a moment when nobody is at work; the invariant
`TunerInv` has to say what each thread may still do before that.

- `Control`: without the lock a thread has only steps that cannot darken an
  analog picture (`Outside`), or is about to take the lock for a section that
  stands for itself whatever it finds (`SelfContained`: it shows HDZero, or
  switches the analog receiver on after any switching off). Under the lock its
  steps up to the closing one end well from where things are now (`Keeps`): the
  last thing said of the screen is that it is not video, or of the source that
  it is HDZero, or of the receiver that it is on. The lock is given back, and
  the crossover goes from one section into the next, only when the picture is
  lit (`Lit`).
- The one exception is `scan_core_idle_tick`, which switches the receiver off
  without the lock because it has seen HDZero as the source (`Idling`). Only a
  channel command can change that meanwhile (`Sources`), so the theorem excludes
  that pair, and TLC shows that it must (4.4). What it excludes is an input,
  not a state: with only one of the two everything is covered.
- `Found`: `adopt` is in a program only under the lock it was planned for, and
  only after the sweep found something.

`TailSection`, `TailEnds`, `HeldTail` say what a step taken off a program leaves
of these facts, `SectionJoin`, `JoinEnds`, `SwitchSection`, `RequestKeeps` what a
program put in front of it brings; after that an action only says who moves
(`HeldMoves`, `UnheldMoves`).

`BackpackProofs` proves, for every `MissLimit`, `MaxPolls`, `MaxLine`, `MaxSem`
and `Inputs` that `BackpackAssumption` allows, faults included:

| Theorem | Statement |
|---|---|
| `TypeCorrect` | `Spec => []TypeOK` |
| `ReaderAlone` | `Spec => []OneReader` |
| `PowerTrue` | `Spec => []PowerFollowsSwitch` |
| `SuccessTrue` | `Spec => SuccessIsReal` |
| `BindLeftAlone` | `Spec => BindUndisturbed` |
| `LockReturned` | neither a thread with nothing left to do nor the click that waits for a bind owns `lvgl_mutex` |

What the properties say of a quiet moment holds because of what each click and
each timer has yet to do. The invariant `BackpackInv` says that.

- `Control`: main's loop and the input thread never work at the same time, but
  for the wait of a bind. Whoever works has a program of two parts: a phase
  (`P`), which is what `disable_esp32`, `enable_esp32`, a request, a poll or the
  watchdog has left, and an end (`K`), which is how its handler closes.
- `Powered` says, phase by phase, what is true of the power pin, the open port
  and the timer of a cancelled bind. Between phases it is `Rested`, which is
  stronger than `PowerFollowsSwitch`: it also ties the port to the pin. The timer
  of a cancelled bind may wait with the switch off; it looks when it fires.
- `Flow` says what a bind may count on. From the backpack's acknowledgement to
  the result shown, `Pairing` holds: the watchdog waits, nobody has switched
  off, and an "O" in the slot is of a bind that happened. A bind whose request
  did not get through (`NoStart`) never reaches the wait. The wait itself gives
  `lvgl_mutex` up, and then main's loop has only phases that leave the power
  alone (`Calm`).
- `Reading`: a reader owns the thread id it was started with and needs an open
  port, until it is joined.
- `Chip`: a closed port has nothing on its line, a backpack without power has no
  requests, and an "O" is on the line only when the bind was made. That is why
  a late answer to an earlier request cannot pass for success.

`Facing` and `Heads` read the next step off a phase and its end; there is one
lemma for each action, by the phase it leaves and the one it reaches.
`BindUndisturbed` is about one step, but a step of main's loop under the
waiting click, so it needs all of `Control`.

Every invariant and every action property of the passing runs is a theorem. What
stays with TLC are the liveness properties (`StopWins`, `LostCardStops`,
`SilenceReported`, `SessionResumes`, `SessionEnds`, `Agreement`,
`EveryCallEnds`, `PendingHonoured`, `RecorderBack`, `ClickReturns`, `Healed`,
`Reacquired`, `StreamFlows`, `BufferingEnds`, `MovieEnds`): liveness under
fairness, and ENABLED, are out of the prover's reach. `ServiceKept`
and `StreamKept` are refinements of specifications without fairness, and proved
as such; the fairness of `RecorderService`, which the liveness of `Dvr` uses, is
backed by what `recorder_live` checks (`StopWins`, `SessionEnds`).

## 6. Not modelled

`PROJECT.json` names each component left out and why. In the modelled ones:
the boot-time branch of `detect_sdcard`, the manual repair, starring and the
race label, the recorder's pictures, the dial's tune state machine and its
probes, HDMI and AV in, the MSP byte parser, flashing the backpack, the page of
recordings, the worker that fetches libraries and posters, the thread that
reports to Jellyfin, a channel command of the backpack during a movie. Most of
the repository's lines are fonts, images, drivers and third-party code.
Durations are abstracted to "later", except where the code counts ticks.
