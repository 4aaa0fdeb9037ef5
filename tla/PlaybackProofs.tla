--------------------------- MODULE PlaybackProofs ---------------------------
(***************************************************************************)
(* What the player's page guarantees for every length of movie and of      *)
(* stream, every number of tries and of qualities, and every input.        *)
(***************************************************************************)
EXTENDS Playback, TLAPS

Io == [active : BOOLEAN, bytes : 0..MaxBytes, result : {"none", "ok", "auth", "net"}]
Results == {"none", "ok", "auth", "net"}

(* The record types, and the updates that the page and the player make.    *)
LEMMA IoTypes ==
  ASSUME NEW i \in Io
  PROVE  /\ i.active \in BOOLEAN /\ i.bytes \in 0..MaxBytes /\ i.result \in Results
         /\ \A r \in Results : [i EXCEPT !.result = r] \in Io
         /\ \A r \in Results : [i EXCEPT !.active = FALSE, !.result = r] \in Io
         /\ \A r : [i EXCEPT !.active = FALSE, !.result = r].active = FALSE
         /\ i.bytes < MaxBytes => [i EXCEPT !.bytes = @ + 1] \in Io
<1>1. i.active \in BOOLEAN /\ i.bytes \in 0..MaxBytes /\ i.result \in Results
  BY DEF Io, Results
<1>2. \A r \in Results : [i EXCEPT !.result = r] \in Io
  BY DEF Io, Results
<1>3. \A r \in Results : [i EXCEPT !.active = FALSE, !.result = r] \in Io
  BY DEF Io, Results
<1>4. \A r : [i EXCEPT !.active = FALSE, !.result = r].active = FALSE
  BY DEF Io
<1>5. i.bytes < MaxBytes => [i EXCEPT !.bytes = @ + 1] \in Io
  <2>1. i.bytes < MaxBytes => i.bytes + 1 \in 0..MaxBytes
    BY <1>1, PlaybackAssumption
  <2>2. \A b \in 0..MaxBytes : [i EXCEPT !.bytes = b] \in Io
    BY DEF Io
  <2> QED
    BY <2>1, <2>2
<1> QED
  BY <1>1, <1>2, <1>3, <1>4, <1>5

LEMMA PipeTypes ==
  ASSUME NEW p \in Pipe
  PROVE  /\ p.pos \in 0..Runtime /\ p.seek \in -1..Runtime
         /\ [p EXCEPT !.life = "quit"] \in Pipe /\ [p EXCEPT !.life = "ended"] \in Pipe
         /\ started(p) \in Pipe /\ halted(p) \in Pipe
         /\ \A ms \in 0..Runtime : sought(p, ms) \in Pipe
         /\ [p EXCEPT !.eof = TRUE, !.completed = TRUE] \in Pipe
         /\ \A ms \in 0..Runtime : [p EXCEPT !.eof = FALSE, !.completed = FALSE,
                                             !.paused = FALSE, !.seek = ms] \in Pipe
         /\ \A ms \in 0..Runtime : [p EXCEPT !.seek = -1, !.pos = ms] \in Pipe
<1>1. Runtime \in Nat /\ -1 \in -1..Runtime /\ \A ms \in 0..Runtime : ms \in -1..Runtime
  BY PlaybackAssumption
<1>2. p.pos \in 0..Runtime /\ p.seek \in -1..Runtime
  BY DEF Pipe
<1>3. [p EXCEPT !.life = "quit"] \in Pipe /\ [p EXCEPT !.life = "ended"] \in Pipe
  BY DEF Pipe
<1>4. started(p) \in Pipe /\ halted(p) \in Pipe
  BY DEF Pipe, started, halted
<1>5. \A ms \in 0..Runtime : sought(p, ms) \in Pipe
  BY <1>1 DEF Pipe, sought
<1>6. [p EXCEPT !.eof = TRUE, !.completed = TRUE] \in Pipe
  BY DEF Pipe
<1>7. \A ms \in 0..Runtime : [p EXCEPT !.eof = FALSE, !.completed = FALSE,
                                      !.paused = FALSE, !.seek = ms] \in Pipe
  BY <1>1 DEF Pipe
<1>8. \A ms \in 0..Runtime : [p EXCEPT !.seek = -1, !.pos = ms] \in Pipe
  BY <1>1 DEF Pipe
<1> QED
  BY <1>2, <1>3, <1>4, <1>5, <1>6, <1>7, <1>8

(* A pipeline that was never there, or is gone; and one that begins.       *)
LEMMA NoneTypes ==
  /\ None \in Pipe
  /\ \A ms \in -1..Runtime : [None EXCEPT !.life = "up", !.seek = ms] \in Pipe
<1>1. Runtime \in Nat /\ 0 \in 0..Runtime /\ -1 \in -1..Runtime
  BY PlaybackAssumption
<1>2. None \in Pipe
  BY <1>1 DEF None, Pipe
<1>3. \A ms \in -1..Runtime : [None EXCEPT !.life = "up", !.seek = ms] \in Pipe
  BY <1>2 DEF Pipe
<1> QED
  BY <1>2, <1>3

(* plexstream.c hands back a download in the shape it took it: a new one   *)
(* runs and has no result, a stopped one does not run.                     *)
LEMMA IoSteps ==
  ASSUME io \in Io
  PROVE  /\ plexstream_begin => io' \in Io
         /\ plexstream_stop => io' \in Io /\ ~io'.active
<1>1. plexstream_begin => io' \in Io
  <2>1. MaxBytes \in Nat
    BY PlaybackAssumption
  <2> QED
    BY <2>1 DEF plexstream_begin, Io
<1>2. plexstream_stop => io' \in Io /\ ~io'.active
  <2>1. io.result \in Results /\ "ok" \in Results
    BY IoTypes DEF Results
  <2>2. CASE io.active
    <3>1. plexstream_stop => \E r \in Results : io' = [io EXCEPT !.active = FALSE, !.result = r]
      <4> DEFINE r == IF done THEN io.result ELSE "ok"
      <4>1. r \in Results
        BY <2>1
      <4>2. plexstream_stop => io' = [io EXCEPT !.active = FALSE, !.result = r]
        BY <2>2 DEF plexstream_stop
      <4> QED
        BY <4>1, <4>2
    <3> QED
      BY <3>1, IoTypes
  <2>3. CASE ~io.active
    BY <2>3 DEF plexstream_stop
  <2> QED
    BY <2>2, <2>3
<1> QED
  BY <1>1, <1>2

(* StreamReleased alone is not inductive: what plexstream_stop leaves      *)
(* active is known only of a download that has its shape.                  *)
StreamInv == io \in Io /\ StreamReleased

LEMMA DownloadKeepsShape ==
  ASSUME io \in Io, Download
  PROVE  io' \in Io /\ io'.active = io.active
<1>1. io.bytes \in 0..MaxBytes /\ {"ok", "auth", "net"} \subseteq Results
  BY IoTypes DEF Results
<1>2. CASE io.bytes < MaxBytes /\ io' = [io EXCEPT !.bytes = @ + 1]
  BY <1>2, IoTypes DEF Io
<1>3. ASSUME NEW r \in Results, io' = [io EXCEPT !.result = r]
      PROVE  io' \in Io /\ io'.active = io.active
  <2>1. io' \in Io
    BY <1>3, IoTypes
  <2>2. io'.active = io.active
    BY <1>3 DEF Io
  <2> QED
    BY <2>1, <2>2
<1> QED
  BY <1>1, <1>2, <1>3 DEF Download

(* What a tick of the page's timer does with the download, in either of    *)
(* the threads that run it: it leaves page and download alone, or stops    *)
(* the download, or buffers another one, or plays it.                      *)
LEMMA TimerReleases ==
  ASSUME NEW t, StreamInv, plex_timer_cb(t)
  PROVE  StreamInv'
<1>1. CASE plexstream_stop
  BY <1>1, IoSteps DEF StreamInv, StreamReleased
<1>2. CASE plex_launch_player
  BY <1>2 DEF StreamInv, StreamReleased, plex_launch_player
<1>3. CASE page = "buffering" /\ plex_stream_step_down
  BY <1>3, IoSteps DEF StreamInv, StreamReleased, plex_stream_step_down
<1>4. CASE UNCHANGED <<page, playing, io>>
  BY <1>4 DEF StreamInv, StreamReleased
<1>5. CASE Buffering /\ page = "buffering"
  BY <1>1, <1>2, <1>3, <1>5 DEF Buffering, StepDownOrFail
<1>6. CASE EndPlayback
  BY <1>1, <1>6 DEF EndPlayback, plex_end_playback
<1>7. CASE Recover(t)
  BY <1>1, <1>4, <1>7 DEF Recover, plex_end_playback
<1> QED
  BY <1>5, <1>6, <1>7 DEF plex_timer_cb, plex_handle_playback_end

(* No download or transcode session is left running behind the page: one   *)
(* goes on only while the page buffers or a movie plays (plexstream_stop   *)
(* on every way out of page_plex.c).                                       *)
THEOREM NoStreamLeft == Spec => []StreamReleased
<1>1. Init => StreamInv
  <2>1. MaxBytes \in Nat
    BY PlaybackAssumption
  <2> QED
    BY <2>1 DEF Init, StreamInv, StreamReleased, Io
<1>2. StreamInv /\ [Next]_vars => StreamInv'
  <2> SUFFICES ASSUME StreamInv, [Next]_vars
               PROVE  StreamInv'
    OBVIOUS
  <2> USE DEF StreamInv, StreamReleased
  <2>1. CASE Download
    BY <2>1, DownloadKeepsShape DEF Download
  <2>2. CASE Tick
    BY <2>2, TimerReleases DEF Tick
  <2>3. CASE plex_start_playback
    BY <2>3, IoSteps DEF plex_start_playback
  <2>4. CASE Cancel
    BY <2>4, IoSteps DEF Cancel
  <2>5. CASE Exit
    BY <2>5 DEF Exit
  <2>6. CASE PlayerKey
    BY <2>6 DEF PlayerKey
  <2>7. CASE Leave
    BY <2>7, IoSteps DEF Leave
  <2>8. CASE Return
    BY <2>8 DEF Return
  <2>9. CASE Exited
    BY <2>9, IoSteps DEF Exited, plex_end_playback
  <2>10. ASSUME NEW t \in Threads, ThreadStep(t)
         PROVE  StreamInv'
    BY <2>10 DEF ThreadStep, Join, Reopened
  <2>11. ASSUME NEW p \in Pipelines, Pipeline(p)
         PROVE  StreamInv'
    <3>1. CASE Decode(p)
      BY <3>1 DEF Decode
    <3>2. CASE Notify(p)
      BY <3>2, TimerReleases DEF Notify
    <3>3. CASE Quit(p)
      BY <3>3 DEF Quit
    <3> QED
      BY <2>11, <3>1, <3>2, <3>3 DEF Pipeline
  <2>12. CASE UNCHANGED vars
    BY <2>12 DEF vars
  <2> QED
    BY <2>1, <2>2, <2>3, <2>4, <2>5, <2>6, <2>7, <2>8, <2>9, <2>10, <2>11, <2>12 DEF Next, User
<1>3. StreamInv => StreamReleased
  BY DEF StreamInv
<1> QED
  BY <1>1, <1>2, <1>3, PTL DEF Spec
-----------------------------------------------------------------------------
(* A tick starts the player with everything the way out needs, or ends the *)
(* movie, or leaves the page, the app's state and the player's screen.     *)
LEMMA TimerKeepsWayOut ==
  ASSUME NEW t, WayOut, plex_timer_cb(t)
  PROVE  WayOut'
<1>1. CASE plex_end_playback
  BY <1>1 DEF WayOut, plex_end_playback
<1>2. CASE plex_launch_player
  BY <1>2 DEF WayOut, plex_launch_player, mplayer_file
<1>3. CASE UNCHANGED <<playing, app, screen>>
  BY <1>3 DEF WayOut
<1>4. CASE Buffering
  BY <1>2, <1>3, <1>4 DEF Buffering, StepDownOrFail, plex_stream_step_down, player
<1>5. CASE EndPlayback
  BY <1>1, <1>5 DEF EndPlayback
<1>6. CASE Recover(t)
  BY <1>1, <1>3, <1>6 DEF Recover
<1> QED
  BY <1>4, <1>5, <1>6 DEF plex_timer_cb, plex_handle_playback_end

(* Whoever watches a movie can leave it: as long as the page plays one the *)
(* app is in the state that sends the long press to the player, and the    *)
(* player is up to take it.                                                *)
THEOREM WayOutStays == Spec => []WayOut
<1>1. Init => WayOut
  BY DEF Init, WayOut
<1>2. WayOut /\ [Next]_vars => WayOut'
  <2> SUFFICES ASSUME WayOut, [Next]_vars
               PROVE  WayOut'
    OBVIOUS
  <2>1. CASE Download
    BY <2>1 DEF Download, player, WayOut
  <2>2. CASE Tick
    BY <2>2, TimerKeepsWayOut DEF Tick
  <2>3. CASE User
    <3> USE DEF player, WayOut
    <3>1. CASE plex_start_playback \/ Cancel \/ Return
      BY <3>1 DEF plex_start_playback, Cancel, Return
    <3>2. CASE Exit \/ PlayerKey
      BY <3>2 DEF Exit, PlayerKey
    <3>3. CASE Leave
      BY <3>3 DEF Leave
    <3> QED
      BY <2>3, <3>1, <3>2, <3>3 DEF User
  <2>4. CASE Exited
    BY <2>4 DEF Exited, plex_end_playback, WayOut
  <2>5. ASSUME NEW t \in Threads, ThreadStep(t)
        PROVE  WayOut'
    BY <2>5 DEF ThreadStep, Join, Reopened, WayOut
  <2>6. ASSUME NEW p \in Pipelines, Pipeline(p)
        PROVE  WayOut'
    <3>1. CASE Decode(p) \/ Quit(p)
      BY <3>1 DEF Decode, Quit, WayOut
    <3>2. CASE Notify(p)
      BY <3>2, TimerKeepsWayOut DEF Notify, player, WayOut
    <3> QED
      BY <2>6, <3>1, <3>2 DEF Pipeline
  <2>7. CASE UNCHANGED vars
    BY <2>7 DEF vars, player, WayOut
  <2> QED
    BY <2>1, <2>2, <2>3, <2>4, <2>5, <2>6, <2>7 DEF Next
<1> QED
  BY <1>1, <1>2, PTL DEF Spec
-----------------------------------------------------------------------------
(* TypeOK alone is not inductive: recover_tries stays in its range because *)
(* the try that passes the limit also ends the movie.                      *)
TypeInv == TypeOK /\ (playing => recover_tries <= MaxTries)

(* What the constants' assumption says of the ranges.                      *)
LEMMA InRange ==
  /\ {MaxPipelines, MaxBytes, Runtime, MaxTries, Tiers} \subseteq Nat
  /\ MaxTries > 0 /\ Tiers > 0
  /\ 0 \in 0..MaxBytes /\ 0 \in 0..Runtime /\ 0 \in 0..MaxTries + 1 /\ 0 \in 0..MaxPipelines
  /\ Pipelines \subseteq Threads /\ Pipelines \subseteq 0..MaxPipelines
  /\ {Main, Input} \subseteq Threads
BY PlaybackAssumption DEF Pipelines, Threads, Main, Input

(* One pipeline changes, and the others stay.                              *)
LEMMA PipeUpdate ==
  ASSUME NEW f \in [Pipelines -> Pipe], NEW p, p \in Pipelines => f[p] \in Pipe
  PROVE  /\ \A new \in Pipe : [f EXCEPT ![p] = new] \in [Pipelines -> Pipe]
         /\ p \in Pipelines => [f EXCEPT ![p].life = "quit"] \in [Pipelines -> Pipe]
         /\ p \in Pipelines => [f EXCEPT ![p].life = "ended"] \in [Pipelines -> Pipe]
<1>1. \A new \in Pipe : [f EXCEPT ![p] = new] \in [Pipelines -> Pipe]
  OBVIOUS
<1>2. ASSUME p \in Pipelines
      PROVE  /\ [f EXCEPT ![p].life = "quit"] \in [Pipelines -> Pipe]
             /\ [f EXCEPT ![p].life = "ended"] \in [Pipelines -> Pipe]
  <2>1. [f[p] EXCEPT !.life = "quit"] \in Pipe /\ [f[p] EXCEPT !.life = "ended"] \in Pipe
    BY <1>2, PipeTypes
  <2> QED
    BY <1>1, <2>1
<1> QED
  BY <1>1, <1>2

(* Where the player is, and how often the page may have tried.             *)
LEMMA PositionTypes ==
  ASSUME TypeInv
  PROVE  /\ io \in Io
         /\ media_position \in 0..Runtime
         /\ playing => tries \in 1..MaxTries + 1
         /\ media # 0 => media \in Pipelines /\ pipe[media] \in Pipe
         /\ Runtime \in Nat /\ MaxTries \in Nat
<1>1. io \in Io
  BY DEF TypeInv, TypeOK, Io
<1>2. media # 0 => media \in Pipelines /\ pipe[media] \in Pipe
  BY InRange DEF TypeInv, TypeOK, Pipelines
<1>3. media_position \in 0..Runtime
  BY <1>2, PipeTypes, InRange DEF media_position
<1>4. playing => tries \in 1..MaxTries + 1
  BY InRange DEF tries, TypeInv, TypeOK
<1> QED
  BY <1>1, <1>2, <1>3, <1>4, InRange

(* media_init leaves a well-formed player, whatever position it is told.   *)
LEMMA MediaInitTypes ==
  ASSUME TypeInv, NEW ms \in -1..Runtime, media_init(ms)
  PROVE  pipe' \in [Pipelines -> Pipe] /\ media' \in 0..MaxPipelines
<1>1. pipe \in [Pipelines -> Pipe] /\ media \in 0..MaxPipelines
  BY DEF TypeInv, TypeOK
<1>2. ASSUME NEW p \in free, pipe' = [pipe EXCEPT ![p] = [None EXCEPT !.life = "up", !.seek = ms]],
             media' = p
      PROVE  pipe' \in [Pipelines -> Pipe] /\ media' \in 0..MaxPipelines
  <2>1. p \in Pipelines
    BY DEF free
  <2>2. [None EXCEPT !.life = "up", !.seek = ms] \in Pipe
    BY NoneTypes
  <2> QED
    BY <1>1, <1>2, <2>1, <2>2, InRange
<1> QED
  BY <1>1, <1>2, InRange DEF media_init

(* media_exit leaves every thread somewhere, and joins what was there.     *)
LEMMA MediaExitTypes ==
  ASSUME TypeInv, NEW t \in Threads, media_exit(t)
  PROVE  /\ at' \in [Threads -> {"work", "notify", "join", "enter", "dead"}]
         /\ target' \in [Threads -> 0..MaxPipelines]
         /\ pipe' \in [Pipelines -> Pipe]
<1>1. media # 0 => media \in Pipelines /\ pipe[media] \in Pipe
  BY PositionTypes
<1>2. at' \in [Threads -> {"work", "notify", "join", "enter", "dead"}]
  BY DEF media_exit, TypeInv, TypeOK
<1>3. target' \in [Threads -> 0..MaxPipelines]
  BY DEF media_exit, TypeInv, TypeOK
<1>4. pipe' \in [Pipelines -> Pipe]
  <2>1. pipe \in [Pipelines -> Pipe]
    BY DEF TypeInv, TypeOK
  <2>2. CASE media # 0 /\ pipe[media].life = "up"
    BY <1>1, <2>1, <2>2, PipeUpdate DEF media_exit
  <2> QED
    BY <2>1, <2>2 DEF media_exit
<1> QED
  BY <1>2, <1>3, <1>4

(* What a tick of the page's timer does, one step per way it can go.       *)
LEMMA RecoverTypes ==
  ASSUME TypeInv, NEW t \in Threads, playing, media # 0, Recover(t)
  PROVE  TypeInv'
<1> USE DEF TypeInv, TypeOK
<1>1. /\ recover_bytes' \in 0..MaxBytes /\ reopen_at' \in 0..Runtime
      /\ recover_tries' \in 0..MaxTries + 1 /\ (tries <= MaxTries => recover_tries' <= MaxTries)
  <2>1. recover_bytes' \in 0..MaxBytes
    BY PositionTypes, IoTypes DEF Recover
  <2>2. reopen_at' \in 0..Runtime
    BY PositionTypes DEF Recover
  <2>3. recover_tries' = tries /\ tries \in 1..MaxTries + 1 /\ MaxTries \in Nat
    BY PositionTypes DEF Recover
  <2> QED
    BY <2>1, <2>2, <2>3
<1>2. UNCHANGED <<tier, touched>>
  BY DEF Recover
<1>3. CASE tries > MaxTries /\ plex_end_playback /\ UNCHANGED <<player, threads>>
  <2>1. io' \in Io
    BY <1>3, PositionTypes, IoSteps DEF plex_end_playback
  <2> QED
    BY <1>1, <1>2, <1>3, <2>1 DEF plex_end_playback, player, threads, Io
<1>4. CASE /\ tries = 1 /\ tries <= MaxTries
           /\ pipe' = [pipe EXCEPT ![media] = [@ EXCEPT !.eof = FALSE, !.completed = FALSE,
                                                        !.paused = FALSE, !.seek = media_position]]
           /\ UNCHANGED <<page, playing, app, io, screen, is_playing, media, threads>>
  <2>1. pipe' \in [Pipelines -> Pipe]
    <3>1. media \in Pipelines /\ pipe[media] \in Pipe /\ media_position \in 0..Runtime
      BY PositionTypes
    <3>2. [pipe[media] EXCEPT !.eof = FALSE, !.completed = FALSE, !.paused = FALSE,
                              !.seek = media_position] \in Pipe
      BY <3>1, PipeTypes
    <3> QED
      BY <1>4, <3>1, <3>2
  <2> QED
    BY <1>1, <1>2, <1>4, <2>1 DEF threads
<1>5. CASE /\ tries <= MaxTries /\ media_exit(t) /\ handler' = t /\ resume' = media_position
           /\ UNCHANGED <<page, playing, app, io, screen, is_playing, media>>
  <2>1. /\ at' \in [Threads -> {"work", "notify", "join", "enter", "dead"}]
        /\ target' \in [Threads -> 0..MaxPipelines]
        /\ pipe' \in [Pipelines -> Pipe]
    BY <1>5, MediaExitTypes
  <2>2. resume' \in 0..Runtime
    BY <1>5, PositionTypes
  <2> QED
    BY <1>1, <1>2, <1>5, <2>1, <2>2
<1> QED
  BY <1>3, <1>4, <1>5 DEF Recover

LEMMA TimerTypes ==
  ASSUME TypeInv, NEW t \in Threads, plex_timer_cb(t)
  PROVE  TypeInv'
<1> USE DEF TypeInv, TypeOK
<1>1. CASE EndPlayback /\ playing
  <2>1. io' \in Io
    BY <1>1, PositionTypes, IoSteps DEF EndPlayback, plex_end_playback
  <2> QED
    BY <1>1, <2>1 DEF EndPlayback, plex_end_playback, player, threads, movie, Io
<1>2. CASE Recover(t) /\ playing /\ media_completed
  BY <1>2, RecoverTypes DEF media_completed
<1>3. CASE plex_launch_player
  <2>1. pipe' \in [Pipelines -> Pipe] /\ media' \in 0..MaxPipelines
    <3>1. -1 \in -1..Runtime
      BY InRange
    <3> QED
      BY <1>3, <3>1, MediaInitTypes DEF plex_launch_player, mplayer_file
  <2>2. /\ reopen_at' \in 0..Runtime /\ recover_bytes' \in 0..MaxBytes
        /\ recover_tries' \in 0..MaxTries + 1 /\ recover_tries' <= MaxTries
    BY <1>3, InRange DEF plex_launch_player
  <2>3. /\ playing' \in BOOLEAN /\ app' \in {"submenu", "playback"}
        /\ screen' \in BOOLEAN /\ is_playing' \in BOOLEAN /\ touched' \in BOOLEAN
    BY <1>3 DEF plex_launch_player, mplayer_file
  <2>4. UNCHANGED <<page, tier, io, at, target, handler, resume>>
    BY <1>3 DEF plex_launch_player, threads
  <2> QED
    BY <2>1, <2>2, <2>3, <2>4
<1>4. CASE MayStepDown /\ plex_stream_step_down
  <2>1. io' \in Io
    BY <1>4, PositionTypes, IoSteps DEF plex_stream_step_down
  <2>2. tier' \in 0..Tiers - 1
    BY <1>4, InRange DEF plex_stream_step_down, MayStepDown
  <2>3. tier' \in 0..Tiers - 1 /\ UNCHANGED <<page, playing, recover_tries, recover_bytes,
                                             reopen_at, app, screen, is_playing, media, pipe,
                                             at, target, handler, resume, touched>>
    BY <1>4, <2>2 DEF plex_stream_step_down, player, threads
  <2> QED
    BY <2>1, <2>3 DEF Io
<1>5. CASE /\ plexstream_stop /\ page' \in {"link", "error"}
           /\ UNCHANGED <<playing, movie, app, player, threads, touched>>
  <2>1. io' \in Io
    BY <1>5, PositionTypes, IoSteps
  <2> QED
    BY <1>5, <2>1 DEF player, threads, movie, Io
<1>6. CASE Buffering
  BY <1>3, <1>4, <1>5, <1>6 DEF Buffering, StepDownOrFail
<1> QED
  BY <1>1, <1>2, <1>6 DEF plex_timer_cb, plex_handle_playback_end

(* Every variable of the page, the download and the player keeps its type: *)
(* the tier stays in the table of qualities, the tries pass their limit by *)
(* one at most, no position leaves the movie (g_plex, g_stream, ui_player).*)
THEOREM TypeCorrect == Spec => []TypeOK
<1>1. Init => TypeInv
  <2>1. [p \in Pipelines |-> None] \in [Pipelines -> Pipe]
    BY NoneTypes
  <2>2. 0 \in 0..Tiers - 1 /\ 0 <= MaxTries
    BY InRange
  <2> SUFFICES ASSUME Init
               PROVE  TypeInv
    OBVIOUS
  <2>3. /\ page \in {"browse", "buffering", "link", "error", "out"} /\ playing \in BOOLEAN
        /\ app \in {"submenu", "playback"} /\ screen \in BOOLEAN /\ is_playing \in BOOLEAN
        /\ touched \in BOOLEAN
    BY DEF Init
  <2>4. tier \in 0..Tiers - 1 /\ recover_tries \in 0..MaxTries + 1 /\ recover_tries <= MaxTries
    BY <2>2, InRange DEF Init
  <2>5. /\ recover_bytes \in 0..MaxBytes /\ reopen_at \in 0..Runtime /\ resume \in 0..Runtime
        /\ media \in 0..MaxPipelines
    BY InRange DEF Init
  <2>6. io \in [active : BOOLEAN, bytes : 0..MaxBytes, result : {"none", "ok", "auth", "net"}]
    BY InRange DEF Init
  <2>7. pipe \in [Pipelines -> Pipe] /\ handler \in Threads \cup {Nobody}
    BY <2>1 DEF Init
  <2>8. /\ at \in [Threads -> {"work", "notify", "join", "enter", "dead"}]
        /\ target \in [Threads -> 0..MaxPipelines]
    BY InRange DEF Init
  <2> QED
    BY <2>3, <2>4, <2>5, <2>6, <2>7, <2>8 DEF TypeInv, TypeOK
<1>2. TypeInv /\ [Next]_vars => TypeInv'
  <2> SUFFICES ASSUME TypeInv, [Next]_vars
               PROVE  TypeInv'
    OBVIOUS
  <2> USE DEF TypeInv, TypeOK
  <2>a. io \in Io /\ pipe \in [Pipelines -> Pipe]
    BY DEF Io
  <2>1. CASE Download
    <3>1. io' \in Io
      BY <2>1, <2>a, DownloadKeepsShape
    <3> QED
      BY <2>1, <3>1 DEF Download, player, threads, movie, Io
  <2>2. CASE Tick
    BY <2>2, TimerTypes, InRange DEF Tick
  <2>3. CASE plex_start_playback
    <3>1. io' \in Io
      BY <2>3, <2>a, IoSteps DEF plex_start_playback
    <3> QED
      BY <2>3, <3>1 DEF plex_start_playback, player, threads, Io
  <2>4. CASE Cancel
    <3>1. io' \in Io
      BY <2>4, <2>a, IoSteps DEF Cancel
    <3> QED
      BY <2>4, <3>1 DEF Cancel, player, threads, movie, Io
  <2>5. CASE Exit
    <3>1. /\ at' \in [Threads -> {"work", "notify", "join", "enter", "dead"}]
          /\ target' \in [Threads -> 0..MaxPipelines]
          /\ pipe' \in [Pipelines -> Pipe]
      BY <2>5, MediaExitTypes, InRange DEF Exit
    <3> QED
      BY <2>5, <3>1 DEF Exit, movie
  <2>6. CASE PlayerKey
    <3>1. pipe' \in [Pipelines -> Pipe]
      <4>1. media # 0 => media \in Pipelines /\ pipe[media] \in Pipe
        BY PositionTypes
      <4>2. ASSUME NEW new \in Pipe, onMedia(new)
            PROVE  pipe' \in [Pipelines -> Pipe]
        BY <4>2, <4>1, <2>a, PipeUpdate DEF onMedia
      <4>3. CASE media = 0
        BY <4>3, <2>6, <2>a DEF PlayerKey, onMedia
      <4>4. CASE media # 0
        <5>1. started(pipe[media]) \in Pipe /\ halted(pipe[media]) \in Pipe
          BY <4>1, <4>4, PipeTypes
        <5>2. ASSUME NEW ms \in 0..Runtime
              PROVE  sought(pipe[media], ms) \in Pipe /\ started(sought(pipe[media], ms)) \in Pipe
          BY <4>1, <4>4, PipeTypes
        <5>3. onMedia(IF is_playing THEN halted(pipe[media]) ELSE started(pipe[media]))
                => pipe' \in [Pipelines -> Pipe]
          BY <5>1, <4>2
        <5>4. ASSUME NEW ms \in 0..Runtime,
                     onMedia(IF is_playing THEN started(sought(pipe[media], ms))
                                           ELSE sought(pipe[media], ms))
              PROVE  pipe' \in [Pipelines -> Pipe]
          BY <5>2, <5>4, <4>2
        <5> QED
          BY <2>6, <5>3, <5>4 DEF PlayerKey
      <4> QED
        BY <4>3, <4>4
    <3> QED
      BY <2>6, <3>1 DEF PlayerKey, movie, threads
  <2>7. CASE Leave
    <3>1. io' \in Io
      BY <2>7, <2>a, IoSteps DEF Leave
    <3> QED
      BY <2>7, <3>1 DEF Leave, player, threads, movie, Io
  <2>8. CASE Return
    BY <2>8 DEF Return, player, threads, movie
  <2>9. CASE Exited
    <3>1. io' \in Io
      BY <2>9, <2>a, IoSteps DEF Exited, plex_end_playback
    <3> QED
      BY <2>9, <3>1 DEF Exited, plex_end_playback, movie, Io
  <2>10. ASSUME NEW t \in Threads, Join(t)
         PROVE  TypeInv'
    <3>1. pipe' \in [Pipelines -> Pipe]
      BY <2>10, <2>a, NoneTypes DEF Join
    <3>2. at' \in [Threads -> {"work", "notify", "join", "enter", "dead"}]
      BY <2>10 DEF Join, crash
    <3>3. target' \in [Threads -> 0..MaxPipelines] /\ media' \in 0..MaxPipelines
      BY <2>10, InRange DEF Join
    <3> QED
      BY <2>10, <3>1, <3>2, <3>3 DEF Join, movie
  <2>11. ASSUME NEW t \in Threads, Reopened(t)
         PROVE  TypeInv'
    <3>1. (IF resume > 0 THEN resume ELSE -1) \in -1..Runtime
      BY InRange
    <3>2. pipe' \in [Pipelines -> Pipe] /\ media' \in 0..MaxPipelines
      BY <2>11, <3>1, MediaInitTypes DEF Reopened
    <3>3. at' \in [Threads -> {"work", "notify", "join", "enter", "dead"}]
      BY <2>11 DEF Reopened
    <3> QED
      BY <2>11, <3>2, <3>3, InRange DEF Reopened, movie
  <2>12. ASSUME NEW p \in Pipelines, Decode(p)
         PROVE  TypeInv'
    <3>1. pipe[p] \in Pipe
      BY <2>a
    <3>2. pipe' \in [Pipelines -> Pipe]
      <4>1. ASSUME NEW new \in Pipe
            PROVE  [pipe EXCEPT ![p] = new] \in [Pipelines -> Pipe]
        BY <2>a
      <4> DEFINE ms == IF pipe[p].seek >= 0 THEN pipe[p].seek
                       ELSE IF pipe[p].pos < Runtime THEN pipe[p].pos + 1
                       ELSE pipe[p].pos
      <4>2. ms \in 0..Runtime
        <5>1. pipe[p].pos \in 0..Runtime /\ pipe[p].seek \in -1..Runtime
          BY <3>1, PipeTypes
        <5> QED
          BY <5>1, InRange
      <4>3. [pipe[p] EXCEPT !.seek = -1, !.pos = ms] \in Pipe
        <5> HIDE DEF ms
        <5> QED
          BY <3>1, <4>2, PipeTypes
      <4>4. [pipe[p] EXCEPT !.eof = TRUE, !.completed = TRUE] \in Pipe
        BY <3>1, PipeTypes
      <4> QED
        BY <2>12, <2>a, <4>1, <4>3, <4>4 DEF Decode
    <3>3. at' \in [Threads -> {"work", "notify", "join", "enter", "dead"}]
      BY <2>12 DEF Decode
    <3> QED
      BY <2>12, <3>2, <3>3 DEF Decode, movie
  <2>13. ASSUME NEW p \in Pipelines, Notify(p)
         PROVE  TypeInv'
    <3>1. CASE plex_timer_cb(p)
      BY <3>1, TimerTypes, InRange
    <3>2. at' \in [Threads -> {"work", "notify", "join", "enter", "dead"}] \/ plex_timer_cb(p)
      BY <2>13 DEF Notify, crash
    <3>3. plex_timer_cb(p) \/ UNCHANGED <<page, playing, movie, app, io, player, target, handler,
                                          resume, touched>>
      BY <2>13 DEF Notify
    <3> QED
      BY <3>1, <3>2, <3>3 DEF player, movie
  <2>14. ASSUME NEW p \in Pipelines, Quit(p)
         PROVE  TypeInv'
    <3>1. pipe' \in [Pipelines -> Pipe]
      BY <2>14, <2>a, PipeUpdate DEF Quit
    <3> QED
      BY <2>14, <3>1 DEF Quit, movie, threads
  <2>15. CASE UNCHANGED vars
    BY <2>15 DEF vars, movie, player, threads
  <2> QED
    BY <2>1, <2>2, <2>3, <2>4, <2>5, <2>6, <2>7, <2>8, <2>9, <2>10, <2>11, <2>12, <2>13, <2>14,
       <2>15 DEF Next, User, ThreadStep, Pipeline
<1>3. TypeInv => TypeOK
  BY DEF TypeInv
<1> QED
  BY <1>1, <1>2, <1>3, PTL DEF Spec
=============================================================================
