------------------------------ MODULE Playback ------------------------------
(***************************************************************************)
(* Watching a streamed movie: the page (ui/page_plex.c) buffers a download *)
(* (core/plexstream.c, core/plexapi.c), starts the player (ui/ui_player.c) *)
(* on the growing file and, as the demuxer takes the end of what is there  *)
(* for the end of the movie, resumes it or builds its pipeline again       *)
(* (player/media.c).                                                       *)
(*                                                                         *)
(* The page's timer is run by lv_timer_handler, in the main loop and in    *)
(* the thread of every pipeline.  A piece of code that holds lvgl_mutex is *)
(* one action; the places where the player gives lvgl_mutex up in order to *)
(* join a pipeline's thread are where an action ends, at "join".           *)
(***************************************************************************)
EXTENDS Integers, FiniteSets

CONSTANTS
  MaxPipelines,   \* bound: pipelines alive at a time
  MaxBytes,       \* bound: what the server sends, in buffers of PLEX_BUFFER_START
  Runtime,        \* of the movie, in steps of five seconds
  MaxTries,       \* PLEX_RECOVER_MAX_TRIES
  Tiers,          \* PLEX_QUALITY_COUNT
  Inputs          \* what may happen, a subset of InputKinds

InputKinds == {"exit", "pause", "leave", "fails", "empty", "badFile"}

ASSUME PlaybackAssumption ==
  /\ {MaxPipelines, MaxBytes, Runtime, MaxTries, Tiers} \subseteq Nat \ {0}
  /\ Inputs \subseteq InputKinds

VARIABLES
  page,           \* g_plex.state, or "out" when the page is left
  playing, tier, recover_tries, recover_bytes, reopen_at,   \* of g_plex
  app,            \* g_app_state: "submenu" or "playback"
  io,             \* g_stream: active, bytes, and how the download stands
  screen,         \* controller.enable: the player's objects exist
  is_playing,     \* controller.is_playing
  media,          \* ui_player.c's pipeline, 0 for NULL
  pipe,           \* every pipeline: see Pipe
  at, target,     \* where each thread is, or "dead", and the pipeline it joins
  handler,        \* who runs lv_timer_handler across an unlock, or Nobody
  resume,         \* the position that thread builds the pipeline again for
  touched         \* (history) a key has reached the player since it was started

movie == <<tier, recover_tries, recover_bytes, reopen_at>>
player == <<screen, is_playing, media, pipe>>
threads == <<at, target, handler, resume>>
vars == <<page, playing, movie, app, io, player, threads, touched>>

Pipelines == 1..MaxPipelines
Main == -1
Input == -2
Nobody == 0
Threads == Pipelines \cup {Main, Input}

(* life: the thread runs, has been told to exit, has ended, or there is no *)
(* pipeline.  eof is the decoder's, completed and paused are play states,  *)
(* pos is lastGoodMs, and the first picture after a seek is at seek.       *)
Pipe == [life : {"none", "up", "quit", "ended"}, eof : BOOLEAN, completed : BOOLEAN,
         paused : BOOLEAN, pos : 0..Runtime, seek : -1..Runtime]
None == [life |-> "none", eof |-> FALSE, completed |-> FALSE, paused |-> FALSE,
         pos |-> 0, seek |-> -1]

TypeOK ==
  /\ page \in {"browse", "buffering", "link", "error", "out"} /\ playing \in BOOLEAN
  /\ tier \in 0..Tiers - 1 /\ recover_tries \in 0..MaxTries + 1
  /\ recover_bytes \in 0..MaxBytes /\ reopen_at \in 0..Runtime
  /\ app \in {"submenu", "playback"}
  /\ io \in [active : BOOLEAN, bytes : 0..MaxBytes, result : {"none", "ok", "auth", "net"}]
  /\ screen \in BOOLEAN /\ is_playing \in BOOLEAN /\ media \in 0..MaxPipelines
  /\ pipe \in [Pipelines -> Pipe]
  /\ at \in [Threads -> {"work", "notify", "join", "enter", "dead"}]
  /\ target \in [Threads -> 0..MaxPipelines]
  /\ handler \in Threads \cup {Nobody} /\ resume \in 0..Runtime
  /\ touched \in BOOLEAN

(* The library is shown.                                                   *)
Init ==
  /\ page = "browse" /\ playing = FALSE /\ app = "submenu"
  /\ tier = 0 /\ recover_tries = 0 /\ recover_bytes = 0 /\ reopen_at = 0
  /\ io = [active |-> FALSE, bytes |-> 0, result |-> "none"]
  /\ screen = FALSE /\ is_playing = FALSE /\ media = 0
  /\ pipe = [p \in Pipelines |-> None]
  /\ at = [t \in Threads |-> "work"] /\ target = [t \in Threads |-> 0]
  /\ handler = Nobody /\ resume = 0 /\ touched = FALSE
-----------------------------------------------------------------------------
(* Using freed memory ends the whole program.                              *)
crashed == at[Main] = "dead"
crash == at' = [t \in Threads |-> "dead"]

(* plexstream.c.  A download has ended when it has a result; plexstream_stop *)
(* cancels it and joins its thread, and only then reads on.                *)
done == io.result # "none"
plexstream_failed == io.result \in {"auth", "net"}
plexstream_auth_failed == io.result = "auth"
plexstream_complete == io.result = "ok"
plexstream_begin == io' = [active |-> TRUE, bytes |-> 0, result |-> "none"]
plexstream_stop ==
  io' = IF io.active THEN [io EXCEPT !.active = FALSE, !.result = IF done THEN @ ELSE "ok"]
        ELSE io

(* The server sends, closes the connection, or fails or refuses.  A thread *)
(* that has been refused sets done before it says why, so the page may     *)
(* take what is a 401 for a failure.                                       *)
Download ==
  /\ io.active /\ ~done /\ ~crashed
  /\ \/ io.bytes < MaxBytes /\ io' = [io EXCEPT !.bytes = @ + 1]
     \/ (io.bytes > 0 \/ "empty" \in Inputs) /\ io' = [io EXCEPT !.result = "ok"]
     \/ io.bytes = MaxBytes /\ io' = [io EXCEPT !.result = "net"]
     \/ "fails" \in Inputs /\ io' = [io EXCEPT !.result = "net"]
     \/ "fails" \in Inputs /\ io.bytes = 0 /\ io' = [io EXCEPT !.result = "auth"]
  /\ UNCHANGED <<page, playing, movie, app, player, threads, touched>>
-----------------------------------------------------------------------------
(* ui_player.c.  media_init builds a pipeline and starts it; the platform  *)
(* may refuse the file.                                                    *)
free == {p \in Pipelines : pipe[p].life = "none"}
live == Pipelines \ free
media_init(ms) ==
  \/ \E p \in free : /\ pipe' = [pipe EXCEPT ![p] = [None EXCEPT !.life = "up", !.seek = ms]]
                     /\ media' = p
  \/ "badFile" \in Inputs /\ media' = 0 /\ UNCHANGED pipe

mplayer_file == media_init(-1) /\ screen' = TRUE /\ is_playing' = TRUE

media_position == IF media = 0 THEN 0 ELSE pipe[media].pos
media_completed == media # 0 /\ pipe[media].completed

(* t gives up lvgl_mutex, tells the pipeline to exit and joins its thread. *)
media_exit(t) ==
  /\ at' = [at EXCEPT ![t] = IF media = 0 THEN "enter" ELSE "join"]
  /\ target' = [target EXCEPT ![t] = media]
  /\ pipe' = IF media # 0 /\ pipe[media].life = "up"
             THEN [pipe EXCEPT ![media].life = "quit"] ELSE pipe

(* What was joined is freed; if another thread is joining it as well, that *)
(* thread uses and frees it again.  A pipeline's own thread that gets here *)
(* waits for itself for ever: the C library is musl (setup.sh:2), whose    *)
(* pthread_join does not look for that.                                    *)
Join(t) ==
  /\ at[t] = "join" /\ pipe[target[t]].life = "ended"
  /\ pipe' = [pipe EXCEPT ![target[t]] = None] /\ media' = 0
  /\ target' = [target EXCEPT ![t] = 0]
  /\ IF \E u \in Threads \ {t} : target[u] = target[t] THEN crash
     ELSE at' = [at EXCEPT ![t] = "enter"]
  /\ UNCHANGED <<page, playing, movie, app, io, screen, is_playing, handler, resume, touched>>

(* The end of mplayer_reopen_at: a new pipeline, which seeks unless the    *)
(* position is 0.                                                          *)
Reopened(t) ==
  /\ at[t] = "enter" /\ handler = t
  /\ media_init(IF resume > 0 THEN resume ELSE -1)
  /\ handler' = Nobody /\ resume' = 0 /\ at' = [at EXCEPT ![t] = "work"]
  /\ UNCHANGED <<page, playing, movie, app, io, screen, is_playing, target, touched>>
-----------------------------------------------------------------------------
(* page_plex.c.                                                            *)
EndKeepsStream ==     \* the download goes on
  /\ playing' = FALSE /\ UNCHANGED io /\ app' = "submenu" /\ page' = "browse"
EndKeepsPlaying ==    \* g_plex.playing is left set
  /\ UNCHANGED playing /\ plexstream_stop /\ app' = "submenu" /\ page' = "browse"
plex_end_playback ==
  /\ playing' = FALSE /\ plexstream_stop /\ app' = "submenu" /\ page' = "browse"

plex_launch_player ==
  /\ playing' = TRUE /\ app' = "playback" /\ mplayer_file
  /\ reopen_at' = 0 /\ recover_bytes' = 0 /\ recover_tries' = 0
  /\ touched' = FALSE
  /\ UNCHANGED <<page, tier, io, threads>>

plex_stream_step_down ==
  /\ tier' = tier + 1 /\ plexstream_begin
  /\ UNCHANGED <<page, playing, recover_tries, recover_bytes, reopen_at, app, player, threads,
                 touched>>

(* A download that failed is tried again at a lower quality, down to the   *)
(* lowest; one that is slow is stepped down, or waited for until what is   *)
(* buffered makes up for it: between one and MaxBytes buffers.             *)
MayStepBelow == tier < Tiers    \* one below the lowest
MayStepDown == tier < Tiers - 1
StepDownOrFail ==
  \/ MayStepDown /\ plex_stream_step_down
  \/ /\ ~MayStepDown /\ plexstream_stop /\ page' = "error"
     /\ UNCHANGED <<playing, movie, app, player, threads, touched>>

Buffered == io.bytes > 0 /\ (io.bytes = MaxBytes \/ plexstream_complete)
BufferingFull ==      \* a stream shorter than the head start is not complete
  \/ /\ plexstream_auth_failed /\ plexstream_stop /\ page' = "link"
     /\ UNCHANGED <<playing, movie, app, player, threads, touched>>
  \/ plexstream_failed /\ ~plexstream_auth_failed /\ StepDownOrFail
  \/ ~plexstream_failed /\ io.bytes = MaxBytes /\ plex_launch_player
Buffering ==
  \/ /\ plexstream_auth_failed /\ plexstream_stop /\ page' = "link"
     /\ UNCHANGED <<playing, movie, app, player, threads, touched>>
  \/ plexstream_failed /\ ~plexstream_auth_failed /\ StepDownOrFail
  \/ ~plexstream_failed /\ ~Buffered /\ MayStepDown /\ plex_stream_step_down
  \/ ~plexstream_failed /\ io.bytes > 0 /\ plex_launch_player

(* The position is within five seconds of the end of the movie.            *)
Finished == media_position + 1 >= Runtime
NoMoreDataFailed == io.bytes <= recover_bytes /\ plexstream_failed    \* but not complete
NoMoreData == io.bytes <= recover_bytes /\ done

EndPlayback == plex_end_playback /\ UNCHANGED <<movie, player, threads, touched>>

tries == IF media_position > reopen_at THEN 1 ELSE recover_tries + 1

(* The demuxer has called the end of what it has: seek in place the first  *)
(* time at a position, which the platform may refuse; then build the       *)
(* pipeline again, a limited number of times.                              *)
Recover(t) ==
  /\ io.bytes > recover_bytes /\ recover_bytes' = io.bytes
  /\ reopen_at' = IF media_position > reopen_at THEN media_position ELSE reopen_at
  /\ recover_tries' = tries
  /\ UNCHANGED <<tier, touched>>
  /\ \/ tries > MaxTries /\ plex_end_playback /\ UNCHANGED <<player, threads>>
     \/ /\ tries = 1 /\ tries <= MaxTries
        /\ pipe' = [pipe EXCEPT ![media] = [@ EXCEPT !.eof = FALSE, !.completed = FALSE,
                                                     !.paused = FALSE, !.seek = media_position]]
        /\ UNCHANGED <<page, playing, app, io, screen, is_playing, media, threads>>
     \/ /\ tries <= MaxTries /\ media_exit(t) /\ handler' = t /\ resume' = media_position
        /\ UNCHANGED <<page, playing, app, io, screen, is_playing, media>>

plex_handle_playback_end(t) ==
  \/ Finished /\ EndPlayback
  \/ ~Finished /\ NoMoreData /\ EndPlayback
  \/ ~Finished /\ Recover(t)

plex_timer_cb(t) ==
  \/ playing /\ media_position >= Runtime /\ EndPlayback
  \/ /\ playing /\ media_position < Runtime /\ media_completed
     /\ plex_handle_playback_end(t)
  \/ ~playing /\ page = "buffering" /\ Buffering

(* lv_timer_handler does nothing while another call of it is under way.    *)
Tick == handler = Nobody /\ at[Main] = "work" /\ plex_timer_cb(Main)
-----------------------------------------------------------------------------
(* thread_media of a pipeline: a picture is shown, or the demuxer comes to *)
(* the end of what it saw when it was opened; then notify_cb is called,    *)
(* which leaves at once at the end of the file or when there is no media.  *)
Decode(p) ==
  /\ at[p] = "work" /\ pipe[p].life = "up" /\ ~pipe[p].eof
  /\ \/ /\ ~pipe[p].paused /\ ~pipe[p].completed
        /\ pipe' = [pipe EXCEPT ![p] =
             [@ EXCEPT !.seek = -1,
                       !.pos = IF pipe[p].seek >= 0 THEN pipe[p].seek
                               ELSE IF pipe[p].pos < Runtime THEN pipe[p].pos + 1
                               ELSE pipe[p].pos]]
        /\ at' = [at EXCEPT ![p] = IF media = 0 THEN "work" ELSE "notify"]
     \/ /\ ~pipe[p].paused
        /\ pipe' = [pipe EXCEPT ![p] = [@ EXCEPT !.eof = TRUE, !.completed = TRUE]]
        /\ UNCHANGED at
     \/ /\ pipe[p].paused \/ pipe[p].completed
        /\ media # 0 /\ at' = [at EXCEPT ![p] = "notify"] /\ UNCHANGED pipe
  /\ UNCHANGED <<page, playing, movie, app, io, screen, is_playing, media, target, handler,
                 resume, touched>>

(* notify_cb draws on the player's objects and runs the timers.            *)
Notify(p) ==
  /\ at[p] = "notify"
  /\ \/ ~screen /\ crash /\ UNCHANGED <<page, playing, movie, app, io, player, target, handler,
                                           resume, touched>>
     \/ screen /\ handler = Nobody /\ plex_timer_cb(p)
     \/ /\ screen /\ at' = [at EXCEPT ![p] = "work"]
        /\ UNCHANGED <<page, playing, movie, app, io, player, target, handler, resume,
                       touched>>

Quit(p) ==
  /\ at[p] = "work" /\ pipe[p].life = "quit"
  /\ pipe' = [pipe EXCEPT ![p].life = "ended"]
  /\ UNCHANGED <<page, playing, movie, app, io, screen, is_playing, media, threads, touched>>
-----------------------------------------------------------------------------
(* The user.  A click on a movie starts its stream, a click while it       *)
(* buffers cancels it.                                                     *)
plex_start_playback ==
  /\ at[Input] = "work" /\ page = "browse"
  /\ Cardinality(live) + (IF handler = Nobody THEN 0 ELSE 1) < MaxPipelines
  /\ plexstream_begin /\ tier' \in 0..Tiers - 1 /\ page' = "buffering"
  /\ UNCHANGED <<playing, recover_tries, recover_bytes, reopen_at, app, player, threads, touched>>

Cancel ==
  /\ at[Input] = "work" /\ page = "buffering" /\ ~playing
  /\ plexstream_stop /\ page' = "browse"
  /\ UNCHANGED <<playing, movie, app, player, threads, touched>>

(* The long press that leaves the player: mplayer_exit, in two parts, then *)
(* plex_end_playback.                                                      *)
Exit ==
  /\ "exit" \in Inputs /\ at[Input] = "work" /\ playing /\ screen
  /\ media_exit(Input) /\ touched' = TRUE
  /\ UNCHANGED <<page, playing, movie, app, io, screen, is_playing, media, handler, resume>>

Exited ==
  /\ at[Input] = "enter" /\ at' = [at EXCEPT ![Input] = "work"]
  /\ screen' = FALSE /\ plex_end_playback
  /\ UNCHANGED <<movie, is_playing, media, pipe, target, handler, resume, touched>>

(* A click pauses and goes on; the dial seeks. (Bound: these keys are used *)
(* only while no pipeline of an earlier movie is left.)                    *)
onMedia(new) == pipe' = IF media = 0 THEN pipe ELSE [pipe EXCEPT ![media] = new]
started(p) == [p EXCEPT !.paused = FALSE, !.completed = FALSE]
halted(p) == [p EXCEPT !.paused = TRUE]
sought(p, ms) == [p EXCEPT !.eof = FALSE, !.seek = ms, !.paused = TRUE]

PlayerKey ==
  /\ "pause" \in Inputs /\ at[Input] = "work" /\ playing /\ screen /\ touched' = TRUE
  /\ live \subseteq {media}
  /\ \/ /\ is_playing' = ~is_playing
        /\ onMedia(IF is_playing THEN halted(pipe[media]) ELSE started(pipe[media]))
     \/ /\ UNCHANGED is_playing
        /\ \E ms \in 0..Runtime :
             onMedia(IF is_playing THEN started(sought(pipe[media], ms))
                                   ELSE sought(pipe[media], ms))
  /\ UNCHANGED <<page, playing, movie, app, io, screen, media, threads>>

(* page_plex_exit and page_plex_enter.                                     *)
Leave ==
  /\ "leave" \in Inputs /\ at[Input] = "work" /\ app = "submenu" /\ page # "out"
  /\ playing' = FALSE /\ plexstream_stop /\ page' = "out"
  /\ UNCHANGED <<movie, app, player, threads, touched>>

Return ==
  /\ at[Input] = "work" /\ page \in {"out", "error", "link"} /\ page' = "browse"
  /\ UNCHANGED <<playing, movie, app, io, player, threads, touched>>
-----------------------------------------------------------------------------
User == plex_start_playback \/ Cancel \/ Exit \/ PlayerKey \/ Leave \/ Return
ThreadStep(t) == Join(t) \/ Reopened(t)
Pipeline(p) == Decode(p) \/ Notify(p) \/ Quit(p)

Next ==
  \/ Download \/ Tick \/ User \/ Exited
  \/ \E t \in Threads : ThreadStep(t)
  \/ \E p \in Pipelines : Pipeline(p)

Spec == Init /\ [][Next]_vars

FairSpec ==
  /\ Spec /\ WF_vars(Download) /\ SF_vars(Tick) /\ WF_vars(Exited)
  /\ \A t \in Threads : WF_vars(ThreadStep(t))
  /\ \A p \in Pipelines : WF_vars(Pipeline(p))
-----------------------------------------------------------------------------
(* No download or transcode session is left running: one goes on only      *)
(* while the page buffers or plays.                                        *)
StreamReleased == io.active => playing \/ page = "buffering"

(* The way out of a movie that plays is there: the long press reaches the  *)
(* player, and the player is up to take it.                                *)
WayOut == playing => app = "playback" /\ screen

(* A stream that is asked for is shown, or given up with a word.           *)
BufferingEnds ==
  page = "buffering" /\ ~playing ~> page # "buffering" \/ playing \/ crashed

(* A movie that nobody touches ends, however often the demuxer gives up;   *)
(* only the words over a file the platform refuses wait for the user.      *)
MovieEnds == playing ~> ~playing \/ touched \/ crashed \/ (media = 0 /\ handler = Nobody)

(* "double media_init wedged the whole device" (page_plex.c 1060): no      *)
(* movie is started while the pipeline of another one exists.              *)
OnePipeline == [][playing' /\ ~playing => live = {}]_vars
=============================================================================
