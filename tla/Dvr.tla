-------------------------------- MODULE Dvr --------------------------------
(***************************************************************************)
(* Recording as the goggle's app sees it: dvr_cmd and dvr_update_status    *)
(* (core/dvr.c), the ticks that watch the card and the video signal        *)
(* (core/thread.c), the buttons (core/input_device.c, core/app_state.c),   *)
(* the ELRS backpack (core/elrs.c), and the check of a new card            *)
(* (ui/page_storage.c, chkfixsd.sh), together with the recorder process,   *)
(* which is what RecorderService promises.                                 *)
(*                                                                         *)
(* A thread is the list of the steps it still has to do.  A handler starts *)
(* with its program, and a step that branches replaces itself by what      *)
(* follows.  Steps of different threads interleave; the two mutexes are    *)
(* the ones of the code.  The two seconds dvr_cmd sleeps after a command   *)
(* ("wait for record process") promise nothing, so they are not modelled.  *)
(***************************************************************************)
EXTENDS Naturals, Sequences

CONSTANTS
  MaxQueue,    \* bound: the commands waiting in the queue
  Manual,      \* g_setting.record.mode_manual
  Inputs       \* what may happen around the app, a subset of InputKinds

InputKinds == {"menu", "button", "retune", "backpack", "timer", "card", "full",
               "signal", "dirtyCard", "slowCheck", "slowQuit"}

ASSUME DvrAssumption ==
  /\ MaxQueue \in Nat \ {0}
  /\ Manual \in BOOLEAN
  /\ Inputs \subseteq InputKinds

VARIABLES
  phase, queue, wanted, recording, says,      \* the recorder
  todo,          \* the steps each thread still has to do
  dvrMutex, lvglMutex,      \* their owners, or "none"
  appState,      \* g_app_state: "video", or anything else, "menu"
  isRecording,   \* dvr_is_recording
  pending,       \* record_pending
  recordTimer,   \* record_state while record_time runs, or "none"
  enable, ready, detReq,    \* g_sdcard_enable, g_sdcard_ready, g_sdcard_det_req
  enableLast, initScan,     \* the statics of detect_sdcard
  isFull,        \* sdcard_is_full(), of the free size last read
  repairActive,  \* is_sd_repair_active
  card           \* "out", "in" (inserted only), or "mounted"

recorder == <<phase, queue, wanted, recording, says>>
locks == <<dvrMutex, lvglMutex>>
dvr == <<isRecording, pending>>
detection == <<enable, ready, detReq, enableLast, initScan, isFull>>
vars == <<recorder, todo, locks, dvr, appState, recordTimer, detection, repairActive, card>>

Rec == INSTANCE RecorderService WITH
  MaxQueue <- MaxQueue, phase <- phase, queue <- queue,
  wanted <- wanted, recording <- recording, says <- says

Threads == {"input", "peripheral", "backpack", "repair", "script"}
Cmds == {"start", "stop", "toggle"}         \* dvr_cmd(DVR_START) and so on
Steps == Cmds \cup
  {"doStart", "conf", "doStop", "sendStart", "sendStop", "stopLive",
   "menu", "video", "scanCard", "press", "click", "lock", "unlock",
   "detect", "settle", "update", "giveUp", "signal", "level",
   "note", "repair", "await", "quit", "umount", "mount", "restart"}

TypeOK ==
  /\ phase \in Rec!Phases /\ queue \in Seq(Rec!Commands)
  /\ wanted \in BOOLEAN /\ recording \in BOOLEAN /\ says \in BOOLEAN
  /\ todo \in [Threads -> Seq(Steps)]
  /\ dvrMutex \in Threads \cup {"none"} /\ lvglMutex \in Threads \cup {"none"}
  /\ appState \in {"video", "menu"}
  /\ isRecording \in BOOLEAN /\ pending \in BOOLEAN
  /\ recordTimer \in {"start", "stop", "none"}
  /\ enable \in BOOLEAN /\ ready \in BOOLEAN /\ detReq \in BOOLEAN
  /\ enableLast \in BOOLEAN /\ initScan \in BOOLEAN /\ isFull \in BOOLEAN
  /\ repairActive \in BOOLEAN
  /\ card \in {"out", "in", "mounted"}

(* The app after boot, with or without a card that boot has checked; where *)
(* nobody opens the menu, in video.                                        *)
Init ==
  /\ Rec!Init
  /\ todo = [t \in Threads |-> <<>>] /\ dvrMutex = "none" /\ lvglMutex = "none"
  /\ appState \in {"video"} \cup (Inputs \cap {"menu"})
  /\ isRecording = FALSE /\ pending = FALSE
  /\ recordTimer = "none"
  /\ card \in {"out", "mounted"} /\ ("card" \notin Inputs => card = "mounted")
  /\ enable = (card = "mounted") /\ enableLast = enable /\ initScan = ~enable
  /\ ready = TRUE /\ detReq = FALSE /\ isFull = FALSE /\ repairActive = FALSE
-----------------------------------------------------------------------------
At(t, step) == todo[t] # <<>> /\ Head(todo[t]) = step
Then(t, steps) == todo' = [todo EXCEPT ![t] = steps \o Tail(@)]
Done(t) == Then(t, <<>>)
Begin(t, steps) == todo[t] = <<>> /\ todo' = [todo EXCEPT ![t] = steps]

Lock(t) ==
  /\ At(t, "lock") /\ lvglMutex = "none" /\ lvglMutex' = t /\ Done(t)
  /\ UNCHANGED <<recorder, dvrMutex, dvr, appState, recordTimer, detection, repairActive, card>>

Unlock(t) ==
  /\ At(t, "unlock") /\ lvglMutex' = "none" /\ Done(t)
  /\ UNCHANGED <<recorder, dvrMutex, dvr, appState, recordTimer, detection, repairActive, card>>

(* gogglecmd: blocks on a full queue, fails when there is none.            *)
Post(cmd) == IF phase \in {"closed", "quit"} THEN UNCHANGED recorder ELSE Rec!Send(cmd)

(* dvr_cmd: what is wanted is decided, and a missing card dealt with,      *)
(* before dvr_mutex is taken.                                              *)
wantStart(t) == \/ At(t, "start")
                \/ At(t, "toggle") /\ ~isRecording /\ ~pending

dvr_cmd(t) ==
  /\ \E cmd \in Cmds : At(t, cmd)
  /\ IF enable
     THEN Then(t, <<IF wantStart(t) THEN "doStart" ELSE "doStop">>) /\ UNCHANGED pending
     ELSE Done(t) /\ pending' = wantStart(t)
  /\ UNCHANGED <<recorder, locks, isRecording, appState, recordTimer, detection,
                 repairActive, card>>

DoStart(t) ==
  /\ At(t, "doStart") /\ dvrMutex = "none"
  /\ IF isRecording \/ isFull THEN Done(t) /\ UNCHANGED dvrMutex
     ELSE Then(t, <<"conf">>) /\ dvrMutex' = t
  /\ UNCHANGED <<recorder, lvglMutex, dvr, appState, recordTimer, detection, repairActive, card>>

(* dvr_update_record_conf and sync take their time before the look at      *)
(* g_sdcard_ready.                                                         *)
ConfKeepsLock(t) ==       \* returns without unlocking dvr_mutex
  /\ At(t, "conf")
  /\ IF ready THEN /\ isRecording' = TRUE /\ pending' = FALSE
                   /\ Then(t, <<"sendStart">>) /\ UNCHANGED dvrMutex
     ELSE /\ pending' = TRUE /\ Done(t) /\ UNCHANGED <<isRecording, dvrMutex>>
  /\ UNCHANGED <<recorder, lvglMutex, appState, recordTimer, detection, repairActive, card>>

Conf(t) ==
  /\ At(t, "conf")
  /\ IF ready THEN /\ isRecording' = TRUE /\ pending' = FALSE
                   /\ Then(t, <<"sendStart">>) /\ UNCHANGED dvrMutex
     ELSE /\ pending' = TRUE /\ UNCHANGED isRecording
          /\ dvrMutex' = "none" /\ Done(t)
  /\ UNCHANGED <<recorder, lvglMutex, appState, recordTimer, detection, repairActive, card>>

DoStopUnlocked(t) ==      \* without waiting for dvr_mutex
  /\ At(t, "doStop")
  /\ IF isRecording THEN /\ isRecording' = FALSE /\ Then(t, <<"sendStop">>)
                         /\ dvrMutex' = t
     ELSE Done(t) /\ UNCHANGED <<isRecording, dvrMutex>>
  /\ UNCHANGED <<recorder, lvglMutex, pending, appState, recordTimer, detection,
                 repairActive, card>>

DoStop(t) ==
  /\ At(t, "doStop") /\ dvrMutex = "none"
  /\ IF isRecording THEN /\ isRecording' = FALSE /\ Then(t, <<"sendStop">>)
                         /\ dvrMutex' = t
     ELSE Done(t) /\ UNCHANGED <<isRecording, dvrMutex>>
  /\ UNCHANGED <<recorder, lvglMutex, pending, appState, recordTimer, detection,
                 repairActive, card>>

(* ... and, after the two seconds, unlock.                                 *)
Send(t) ==
  /\ \/ At(t, "sendStart") /\ Post("start")
     \/ At(t, "sendStop") /\ Post("stop")
  /\ dvrMutex' = "none" /\ Done(t)
  /\ UNCHANGED <<lvglMutex, dvr, appState, recordTimer, detection, repairActive, card>>

StopLive(t) ==            \* system_script(REC_STOP_LIVE), under no dvr_mutex
  /\ At(t, "stopLive") /\ Post("stop") /\ Done(t)
  /\ UNCHANGED <<locks, dvr, appState, recordTimer, detection, repairActive, card>>

(* dvr_update_status: the recorder is not recording though it should be.   *)
UpdateStatus(t) ==
  /\ At(t, "update") /\ dvrMutex = "none"
  /\ IF isRecording /\ ~says
     THEN isRecording' = FALSE /\ dvrMutex' = t /\ Then(t, <<"giveUp">>)
     ELSE Done(t) /\ UNCHANGED <<isRecording, dvrMutex>>
  /\ UNCHANGED <<recorder, lvglMutex, pending, appState, recordTimer, detection,
                 repairActive, card>>

GiveUpSilently(t) ==      \* without telling the recorder
  /\ At(t, "giveUp") /\ UNCHANGED recorder
  /\ pending' = FALSE /\ dvrMutex' = "none" /\ Done(t)
  /\ UNCHANGED <<lvglMutex, isRecording, appState, recordTimer, detection, repairActive, card>>

GiveUp(t) ==
  /\ At(t, "giveUp") /\ Post("stop")
  /\ pending' = FALSE /\ dvrMutex' = "none" /\ Done(t)
  /\ UNCHANGED <<lvglMutex, isRecording, appState, recordTimer, detection, repairActive, card>>

Command(t) ==
  \/ dvr_cmd(t) \/ DoStart(t) \/ Conf(t) \/ DoStop(t) \/ Send(t) \/ StopLive(t)
  \/ Lock(t) \/ Unlock(t)
-----------------------------------------------------------------------------
(* The input thread: the handlers run under lvgl_mutex and look at         *)
(* g_app_state there.                                                      *)
app_switch_to_menu == <<"menu", "stop", "scanCard", "stopLive">>

(* app_exit_menu; the HDMI input enters video before it stops the stream.  *)
exits == {<<"stopLive", "video">>, <<"video", "stopLive">>}
retunes == {<<"stop">>, <<"stop", "stopLive">>, <<"stop", "stopLive", "video">>}

Key ==
  /\ \E key \in {"press", "click"} :
       /\ (key = "press") => "menu" \in Inputs
       /\ (key = "click") => {"button", "retune"} \cap Inputs # {}
       /\ Begin("input", <<"lock", key, "unlock">>)
  /\ UNCHANGED <<recorder, locks, dvr, appState, recordTimer, detection, repairActive, card>>

btn_press ==          \* the long press between video and the main menu
  /\ At("input", "press")
  /\ \/ appState = "video" /\ Then("input", app_switch_to_menu)
     \/ appState = "menu" /\ \E steps \in exits : Then("input", steps)
  /\ UNCHANGED <<recorder, locks, dvr, appState, recordTimer, detection, repairActive, card>>

rbtn_click ==         \* dvr_toggle, or the dial confirms another channel
  /\ At("input", "click")
  /\ \/ appState = "video" /\ "button" \in Inputs /\ Then("input", <<"toggle">>)
     \/ appState = "video" /\ "retune" \in Inputs
        /\ \E steps \in retunes : Then("input", steps)
     \/ appState = "menu" /\ Done("input")
  /\ UNCHANGED <<recorder, locks, dvr, appState, recordTimer, detection, repairActive, card>>

app_state_push(t) ==
  /\ \E state \in {"menu", "video"} : At(t, state) /\ appState' = state
  /\ Done(t)
  /\ UNCHANGED <<recorder, locks, dvr, recordTimer, detection, repairActive, card>>

ScanCard ==           \* app_switch_to_menu asks for another look at the card
  /\ At("input", "scanCard") /\ detReq' = TRUE /\ Done("input")
  /\ UNCHANGED <<recorder, locks, dvr, appState, recordTimer, enable, ready, enableLast,
                 initScan, isFull, repairActive, card>>
-----------------------------------------------------------------------------
(* The backpack's thread, which takes no lock for the recording commands.  *)

ChangeChannel ==      \* change_channel_hdzero, change_channel_analog
  /\ "retune" \in Inputs
  /\ Begin("backpack", <<"lock", "stop", "stopLive", "video", "unlock">>)
  /\ UNCHANGED <<recorder, locks, dvr, appState, recordTimer, detection, repairActive, card>>

SetRecState(cmd, delayed) ==
  /\ "backpack" \in Inputs /\ appState = "video"
  /\ delayed => "timer" \in Inputs
  /\ IF delayed
     THEN /\ todo["backpack"] = <<>> /\ UNCHANGED todo
          /\ recordTimer' = IF cmd = "stop" /\ ~isRecording /\ ~pending THEN "none" ELSE cmd
     ELSE Begin("backpack", <<cmd>>) /\ recordTimer' = "none"
  /\ UNCHANGED <<recorder, locks, dvr, appState, detection, repairActive, card>>

StrayTimeout ==           \* the timer goes off though it was cancelled
  /\ recordTimer' = "none"
  /\ Begin("backpack", <<recordTimer>>)
  /\ UNCHANGED <<recorder, locks, dvr, appState, detection, repairActive, card>>

esp32_handler_timeout ==
  /\ recordTimer # "none" /\ recordTimer' = "none"
  /\ Begin("backpack", <<recordTimer>>)
  /\ UNCHANGED <<recorder, locks, dvr, appState, detection, repairActive, card>>
-----------------------------------------------------------------------------
(* thread_peripheral: every 100 ms, the card; every fifth time, the        *)
(* recorder; then the signal, if that is to start and stop recordings.     *)
Tick(fifth) ==
  /\ Begin("peripheral",
           <<"detect">> \o (IF fifth THEN <<"update">> ELSE <<>>)
                        \o (IF Manual THEN <<>> ELSE <<"signal">>))
  /\ UNCHANGED <<recorder, locks, dvr, appState, recordTimer, detection, repairActive, card>>

(* detect_sdcard, up to the moment it calls the card ready.                *)
DetectKeepsReady ==       \* a card called not ready stays so
  /\ At("peripheral", "detect")
  /\ IF repairActive THEN Done("peripheral") /\ UNCHANGED <<enable, ready>>
     ELSE /\ Then("peripheral", <<"settle">>)
          /\ enable' = (card = "mounted") /\ UNCHANGED ready
  /\ UNCHANGED <<recorder, locks, dvr, appState, recordTimer, detReq, enableLast, initScan,
                 isFull, repairActive, card>>

Detect ==
  /\ At("peripheral", "detect")
  /\ IF repairActive THEN Done("peripheral") /\ UNCHANGED <<enable, ready>>
     ELSE /\ Then("peripheral", <<"settle">>)
          /\ enable' = (card = "mounted") /\ ready' = TRUE
  /\ UNCHANGED <<recorder, locks, dvr, appState, recordTimer, detReq, enableLast, initScan,
                 isFull, repairActive, card>>

(* The check of a new card: nothing for a clean one, else the note on the  *)
(* Storage page, the repair, and the note taken away.                      *)
checks == {<<>>} \cup
  (IF "dirtyCard" \in Inputs THEN {<<"note", "repair", "await", "note">>} ELSE {})

(* ... and the rest: a card that is new, or asked about, is not ready yet; *)
(* a pending recording starts on one that is.                              *)
Settle ==
  LET scan == (enable /\ ~enableLast) \/ detReq
      new == initScan /\ enable
      gone == ~new /\ ~enable /\ enableLast
  IN
  /\ At("peripheral", "settle")
  /\ detReq' = FALSE
  /\ IF scan THEN isFull' \in {FALSE} \cup {"full" \in Inputs} ELSE UNCHANGED isFull
  /\ ready' = (ready /\ ~scan /\ ~new /\ ~gone)
  /\ initScan' = ((initScan \/ gone) /\ ~new)
  /\ enableLast' = enable
  /\ \E check \in IF new /\ todo["repair"] = <<>> THEN checks ELSE {todo["repair"]} :
       todo' = [todo EXCEPT !["repair"] = check,
                            !["peripheral"] =
                              (IF pending /\ ready' /\ ~isFull' THEN <<"start">> ELSE <<>>)
                              \o Tail(@)]
  /\ UNCHANGED <<recorder, locks, dvr, appState, recordTimer, enable, repairActive, card>>

(* check_source_signal.  What a change of the video timing does depends on *)
(* the source: analog, HDZero, HDMI.                                       *)
Signal ==
  /\ At("peripheral", "signal")
  /\ IF ~enable \/ appState # "video" \/ "signal" \notin Inputs
     THEN Done("peripheral")
     ELSE \E steps \in {<<>>, <<"stop">>, <<"stop", "stopLive">>}
                       \cup (IF isRecording THEN {<<"stop", "start">>} ELSE {}) :
            Then("peripheral", steps \o <<"level">>)
  /\ UNCHANGED <<recorder, locks, dvr, appState, recordTimer, detection, repairActive, card>>

(* The signal has been lost, or present, for long enough, or not yet.      *)
Level ==
  /\ At("peripheral", "level")
  /\ \/ Done("peripheral") /\ UNCHANGED isFull
     \/ isRecording /\ Then("peripheral", <<"stop">>) /\ UNCHANGED isFull
     \/ /\ ~isRecording /\ isFull' \in {FALSE} \cup {"full" \in Inputs}
        /\ Then("peripheral", IF isFull' THEN <<>> ELSE <<"start">>)
  /\ UNCHANGED <<recorder, locks, dvr, appState, recordTimer, enable, ready, detReq,
                 enableLast, initScan, repairActive, card>>
-----------------------------------------------------------------------------
(* page_storage_repair_thread and the script it runs in the background.    *)

Note ==               \* waits for lvgl_mutex, and changes a label under it
  /\ At("repair", "note") /\ lvglMutex = "none" /\ Done("repair")
  /\ UNCHANGED <<recorder, locks, dvr, appState, recordTimer, detection, repairActive, card>>

Repair ==
  /\ At("repair", "repair")
  /\ IF card = "mounted" /\ todo["script"] = <<>>
     THEN /\ repairActive' = TRUE
          /\ todo' = [todo EXCEPT !["repair"] = Tail(@),
                                  !["script"] = <<"quit", "umount", "mount", "restart">>]
     ELSE UNCHANGED repairActive /\ Then("repair", <<>>)
  /\ UNCHANGED <<recorder, locks, dvr, appState, recordTimer, detection, card>>

(* It waits for the result of fsck and for the mounted card, or until the  *)
(* time for either is up.                                                  *)
Await ==
  /\ At("repair", "await")
  /\ \/ "slowCheck" \in Inputs
     \/ /\ ~At("script", "quit") /\ ~At("script", "umount")
        /\ card = "mounted" \/ ~At("script", "mount")
  /\ repairActive' = FALSE /\ Done("repair")
  /\ UNCHANGED <<recorder, locks, dvr, appState, recordTimer, detection, card>>

(* chkfixsd.sh.  It gives the recorder two seconds to quit; umount fails   *)
(* while a file is open on the card; a recorder that finds another one     *)
(* running exits.                                                          *)
ScriptQuit ==
  /\ At("script", "quit") /\ Post("quit") /\ Done("script")
  /\ UNCHANGED <<locks, dvr, appState, recordTimer, detection, repairActive, card>>

UmountOrExit ==           \* the script gives up when umount fails
  /\ At("script", "umount") /\ ("slowQuit" \in Inputs \/ phase \in Rec!Down)
  /\ card' = IF card = "mounted" /\ ~recording THEN "in" ELSE card
  /\ IF card' = "in" THEN Done("script") ELSE todo' = [todo EXCEPT !["script"] = <<>>]
  /\ UNCHANGED <<recorder, locks, dvr, appState, recordTimer, detection, repairActive>>

ScriptUmount ==
  /\ At("script", "umount") /\ ("slowQuit" \in Inputs \/ phase \in Rec!Down)
  /\ card' = IF card = "mounted" /\ ~recording THEN "in" ELSE card
  /\ Done("script")
  /\ UNCHANGED <<recorder, locks, dvr, appState, recordTimer, detection, repairActive>>

ScriptMount ==        \* after fsck
  /\ At("script", "mount")
  /\ card' = IF card = "in" THEN "mounted" ELSE card
  /\ Done("script")
  /\ UNCHANGED <<recorder, locks, dvr, appState, recordTimer, detection, repairActive>>

ScriptRestart ==
  /\ At("script", "restart")
  /\ IF phase \in Rec!Down THEN Rec!Restart ELSE UNCHANGED recorder
  /\ Done("script")
  /\ UNCHANGED <<locks, dvr, appState, recordTimer, detection, repairActive, card>>

Card ==               \* inserted (and mounted by the system), or pulled out
  /\ "card" \in Inputs
  /\ card' = IF card = "out" THEN "mounted" ELSE "out"
  /\ UNCHANGED <<recorder, todo, locks, dvr, appState, recordTimer, detection, repairActive>>

Recorder(step) ==
  step /\ UNCHANGED <<todo, locks, dvr, appState, recordTimer, detection, repairActive, card>>

StepOf(t) ==
  \/ Command(t) \/ app_state_push(t)
  \/ t = "input" /\ (btn_press \/ rbtn_click \/ ScanCard)
  \/ t = "peripheral" /\ (Detect \/ Settle \/ UpdateStatus(t) \/ GiveUp(t) \/ Signal \/ Level)
  \/ t = "repair" /\ (Note \/ Repair \/ Await)
  \/ t = "script" /\ (ScriptQuit \/ ScriptUmount \/ ScriptMount \/ ScriptRestart)

Environment ==
  \/ Key \/ ChangeChannel \/ Card
  \/ \E cmd \in {"start", "stop"}, delayed \in BOOLEAN : SetRecState(cmd, delayed)

Next ==
  \/ \E t \in Threads : StepOf(t)
  \/ esp32_handler_timeout
  \/ \E fifth \in BOOLEAN : Tick(fifth)
  \/ Recorder(Rec!Serve)
  \/ Environment

Spec == Init /\ [][Next]_vars

(* The threads that have something to do, given what Inputs lets happen.   *)
Users ==
  {"peripheral"}
  \cup (IF {"menu", "button", "retune"} \cap Inputs # {} THEN {"input"} ELSE {})
  \cup (IF {"retune", "backpack", "timer"} \cap Inputs # {} THEN {"backpack"} ELSE {})
  \cup (IF "dirtyCard" \in Inputs THEN {"repair", "script"} ELSE {})

(* A thread gets the mutex it waits for, sooner or later: every holder is  *)
(* done in finite time and then does other things.  The counter k makes    *)
(* every fifth tick look at the recorder.  The recorder is as fair as      *)
(* RecorderService says.  Nobody has to press, insert or send anything.    *)
FairSpec ==
  /\ Spec
  /\ \A t \in Users : SF_vars(StepOf(t))
  /\ SF_vars(Tick(TRUE))
  /\ WF_vars(Recorder(Rec!Take))
  /\ WF_vars(Recorder(Rec!End /\ (~wanted \/ phase = "closed")))
  /\ WF_vars(Recorder(Rec!Watch /\ ~recording))
  /\ WF_vars(Recorder(Rec!CloseQueue \/ Rec!Quit))
-----------------------------------------------------------------------------
(* What the recorder will want once it has taken all its commands.         *)
lastTold == IF queue = <<>> THEN wanted ELSE queue[Len(queue)] = "start"

(* Nobody is recorded behind the app's back: while dvr_is_recording is     *)
(* false and no dvr_cmd is under way, the last the recorder heard, or will *)
(* hear, is to stop, whichever threads sent commands in whatever order.    *)
NoOrphan ==
  (/\ ~isRecording /\ dvrMutex = "none"
   /\ phase = "serving" /\ "quit" \notin {queue[i] : i \in DOMAIN queue})
    => ~lastTold

(* The recording indicator and the recorder come to agree: a session that  *)
(* ended, or never began, is noticed, and one the app ended does end.      *)
Agreement == []<>(isRecording = recording)

(* A recording asked for while the card was not ready starts once it is.   *)
PendingHonoured ==
  []<>(~pending \/ isRecording \/ card # "mounted" \/ isFull \/ detReq \/ repairActive)

(* Whatever a thread has begun it finishes: lvgl_mutex and dvr_mutex are   *)
(* always taken in this order and always released.                         *)
EveryCallEnds == \A t \in Threads : []<>(todo[t] = <<>>)

(* A recorder told to quit for the check of the card is running again      *)
(* after it.                                                               *)
RecorderBack == []<>(phase = "serving")
=============================================================================
