------------------------------ MODULE Recorder ------------------------------
(***************************************************************************)
(* The recorder process (record/main.c, record/disk.c, record/gogglemsg.c):*)
(* a main loop that takes commands from a SysV message queue, an idle tick *)
(* that samples the SD card, starts or stops the session and splits long   *)
(* recordings, the two encoder threads that feed the container, and the    *)
(* disk thread.  It reports through the number it writes to                *)
(* /tmp/record.dat, which outlives the process.                            *)
(*                                                                         *)
(* record_start, record_stop and disk_sdstat are several steps here, since *)
(* the encoder threads, the disk thread and the reader of record.dat run   *)
(* in between.  What a step does while it holds recCtx.mutex is one action.*)
(***************************************************************************)
EXTENDS Naturals, Sequences

CONSTANTS
  MaxIndex,   \* bound: the highest file index of the model
  MaxQueue,   \* bound: the commands waiting in the queue
  Faults      \* the faults the environment may inject, a subset of FaultKinds

(* "split" is any reason for which the next file of a recording cannot be  *)
(* made; a card pulled just before it is one, and happens only with it.    *)
FaultKinds == {"prepare", "header", "video", "audio", "mkdir", "split", "encoder",
               "tornSample"}

ASSUME RecorderAssumption ==
  /\ MaxIndex \in Nat
  /\ MaxQueue \in Nat \ {0}
  /\ Faults \subseteq FaultKinds

VARIABLES
  process,       \* "up", "quit" (left main), or "crashed" (SIGSEGV)
  queue,         \* the message queue of MTYPE_RECORD
  pc,            \* where the main thread is
  ret,           \* where it continues after record_start / record_stop
  isExit, stateGo, stateGoing,
  ff,            \* the open container: the index of its file, or NoFile
  vv, aa,        \* encoder threads: "off", "on", or "dead" (left its loop)
  enableAudio,
  status,        \* recCtx->status, and the content of record.dat
  nowRecording,  \* the content of /tmp/now_recording
  nbFileIndex,
  fps,           \* since tickFps: enough (>= 10) frames, idle ticks of 500 ms
  sdContext,     \* what the disk thread last saw, and its updated flag
  sdstat,        \* recCtx->sdstat, and what disk_sdstat will return
  card           \* the card itself

ctrl == <<process, queue, pc, ret, isExit, stateGo, stateGoing>>
media == <<ff, vv, aa, enableAudio, nowRecording, nbFileIndex, fps>>
disk == <<sdContext, sdstat, card>>
vars == <<ctrl, media, status, disk>>

Index == 0 .. MaxIndex
NoFile == MaxIndex + 2
Commands == {"start", "stop", "quit"}
States == {"Idle", "Run", "Stop"}
Statuses == {"Idle", "Run", "DiskUmounted", "DiskPathFailed", "DiskFull",
             "FramesTimeout", "FileError"}
Locations == {"loop", "tick", "sample", "check", "run", "pack", "open", "video", "audio",
              "started", "stopAudio", "stopVideo", "close", "report"}
(* Frames: what is known since tickFps.  Samples: of the card.  Before the *)
(* first sample recCtx->sdstat is all zeroes, and 0 MB are less than any   *)
(* minDiskSize for the disk thread.                                        *)
FpsTicks == 2        \* 1000 ms are two idle ticks
Frames == [enough : BOOLEAN, ticks : 0 .. FpsTicks]
Samples == [mounted : BOOLEAN, full : BOOLEAN, updated : BOOLEAN]
ZeroSample == [mounted |-> FALSE, full |-> FALSE, updated |-> FALSE]
NoSample == [mounted |-> FALSE, full |-> TRUE, updated |-> TRUE]

(* files: every hdz_NNNN on the card; kept: those of a session that did    *)
(* start, which hold a pilot's footage; dir: the record directory exists.  *)
Cards == [present : BOOLEAN, full : BOOLEAN, dir : BOOLEAN,
          files : SUBSET Index, kept : SUBSET Index]
NoCard == [present |-> FALSE, full |-> FALSE, dir |-> FALSE,
           files |-> {}, kept |-> {}]

NextIndexTwice(c) ==     \* one added by disk_countMovies, one by its caller
  CHOOSE n \in 0 .. MaxIndex + 2 :
    /\ \A i \in c.files : i + 1 < n
    /\ n = 0 \/ n - 2 \in c.files

NextIndexSame(c) ==      \* the highest index, not the one after it
  CHOOSE n \in Index :
    /\ \A i \in c.files : i <= n
    /\ n = 0 \/ n \in c.files

NextIndex(c) ==      \* disk_countMovies() + 1
  CHOOSE n \in 0 .. MaxIndex + 1 :
    /\ \A i \in c.files : i < n
    /\ n = 0 \/ n - 1 \in c.files

(* Available space is 0 on an absent card, so it reads as full. *)
LowSpace(c) == ~c.present \/ c.full

shouldStopFull == sdstat.full /\ sdstat.mounted     \* only a full card
shouldStop == sdstat.full \/ ~sdstat.mounted
stopStatusSticky ==      \* leaves the status alone when the card is fine
  IF ~sdstat.mounted THEN "DiskUmounted" ELSE IF sdstat.full THEN "DiskFull" ELSE status
stopStatus == IF ~sdstat.mounted THEN "DiskUmounted"
              ELSE IF sdstat.full THEN "DiskFull" ELSE "Idle"

TypeOK ==
  /\ process \in {"up", "quit", "crashed"}
  /\ queue \in Seq(Commands)
  /\ pc \in Locations /\ ret \in {"tick", "pack", "exit"} /\ isExit \in BOOLEAN
  /\ stateGo \in States /\ stateGoing \in States
  /\ ff \in Index \cup {NoFile} /\ nowRecording \in Index \cup {NoFile}
  /\ vv \in {"off", "on", "dead"} /\ aa \in {"off", "on"}
  /\ enableAudio \in BOOLEAN
  /\ status \in Statuses
  /\ nbFileIndex \in 0 .. MaxIndex + 1
  /\ fps \in Frames /\ sdContext \in Samples /\ sdstat \in Samples
  /\ card \in Cards

NewFpsStale == [enough |-> TRUE, ticks |-> 0]        \* frames not cleared
NewFps == [enough |-> FALSE, ticks |-> 0]

Init ==
  /\ process = "up" /\ queue = <<>> /\ pc = "loop" /\ ret = "tick" /\ isExit = FALSE
  /\ stateGo = "Idle" /\ stateGoing = "Idle"
  /\ ff = NoFile /\ vv = "off" /\ aa = "off" /\ nowRecording = NoFile
  /\ enableAudio \in BOOLEAN
  /\ nbFileIndex = 0 /\ fps = NewFps
  /\ sdContext = NoSample
  /\ sdstat = ZeroSample
  /\ status = "Idle" /\ card = NoCard
-----------------------------------------------------------------------------
(* The other side of the queue, and the card.                              *)

(* gogglecmd posts a command.  A recorder that leaves removes its queue,   *)
(* and msgsnd fails; after a crash the queue survives and fills up.        *)
Send(cmd) ==
  /\ ret # "exit" /\ Len(queue) < MaxQueue
  /\ queue' = Append(queue, cmd)
  /\ UNCHANGED <<process, pc, ret, isExit, stateGo, stateGoing, media, status, disk>>

Unplug ==
  /\ card.present /\ card' = NoCard
  /\ UNCHANGED <<ctrl, media, status, sdContext, sdstat>>

(* A card is swapped by hand: the recorder has copied "not mounted" before *)
(* the next one arrives.  It holds a run of recordings, or is a fresh one. *)
Insert ==
  /\ ~card.present /\ (process = "up" => ~sdstat.mounted)
  /\ \E n \in 0 .. MaxIndex, full \in BOOLEAN, dir \in BOOLEAN :
       /\ n > 0 => dir
       /\ card' = [present |-> TRUE, full |-> full, dir |-> dir,
                   files |-> 0 .. n - 1, kept |-> 0 .. n - 1]
  /\ UNCHANGED <<ctrl, media, status, sdContext, sdstat>>

(* Recording fills the card, deleting files in playback frees space.       *)
FillOrFree ==
  /\ card.present /\ card' = [card EXCEPT !.full = ~@]
  /\ UNCHANGED <<ctrl, media, status, sdContext, sdstat>>

(* sdcard_check, every 490 ms in the disk thread.  A change of the size    *)
(* alone does not raise the flag; the first check always does.  Nothing    *)
(* keeps it out of disk_sdstat, whose few instructions it seldom meets.    *)
DiskThread ==
  /\ process = "up" /\ (pc = "sample" => "tornSample" \in Faults)
  /\ sdContext' = [mounted |-> card.present, full |-> LowSpace(card),
                   updated |-> sdContext.updated \/ sdContext.mounted # card.present]
  /\ UNCHANGED <<ctrl, media, status, sdstat, card>>
-----------------------------------------------------------------------------
(* The main thread.                                                        *)

Goto(place) == pc' = place /\ UNCHANGED ret
Call(place, back) == pc' = place /\ ret' = back
Return == pc' = ret /\ ret' = "tick"
At(place) == process = "up" /\ pc = place

(* record_run: start or stop when the wanted state is not the current one, *)
(* else watch the card and the frame rate of a running session.            *)
Run(target, back) ==
  LET running == target = "Run" /\ stateGoing = "Run"
      slow == fps.ticks >= FpsTicks
  IN
  /\ stateGo' = target
  /\ \/ /\ target = "Run" /\ stateGoing # "Run"          \* record_start
        /\ IF ff # NoFile \/ shouldStop THEN Goto(back) ELSE Call("open", back)
        /\ UNCHANGED <<fps, status>>
     \/ /\ target = "Stop" /\ stateGoing # "Stop"        \* record_stop
        /\ Call("stopAudio", back)
        /\ UNCHANGED <<fps, status>>
     \/ /\ running /\ shouldStop
        /\ Call("stopAudio", back)
        /\ UNCHANGED <<fps, status>>
     \/ /\ running /\ ~shouldStop
        /\ Goto(back)
        /\ status' = IF slow THEN (IF fps.enough THEN status ELSE "FramesTimeout")
                     ELSE IF status = "FramesTimeout" THEN "Run" ELSE status
        /\ fps' = IF slow \/ status = "FramesTimeout" THEN NewFps ELSE fps
     \/ /\ target \in {"Idle", stateGoing} /\ ~running
        /\ Goto(back)
        /\ UNCHANGED <<fps, status>>

(* One message off the queue.  The configuration, the audio flag included, *)
(* is loaded again only while no video encoder thread exists.              *)
Receive(cmd) ==
  /\ At("loop") /\ ~isExit /\ queue # <<>> /\ Head(queue) = cmd
  /\ queue' = Tail(queue)

ReceiveStart ==
  /\ Receive("start")
  /\ IF vv = "off" THEN enableAudio' \in BOOLEAN ELSE UNCHANGED enableAudio
  /\ Run("Run", "tick")
  /\ UNCHANGED <<process, isExit, stateGoing, ff, vv, aa, nowRecording, nbFileIndex, disk>>

(* MSG_cmdSTOP, and LIVE_cmdSTOP, which stops the recording as well as the *)
(* live stream.                                                            *)
ReceiveStop ==
  /\ Receive("stop")
  /\ Run("Stop", "tick")
  /\ UNCHANGED <<process, isExit, stateGoing, ff, vv, aa, enableAudio, nowRecording,
                 nbFileIndex, disk>>

ReceiveQuit ==
  /\ Receive("quit")
  /\ isExit' = TRUE /\ Goto("tick")
  /\ UNCHANGED <<process, stateGo, stateGoing, media, status, disk>>

ReceiveNothing ==
  /\ At("loop") /\ ~isExit /\ queue = <<>> /\ Goto("tick")
  /\ UNCHANGED <<process, queue, isExit, stateGo, stateGoing, media, status, disk>>

LeaveKeepsQueue ==       \* gogglemsg_uninit left out
  /\ At("loop") /\ isExit
  /\ Call("stopAudio", "exit")
  /\ UNCHANGED <<process, queue, isExit, stateGo, stateGoing, media, status, disk>>

(* The loop is left: the queue is removed with what it holds, then the     *)
(* session is stopped.                                                     *)
Leave ==
  /\ At("loop") /\ isExit
  /\ queue' = <<>> /\ Call("stopAudio", "exit")
  /\ UNCHANGED <<process, isExit, stateGo, stateGoing, media, status, disk>>

SkipTick ==           \* 500 ms have not passed
  /\ At("tick") /\ Goto("loop")
  /\ UNCHANGED <<process, queue, isExit, stateGo, stateGoing, media, status, disk>>

(* The idle tick; it may come late.  disk_sdstat copies the flag and the   *)
(* mount state ...                                                         *)
IdleTick ==
  /\ At("tick") /\ Goto("sample")
  /\ \E t \in fps.ticks .. FpsTicks :
       /\ t > fps.ticks \/ t = FpsTicks
       /\ fps' = [fps EXCEPT !.ticks = t]
  /\ sdstat' = [sdstat EXCEPT !.mounted = sdContext.mounted, !.updated = sdContext.updated]
  /\ UNCHANGED <<process, queue, isExit, stateGo, stateGoing, ff, vv, aa, enableAudio,
                 nowRecording, nbFileIndex, status, sdContext, card>>

(* ... then compares the space and, only if that did not change, takes the *)
(* flag down.  The disk thread may have raised it in between.              *)
SampleSpaceSticky ==     \* sees the card fill up, not get free
  /\ At("sample") /\ Goto("check")
  /\ sdstat' = [sdstat EXCEPT !.full = @ \/ sdContext.full]
  /\ sdContext' = [sdContext EXCEPT !.updated = FALSE]
  /\ UNCHANGED <<process, queue, isExit, stateGo, stateGoing, media, status, card>>

SampleSpace ==
  /\ At("sample") /\ Goto("check")
  /\ LET changed == sdstat.full # sdContext.full IN
     /\ sdstat' = [sdstat EXCEPT !.full = sdContext.full, !.updated = @ \/ changed]
     /\ sdContext' = [sdContext EXCEPT !.updated = @ /\ changed]
  /\ UNCHANGED <<process, queue, isExit, stateGo, stateGoing, media, status, card>>

(* disk_checkPath: a missing directory is created, or cannot be, or (its   *)
(* struct stat is not initialised when stat fails) is taken to exist.      *)
checkPath(c) ==
  IF c.dir THEN {"exists"}
  ELSE {"taken"} \cup (IF c.present THEN {"made"} ELSE {})
                 \cup (IF "mkdir" \in Faults THEN {"failed"} ELSE {})

(* record_checkDisk, acting on what disk_sdstat returned.                  *)
CheckDisk ==
  /\ At("check") /\ Goto("run")
  /\ IF ~sdstat.updated THEN UNCHANGED <<card, status, nbFileIndex>>
     ELSE IF ~sdstat.mounted
     THEN status' = "DiskUmounted" /\ UNCHANGED <<card, nbFileIndex>>
     ELSE \E path \in checkPath(card) :
            /\ card' = [card EXCEPT !.dir = @ \/ path = "made"]
            /\ status' = IF path = "failed" THEN "DiskPathFailed"
                         ELSE IF sdstat.full THEN "DiskFull" ELSE status
            /\ nbFileIndex' = IF path # "failed" /\ ~sdstat.full
                              THEN NextIndex(card) ELSE nbFileIndex
  /\ UNCHANGED <<process, queue, isExit, stateGo, stateGoing, ff, vv, aa, enableAudio,
                 nowRecording, fps, sdContext, sdstat>>

IdleRun ==
  /\ At("run") /\ Run(stateGo, "pack")
  /\ UNCHANGED <<process, queue, isExit, stateGoing, ff, vv, aa, enableAudio, nowRecording,
                 nbFileIndex, disk>>

(* A null container reaches ffmpeg: SIGSEGV, and the handler aborts.  The  *)
(* queue and both files in /tmp stay as they are.                          *)
Crash ==
  /\ process' = "crashed" /\ ff' = NoFile /\ vv' = "off" /\ aa' = "off"
  /\ UNCHANGED <<queue, pc, ret, isExit, stateGo, stateGoing, enableAudio, status,
                 nowRecording, nbFileIndex, fps, disk>>

(* ffpack_openFile truncates what it opens; ffpack_start writes a header.  *)
Opened(c, n) == [c EXCEPT !.files = @ \cup {n}, !.kept = @ \ {n}]
CanOpen == card.present /\ card.dir /\ nbFileIndex \in Index

packDueWanted == stateGo = "Run"     \* not looking at the session itself
packDue == stateGo = "Run" /\ stateGoing = "Run"

PackNothing ==        \* not due, or neither long nor large enough
  /\ At("pack") /\ (packDue => ff # NoFile)
  /\ Goto("loop")
  /\ UNCHANGED <<process, queue, isExit, stateGo, stateGoing, media, status, disk>>

PackUnopened ==       \* recCtx->ff->nbTotalSize is read all the same
  At("pack") /\ packDue /\ ff = NoFile /\ Crash

(* The next file of a long recording, under recCtx.mutex.                  *)
PackNext ==
  /\ At("pack") /\ packDue /\ ff # NoFile /\ CanOpen
  /\ Goto("loop")
  /\ ff' = nbFileIndex /\ nbFileIndex' = nbFileIndex + 1
  /\ card' = [Opened(card, nbFileIndex) EXCEPT !.kept = @ \cup {nbFileIndex}]
  /\ fps' = NewFps
  /\ UNCHANGED <<process, queue, isExit, stateGo, stateGoing, vv, aa, enableAudio, status,
                 nowRecording, sdContext, sdstat>>

PackFailsOnOld ==         \* removes the file it has just closed
  /\ "split" \in Faults
  /\ At("pack") /\ packDue /\ ff # NoFile
  /\ Goto("loop")
  /\ ff' = NoFile /\ fps' = NewFps
  /\ card' = [card EXCEPT !.files = @ \ {ff}, !.kept = @ \ {ff}]
  /\ UNCHANGED <<process, queue, isExit, stateGo, stateGoing, vv, aa, enableAudio, status,
                 nowRecording, nbFileIndex, sdContext, sdstat>>

(* The next file cannot be created: the old one is closed, the new one is  *)
(* removed, and the session is still "going".                              *)
PackFails ==
  /\ "split" \in Faults
  /\ At("pack") /\ packDue /\ ff # NoFile
  /\ Goto("loop")
  /\ ff' = NoFile /\ fps' = NewFps
  /\ card' = [card EXCEPT !.files = @ \ {nbFileIndex}, !.kept = @ \ {nbFileIndex}]
  /\ UNCHANGED <<process, queue, isExit, stateGo, stateGoing, vv, aa, enableAudio, status,
                 nowRecording, nbFileIndex, sdContext, sdstat>>
-----------------------------------------------------------------------------
(* record_start.  Every failure ends in record_stop, whose status replaces *)
(* the one the failure saved.                                              *)
StartFails(fault) ==
  /\ fault \in Faults
  /\ Goto("stopAudio")

OpenFile ==           \* prepare the encoders, open the container
  /\ At("open") /\ CanOpen
  /\ \/ StartFails("prepare") /\ UNCHANGED <<ff, card, fps>>
     \/ /\ Goto("video") \/ StartFails("header")
        /\ ff' = nbFileIndex /\ card' = Opened(card, nbFileIndex)
        /\ fps' = NewFps
  /\ UNCHANGED <<process, queue, isExit, stateGo, stateGoing, vv, aa, enableAudio, status,
                 nowRecording, nbFileIndex, sdContext, sdstat>>

OpenFileFails ==
  /\ At("open") /\ ~CanOpen
  /\ Goto("stopAudio") /\ status' = "FileError"
  /\ UNCHANGED <<process, queue, isExit, stateGo, stateGoing, media, disk>>

StartVideo ==
  /\ At("video")
  /\ \/ vv' = "on" /\ Goto(IF enableAudio THEN "audio" ELSE "started")
     \/ StartFails("video") /\ UNCHANGED vv
  /\ UNCHANGED <<process, queue, isExit, stateGo, stateGoing, ff, aa, enableAudio, status,
                 nowRecording, nbFileIndex, fps, disk>>

StartAudio ==
  /\ At("audio")
  /\ \/ aa' = "on" /\ Goto("started")
     \/ StartFails("audio") /\ UNCHANGED aa
  /\ UNCHANGED <<process, queue, isExit, stateGo, stateGoing, ff, vv, enableAudio, status,
                 nowRecording, nbFileIndex, fps, disk>>

Started ==
  /\ At("started") /\ Return
  /\ stateGoing' = "Run" /\ status' = "Run"
  /\ nbFileIndex' = nbFileIndex + 1 /\ nowRecording' = ff
  /\ card' = [card EXCEPT !.kept = IF card.present THEN @ \cup {ff} ELSE @]
  /\ UNCHANGED <<process, queue, isExit, stateGo, ff, vv, aa, enableAudio, fps, sdContext,
                 sdstat>>

(* record_stop: join the audio thread, join the video thread, only then    *)
(* close the container under the mutex, and say why last.                  *)
StopAudio ==
  /\ At("stopAudio") /\ Goto("stopVideo")
  /\ aa' = IF enableAudio THEN "off" ELSE aa
  /\ UNCHANGED <<process, queue, isExit, stateGo, stateGoing, ff, vv, enableAudio, status,
                 nowRecording, nbFileIndex, fps, disk>>

StopVideoWaits ==        \* for a last frame, which a dead encoder never sends
  /\ At("stopVideo") /\ vv # "dead" /\ Goto("close")
  /\ vv' = "off"
  /\ UNCHANGED <<process, queue, isExit, stateGo, stateGoing, ff, aa, enableAudio, status,
                 nowRecording, nbFileIndex, fps, disk>>

StopVideo ==
  /\ At("stopVideo") /\ Goto("close")
  /\ vv' = "off"
  /\ UNCHANGED <<process, queue, isExit, stateGo, stateGoing, ff, aa, enableAudio, status,
                 nowRecording, nbFileIndex, fps, disk>>

Close ==
  /\ At("close") /\ Goto("report")
  /\ ff' = NoFile /\ stateGoing' = "Stop"
  /\ UNCHANGED <<process, queue, isExit, stateGo, vv, aa, enableAudio, status,
                 nowRecording, nbFileIndex, fps, disk>>

Report ==
  /\ At("report")
  /\ status' = stopStatus /\ nowRecording' = NoFile
  /\ IF ret = "exit" THEN process' = "quit" /\ UNCHANGED <<pc, ret>>
     ELSE UNCHANGED process /\ Return
  /\ UNCHANGED <<queue, isExit, stateGo, stateGoing, ff, vv, aa, enableAudio,
                 nbFileIndex, fps, disk>>
-----------------------------------------------------------------------------
(* The encoder threads, under recCtx.mutex.                                *)

VideoFrame ==         \* vv_onFrame; the tenth frame since tickFps counts
  /\ process = "up" /\ vv = "on"
  /\ IF ff = NoFile THEN Crash
     ELSE /\ fps' = [fps EXCEPT !.enough = TRUE]
          /\ UNCHANGED <<ctrl, ff, vv, aa, enableAudio, nowRecording, nbFileIndex,
                         status, disk>>

AudioFrame ==         \* aa_onFrame writes without a look at the container
  process = "up" /\ aa = "on" /\ ff = NoFile /\ Crash

(* AW_MPI_VENC_GetStream times out: the thread returns, its id stays.      *)
EncoderDies ==
  /\ "encoder" \in Faults /\ process = "up" /\ vv = "on"
  /\ vv' = "dead"
  /\ UNCHANGED <<ctrl, ff, aa, enableAudio, nowRecording, nbFileIndex, fps, status, disk>>

RestartKeepsStatus ==    \* without the first record_saveStatus
  /\ process # "up" /\ process' = "up"
  /\ queue' = IF queue = <<>> THEN queue ELSE Tail(queue)
  /\ pc' = "loop" /\ ret' = "tick" /\ isExit' = FALSE
  /\ stateGo' = "Idle" /\ stateGoing' = "Idle"
  /\ ff' = NoFile /\ vv' = "off" /\ aa' = "off"
  /\ enableAudio' \in BOOLEAN
  /\ nbFileIndex' = 0 /\ fps' = NewFps
  /\ sdContext' = NoSample
  /\ sdstat' = ZeroSample
  /\ UNCHANGED <<status, nowRecording, card>>

(* chkfixsd.sh starts the recorder again.  gogglemsg_flush takes msgrcv's  *)
(* byte count for a failure, so it drops one message and leaves the rest.  *)
Restart ==
  /\ process # "up" /\ process' = "up"
  /\ queue' = IF queue = <<>> THEN queue ELSE Tail(queue)
  /\ pc' = "loop" /\ ret' = "tick" /\ isExit' = FALSE
  /\ stateGo' = "Idle" /\ stateGoing' = "Idle" /\ status' = "Idle"
  /\ ff' = NoFile /\ vv' = "off" /\ aa' = "off"
  /\ enableAudio' \in BOOLEAN
  /\ nbFileIndex' = 0 /\ fps' = NewFps
  /\ sdContext' = NoSample
  /\ sdstat' = ZeroSample
  /\ UNCHANGED <<nowRecording, card>>

Main ==
  \/ ReceiveStart \/ ReceiveStop \/ ReceiveQuit \/ ReceiveNothing \/ Leave
  \/ SkipTick \/ IdleTick \/ SampleSpace \/ CheckDisk \/ IdleRun
  \/ PackNothing \/ PackUnopened \/ PackNext \/ PackFails
  \/ OpenFile \/ OpenFileFails \/ StartVideo \/ StartAudio \/ Started
  \/ StopAudio \/ StopVideo \/ Close \/ Report

Encoders == VideoFrame \/ AudioFrame \/ EncoderDies
Environment == Unplug \/ Insert \/ FillOrFree \/ \E cmd \in Commands : Send(cmd)

Next == Main \/ Encoders \/ DiskThread \/ Restart \/ Environment

Spec == Init /\ [][Next]_vars

(* The process runs: its main thread and its disk thread are never starved *)
(* and the encoder delivers frames while it lives.  The idle tick is not   *)
(* skipped forever: only a command resets its 500 ms, and dvr_cmd sleeps   *)
(* two seconds after each.  Nobody has to send, plug or restart.           *)
FairSpec ==
  Spec /\ WF_vars(Main) /\ SF_vars(IdleTick) /\ SF_vars(DiskThread) /\ WF_vars(VideoFrame)
-----------------------------------------------------------------------------
(* What the recorder promises to those who send it commands and read       *)
(* record.dat.                                                             *)
phase == IF process # "up" THEN process
         ELSE IF ret = "exit" THEN "closed"
         ELSE IF isExit THEN "leaving" ELSE "serving"
wanted == stateGo = "Run"
recording == process = "up" /\ stateGoing = "Run"
says == status = "Run"

Service == INSTANCE RecorderService WITH
  MaxQueue <- MaxQueue, phase <- phase, queue <- queue,
  wanted <- wanted, recording <- recording, says <- says

(* The process keeps the promise, whatever fails inside it.                *)
ServiceKept == Service!Spec

(* The session nobody wants any more ends, and record.dat says so.         *)
SessionEnds ==
  (recording /\ ~wanted) ~> (~recording /\ ~says)

(* Whoever writes into the container finds one: the encoder threads are    *)
(* joined before it is closed, started after it is opened, and the split   *)
(* looks at it only while a session is going.                              *)
ContainerInPlace ==
  /\ vv = "on" \/ aa = "on" => ff # NoFile
  /\ stateGoing = "Run" /\ process = "up" => ff # NoFile
  /\ process # "crashed"

(* record.dat says "recording" to its reader only while a session is going *)
(* with a container to write to.                                           *)
StatusIsTrue ==
  At("loop") /\ status = "Run" => stateGoing = "Run" /\ ff # NoFile

(* A container is opened, truncating what was there, only on an index that *)
(* holds no footage.                                                       *)
NoOverwrite ==
  [][ff' \notin {ff, NoFile} => ff' \notin card.kept]_vars

(* No step of the recorder takes footage off the card: a start truncates   *)
(* an unused index and a failed split removes only the file it made.       *)
FootageKept ==
  [][card'.present /\ card.present => card.kept \subseteq card'.kept]_vars

(* A STOP that reached the queue ends the session, whatever is in progress *)
StopWins ==
  (process = "up" /\ "stop" \in {queue[i] : i \in DOMAIN queue})
    ~> (process # "up" \/ (ff = NoFile /\ vv = "off" /\ aa = "off"))

(* A recorder that lost its card ends its session.                         *)
LostCardStops ==
  (process = "up" /\ stateGoing = "Run" /\ ~card.present)
    ~> (process # "up" \/ stateGoing # "Run" \/ card.present)

(* A dead encoder is reported.                                             *)
SilenceReported ==
  (process = "up" /\ vv = "dead" /\ stateGoing = "Run")
    ~> (process # "up" \/ status # "Run")

(* A wanted session runs whenever the card can take it: one that lost its  *)
(* card, or found it full, is resumed by the idle tick.                    *)
SessionResumes ==
  []<>(\/ process # "up" \/ stateGo # "Run" \/ stateGoing = "Run"
       \/ card.full \/ ~CanOpen)
=============================================================================
