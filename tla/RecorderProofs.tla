--------------------------- MODULE RecorderProofs ---------------------------
(***************************************************************************)
(* What the recorder guarantees for every index range, every queue length  *)
(* and, where the statement does not exclude one, every fault.             *)
(***************************************************************************)
EXTENDS Recorder, WellFoundedInduction, SequenceTheorems, TLAPS

(* disk_countMovies() + 1 exists, and lies above every file on the card.   *)
LEMMA NextIndexAbove ==
  ASSUME NEW c \in Cards
  PROVE  /\ NextIndex(c) \in 0 .. MaxIndex + 1
         /\ \A i \in c.files : i < NextIndex(c)
<1> DEFINE Above == {n \in 0 .. MaxIndex + 1 : \A i \in c.files : i < n}
<1>1. c.files \subseteq 0 .. MaxIndex
  BY DEF Cards, Index
<1>2. MaxIndex + 1 \in Above
  BY <1>1, RecorderAssumption
<1>3. PICK n \in Above : \A m \in Above : n <= m
  <2>1. Above \in SUBSET Nat /\ Above # {}
    BY <1>2, RecorderAssumption
  <2> HIDE DEF Above
  <2> QED
    <3> DEFINE Less == OpToRel(<, Nat)
    <3>1. IsWellFoundedOn(Less, Nat)
      BY NatLessThanWellFounded
    <3>2. \A a, b \in Nat : <<a, b>> \in Less <=> a < b
      BY DEF OpToRel
    <3> HIDE DEF Less
    <3>3. PICK n \in Above : \A m \in Above : <<m, n>> \notin Less
      BY <2>1, <3>1, WFMin
    <3>4. ASSUME NEW m \in Above
          PROVE  n <= m
      <4>1. m \in Nat /\ n \in Nat /\ <<m, n>> \notin Less
        BY <2>1, <3>3
      <4> QED
        BY <3>2, <4>1
    <3> QED
      BY <3>4
<1>4. n = 0 \/ n - 1 \in c.files
  <2> SUFFICES ASSUME n # 0, n - 1 \notin c.files
               PROVE  FALSE
    OBVIOUS
  <2>1. n - 1 \in Above
    BY <1>1, RecorderAssumption
  <2> QED
    BY <1>3, <2>1, RecorderAssumption
<1>5. \E m \in 0 .. MaxIndex + 1 : /\ \A i \in c.files : i < m
                                   /\ m = 0 \/ m - 1 \in c.files
  BY <1>4
<1> HIDE DEF Above
<1> QED
  BY <1>5 DEF NextIndex

-----------------------------------------------------------------------------
(* The record types, and the updates the recorder makes to them.           *)
LEMMA FramesTypes ==
  /\ NewFps \in Frames
  /\ \A f \in Frames, t \in 0 .. FpsTicks : [f EXCEPT !.ticks = t] \in Frames
  /\ \A f \in Frames : [f EXCEPT !.enough = TRUE] \in Frames
  /\ \A f \in Frames : f.enough \in BOOLEAN /\ f.ticks \in 0 .. FpsTicks
<1>1. NewFps \in Frames
  BY DEF NewFps, Frames, FpsTicks
<1>2. \A f \in Frames, t \in 0 .. FpsTicks : [f EXCEPT !.ticks = t] \in Frames
  BY DEF Frames
<1>3. \A f \in Frames : [f EXCEPT !.enough = TRUE] \in Frames
  BY DEF Frames
<1>4. \A f \in Frames : f.enough \in BOOLEAN /\ f.ticks \in 0 .. FpsTicks
  BY DEF Frames
<1> QED
  BY <1>1, <1>2, <1>3, <1>4

LEMMA SampleTypes ==
  /\ NoSample \in Samples /\ ZeroSample \in Samples
  /\ \A s \in Samples : s.mounted \in BOOLEAN /\ s.full \in BOOLEAN /\ s.updated \in BOOLEAN
  /\ \A s \in Samples, m \in BOOLEAN, u \in BOOLEAN :
       [s EXCEPT !.mounted = m, !.updated = u] \in Samples
  /\ \A s \in Samples, f \in BOOLEAN, u \in BOOLEAN :
       [s EXCEPT !.full = f, !.updated = @ \/ u] \in Samples
  /\ \A s \in Samples, u \in BOOLEAN : [s EXCEPT !.updated = @ /\ u] \in Samples
  /\ \A m, f, u \in BOOLEAN : [mounted |-> m, full |-> f, updated |-> u] \in Samples
  BY DEF NoSample, ZeroSample, Samples

LEMMA CardTypes ==
  /\ NoCard \in Cards
  /\ \A c \in Cards : c.present \in BOOLEAN /\ c.full \in BOOLEAN /\ c.dir \in BOOLEAN
  /\ \A c \in Cards : [c EXCEPT !.full = ~@] \in Cards
  /\ \A c \in Cards, d \in BOOLEAN : [c EXCEPT !.dir = @ \/ d] \in Cards
  /\ \A c \in Cards, n \in Index : Opened(c, n) \in Cards
  /\ \A c \in Cards, n \in Index : [c EXCEPT !.kept = @ \cup {n}] \in Cards
  /\ \A c \in Cards, n \in 0 .. MaxIndex + 1 :
       [c EXCEPT !.files = @ \ {n}, !.kept = @ \ {n}] \in Cards
  BY DEF NoCard, Cards, Opened

(* record_start opens a file on the card only at an index that exists.     *)
LEMMA OpenFileTypes ==
  ASSUME card \in Cards, OpenFile
  PROVE  card' \in Cards
<1>1. nbFileIndex \in Index
  BY DEF OpenFile, CanOpen
<1>2. Opened(card, nbFileIndex) \in Cards
  BY <1>1, CardTypes
<1>3. card' = card \/ card' = Opened(card, nbFileIndex)
  BY DEF OpenFile
<1> QED
  BY <1>2, <1>3

(* The type invariant: every index, place and status of the recorder stays *)
(* in its range.  It takes one more fact: from opening the file until      *)
(* nbFileIndex moves on, the file is the one with that index; and only     *)
(* record_stop is called on the way out of main.                           *)
Opening ==
  At("video") \/ At("audio") \/ At("started") => ff = nbFileIndex /\ nbFileIndex \in Index

Leaving ==
  /\ ret = "exit" => pc \in {"stopAudio", "stopVideo", "close", "report"}
  /\ process = "quit" => ret = "exit"

TypeInv == TypeOK /\ Opening /\ Leaving

LEMMA TypeInvariant == Spec => []TypeInv
<1>1. Init => TypeInv
  <2> SUFFICES ASSUME Init
               PROVE  TypeInv
    OBVIOUS
  <2>1. fps \in Frames /\ sdContext \in Samples /\ sdstat \in Samples /\ card \in Cards
    BY FramesTypes, SampleTypes, CardTypes DEF Init
  <2>2. queue \in Seq(Commands)
    BY EmptySeq DEF Init
  <2>3. /\ process = "up" /\ pc \in Locations /\ ret = "tick" /\ isExit \in BOOLEAN
        /\ stateGo \in States /\ stateGoing \in States /\ status \in Statuses
    BY DEF Init, Locations, States, Statuses
  <2>4. /\ ff \in Index \cup {NoFile} /\ nowRecording \in Index \cup {NoFile}
        /\ vv = "off" /\ aa = "off" /\ enableAudio \in BOOLEAN
        /\ nbFileIndex \in 0 .. MaxIndex + 1
    BY RecorderAssumption DEF Init
  <2>5. Opening /\ Leaving
    BY <2>3 DEF Init, Opening, Leaving, At
  <2> QED
    BY <2>1, <2>2, <2>3, <2>4, <2>5 DEF TypeInv, TypeOK
<1>2. TypeInv /\ [Next]_vars => TypeInv'
  <2> SUFFICES ASSUME TypeInv, [Next]_vars
               PROVE  TypeInv'
    OBVIOUS
  <2> USE RecorderAssumption DEF TypeInv, TypeOK, Opening, Leaving, At, Index,
     NoFile, Commands, States, Statuses,
          Locations, ctrl, media, disk
  <2>1. CASE ReceiveStart
    BY <2>1, HeadTailProperties, FramesTypes DEF ReceiveStart, Receive, Run, Goto, Call
  <2>2. CASE ReceiveStop
    BY <2>2, HeadTailProperties, FramesTypes DEF ReceiveStop, Receive, Run, Goto, Call
  <2>3. CASE ReceiveQuit
    BY <2>3, HeadTailProperties DEF ReceiveQuit, Receive, Goto
  <2>4. CASE ReceiveNothing
    BY <2>4 DEF ReceiveNothing, Goto
  <2>5. CASE Leave
    BY <2>5 DEF Leave, Call
  <2>6. CASE SkipTick
    BY <2>6 DEF SkipTick, Goto
  <2>7. CASE IdleTick
    <3>1. sdstat' \in Samples
      BY <2>7, SampleTypes DEF IdleTick
    <3>2. fps' \in Frames
      BY <2>7, FramesTypes DEF IdleTick
    <3> QED
      BY <2>7, <3>1, <3>2 DEF IdleTick, Goto
  <2>8. CASE SampleSpace
    <3>1. sdstat' \in Samples
      BY <2>8 DEF SampleSpace, Samples
    <3>2. sdContext' \in Samples
      BY <2>8 DEF SampleSpace, Samples
    <3> QED
      BY <2>8, <3>1, <3>2 DEF SampleSpace, Goto
  <2>9. CASE CheckDisk
    <3>1. card' \in Cards
      BY <2>9 DEF CheckDisk, Cards
    <3>2. nbFileIndex' \in 0 .. MaxIndex + 1
      BY <2>9, NextIndexAbove DEF CheckDisk
    <3> QED
      BY <2>9, <3>1, <3>2 DEF CheckDisk, Goto
  <2>10. CASE IdleRun
    BY <2>10, FramesTypes DEF IdleRun, Run, Goto, Call
  <2>11. CASE PackNothing
    BY <2>11 DEF PackNothing, Goto
  <2>12. CASE PackUnopened
    BY <2>12 DEF PackUnopened, Crash
  <2>13. CASE PackNext
    <3>1. card' \in Cards
      BY <2>13, CardTypes DEF PackNext, CanOpen
    <3>2. fps' \in Frames
      BY <2>13, FramesTypes DEF PackNext
    <3> QED
      BY <2>13, <3>1, <3>2 DEF PackNext, Goto, CanOpen
  <2>14. CASE PackFails
    <3>1. card' \in Cards
      BY <2>14, CardTypes DEF PackFails
    <3>2. fps' \in Frames
      BY <2>14, FramesTypes DEF PackFails
    <3> QED
      BY <2>14, <3>1, <3>2 DEF PackFails, Goto
  <2>15. CASE OpenFile
    <3>1. card' \in Cards
      BY <2>15, OpenFileTypes
    <3>2. fps' \in Frames
      BY <2>15, FramesTypes DEF OpenFile
    <3> QED
      BY <2>15, <3>1, <3>2 DEF OpenFile, Goto, StartFails, CanOpen
  <2>16. CASE OpenFileFails
    BY <2>16 DEF OpenFileFails, Goto
  <2>17. CASE StartVideo
    BY <2>17 DEF StartVideo, Goto, StartFails
  <2>18. CASE StartAudio
    BY <2>18 DEF StartAudio, Goto, StartFails
  <2>19. CASE Started
    <3>1. card' \in Cards
      BY <2>19 DEF Started, Cards
    <3> QED
      BY <2>19, <3>1 DEF Started, Return
  <2>20. CASE StopAudio
    BY <2>20 DEF StopAudio, Goto
  <2>21. CASE StopVideo
    BY <2>21 DEF StopVideo, Goto
  <2>22. CASE Close
    BY <2>22 DEF Close, Goto
  <2>23. CASE Report
    BY <2>23 DEF Report, Return, stopStatus
  <2>24. CASE VideoFrame
    BY <2>24, FramesTypes DEF VideoFrame, Crash
  <2>25. CASE AudioFrame
    BY <2>25 DEF AudioFrame, Crash
  <2>26. CASE EncoderDies
    BY <2>26 DEF EncoderDies
  <2>27. CASE DiskThread
    <3>1. sdContext' \in Samples
      BY <2>27 DEF DiskThread, Samples, LowSpace, Cards
    <3> QED
      BY <2>27, <3>1 DEF DiskThread
  <2>28. CASE Restart
    <3>1. isExit' \in BOOLEAN /\ enableAudio' \in BOOLEAN
      BY <2>28 DEF Restart
    <3>2. nbFileIndex' \in 0 .. MaxIndex + 1 /\ ff' = NoFile
      BY <2>28 DEF Restart
    <3>3. queue' \in Seq(Commands)
      BY <2>28, HeadTailProperties DEF Restart
    <3>4. fps' \in Frames /\ sdContext' \in Samples /\ sdstat' \in Samples
      BY <2>28, FramesTypes, SampleTypes DEF Restart
    <3> QED
      BY <2>28, <3>1, <3>2, <3>3, <3>4 DEF Restart
  <2>29. CASE Unplug
    <3>1. card' \in Cards
      BY <2>29, CardTypes DEF Unplug
    <3> QED
      BY <2>29, <3>1 DEF Unplug
  <2>30. CASE Insert
    BY <2>30 DEF Insert, Cards
  <2>31. CASE FillOrFree
    <3>1. card' \in Cards
      BY <2>31 DEF FillOrFree, Cards
    <3> QED
      BY <2>31, <3>1 DEF FillOrFree
  <2>32. CASE \E cmd \in Commands : Send(cmd)
    BY <2>32, AppendProperties DEF Send
  <2>33. CASE UNCHANGED vars
    BY <2>33 DEF vars
  <2> QED
    BY <2>1, <2>2, <2>3, <2>4, <2>5, <2>6, <2>7, <2>8, <2>9, <2>10, <2>11, <2>12,
       <2>13, <2>14, <2>15, <2>16, <2>17, <2>18, <2>19, <2>20, <2>21, <2>22, <2>23,
       <2>24, <2>25, <2>26, <2>27, <2>28, <2>29, <2>30, <2>31, <2>32, <2>33
    DEF Next, Main, Encoders, Environment
<1> QED
  BY <1>1, <1>2, PTL DEF Spec

THEOREM TypeCorrect == Spec => []TypeOK
<1>1. TypeInv => TypeOK
  BY DEF TypeInv
<1> QED
  BY <1>1, TypeInvariant, PTL

-----------------------------------------------------------------------------
(* The container is in place whenever somebody uses it.  record_stop and   *)
(* record_start pass through states where an encoder runs without its      *)
(* session, so the invariant says who may still run at each place of them. *)
ContainerInv ==
  /\ process # "crashed"
  /\ ff = NoFile => vv # "on" /\ aa = "off"
  /\ aa = "on" => enableAudio /\ vv # "off"
  /\ stateGoing = "Run" => ff # NoFile
  /\ pc = "open" => ff = NoFile
  /\ pc \in {"video", "audio", "started"} => ff # NoFile
  /\ pc = "audio" => enableAudio /\ vv # "off"
  /\ pc = "stopVideo" => aa = "off"
  /\ pc = "close" => vv = "off" /\ aa = "off"
  /\ pc = "report" => stateGoing # "Run"

LEMMA ContainerInvariant ==
  ASSUME "split" \notin Faults
  PROVE  Spec => []ContainerInv
<1>1. Init => ContainerInv
  BY DEF Init, ContainerInv, NoFile
<1>2. TypeInv /\ ContainerInv /\ [Next]_vars => ContainerInv'
  <2> SUFFICES ASSUME TypeInv, ContainerInv, [Next]_vars
               PROVE  ContainerInv'
    OBVIOUS
  <2> USE DEF ContainerInv, TypeInv, TypeOK, At, ctrl, media, disk, NoFile, Index
  <2>1. CASE ReceiveStart
    BY <2>1 DEF ReceiveStart, Receive, Run, Goto, Call
  <2>2. CASE ReceiveStop
    BY <2>2 DEF ReceiveStop, Receive, Run, Goto, Call
  <2>3. CASE ReceiveQuit
    BY <2>3 DEF ReceiveQuit, Receive, Goto
  <2>4. CASE ReceiveNothing
    BY <2>4 DEF ReceiveNothing, Goto
  <2>5. CASE Leave
    BY <2>5 DEF Leave, Call
  <2>6. CASE SkipTick
    BY <2>6 DEF SkipTick, Goto
  <2>7. CASE IdleTick
    BY <2>7 DEF IdleTick, Goto
  <2>8. CASE SampleSpace
    BY <2>8 DEF SampleSpace, Goto
  <2>9. CASE CheckDisk
    BY <2>9 DEF CheckDisk, Goto
  <2>10. CASE IdleRun
    BY <2>10 DEF IdleRun, Run, Goto, Call
  <2>11. CASE PackNothing
    BY <2>11 DEF PackNothing, Goto
  <2>12. CASE PackUnopened
    BY <2>12 DEF PackUnopened, packDue, Crash
  <2>13. CASE PackNext
    BY <2>13, RecorderAssumption DEF PackNext, Goto, CanOpen
  <2>14. CASE PackFails
    BY <2>14 DEF PackFails, Goto
  <2>15. CASE OpenFile
    BY <2>15, RecorderAssumption DEF OpenFile, Goto, StartFails, CanOpen
  <2>16. CASE OpenFileFails
    BY <2>16 DEF OpenFileFails, Goto
  <2>17. CASE StartVideo
    BY <2>17 DEF StartVideo, Goto, StartFails
  <2>18. CASE StartAudio
    BY <2>18 DEF StartAudio, Goto, StartFails
  <2>19. CASE Started
    BY <2>19 DEF Started, Return
  <2>20. CASE StopAudio
    BY <2>20 DEF StopAudio, Goto
  <2>21. CASE StopVideo
    BY <2>21 DEF StopVideo, Goto
  <2>22. CASE Close
    BY <2>22 DEF Close, Goto
  <2>23. CASE Report
    BY <2>23 DEF Report, Return
  <2>24. CASE VideoFrame
    BY <2>24 DEF VideoFrame, Crash
  <2>25. CASE AudioFrame
    BY <2>25 DEF AudioFrame, Crash
  <2>26. CASE EncoderDies
    BY <2>26 DEF EncoderDies
  <2>27. CASE DiskThread
    BY <2>27 DEF DiskThread
  <2>28. CASE Restart
    BY <2>28 DEF Restart
  <2>29. CASE Unplug
    BY <2>29 DEF Unplug
  <2>30. CASE Insert
    BY <2>30 DEF Insert
  <2>31. CASE FillOrFree
    BY <2>31 DEF FillOrFree
  <2>32. CASE \E cmd \in Commands : Send(cmd)
    BY <2>32 DEF Send
  <2>33. CASE UNCHANGED vars
    BY <2>33 DEF vars
  <2> QED
    BY <2>1, <2>2, <2>3, <2>4, <2>5, <2>6, <2>7, <2>8, <2>9, <2>10, <2>11, <2>12,
       <2>13, <2>14, <2>15, <2>16, <2>17, <2>18, <2>19, <2>20, <2>21, <2>22, <2>23,
       <2>24, <2>25, <2>26, <2>27, <2>28, <2>29, <2>30, <2>31, <2>32, <2>33
    DEF Next, Main, Encoders, Environment
<1> QED
  BY <1>1, <1>2, TypeInvariant, PTL DEF Spec

(* No encoder thread and no split ever works on a container that is gone,  *)
(* whatever fails, unless the split itself does: the recorder never dies.  *)
THEOREM ContainerSafe ==
  ASSUME "split" \notin Faults
  PROVE  Spec => []ContainerInPlace
<1>1. ContainerInv => ContainerInPlace
  BY DEF ContainerInv, ContainerInPlace
<1> QED
  BY <1>1, ContainerInvariant, PTL

-----------------------------------------------------------------------------
(* What record.dat says of a session is true, but for the moment in which  *)
(* record_stop has closed the container and not yet reported.              *)
StatusInv ==
  status = "Run" => stateGoing = "Run" \/ pc = "report"

LEMMA StatusInvariant ==
  ASSUME "split" \notin Faults
  PROVE  Spec => []StatusInv
<1>1. Init => StatusInv
  BY DEF Init, StatusInv
<1>2. TypeInv /\ ContainerInv /\ StatusInv /\ [Next]_vars => StatusInv'
  <2> SUFFICES ASSUME TypeInv /\ ContainerInv, StatusInv, [Next]_vars
               PROVE  StatusInv'
    OBVIOUS
  <2> USE DEF StatusInv, ContainerInv, TypeInv, TypeOK, At, ctrl, media, disk
  <2>1. CASE ReceiveStart
    BY <2>1 DEF ReceiveStart, Receive, Run, Goto, Call
  <2>2. CASE ReceiveStop
    BY <2>2 DEF ReceiveStop, Receive, Run, Goto, Call
  <2>3. CASE ReceiveQuit
    BY <2>3 DEF ReceiveQuit, Receive, Goto
  <2>4. CASE ReceiveNothing
    BY <2>4 DEF ReceiveNothing, Goto
  <2>5. CASE Leave
    BY <2>5 DEF Leave, Call
  <2>6. CASE SkipTick
    BY <2>6 DEF SkipTick, Goto
  <2>7. CASE IdleTick
    BY <2>7 DEF IdleTick, Goto
  <2>8. CASE SampleSpace
    BY <2>8 DEF SampleSpace, Goto
  <2>9. CASE CheckDisk
    BY <2>9 DEF CheckDisk, Goto
  <2>10. CASE IdleRun
    BY <2>10 DEF IdleRun, Run, Goto, Call
  <2>11. CASE PackNothing
    BY <2>11 DEF PackNothing, Goto
  <2>12. CASE PackUnopened
    BY <2>12 DEF PackUnopened, packDue, Crash
  <2>13. CASE PackNext
    BY <2>13 DEF PackNext, Goto
  <2>14. CASE PackFails
    BY <2>14 DEF PackFails, Goto
  <2>15. CASE OpenFile
    BY <2>15 DEF OpenFile, Goto, StartFails
  <2>16. CASE OpenFileFails
    BY <2>16 DEF OpenFileFails, Goto
  <2>17. CASE StartVideo
    BY <2>17 DEF StartVideo, Goto, StartFails
  <2>18. CASE StartAudio
    BY <2>18 DEF StartAudio, Goto, StartFails
  <2>19. CASE Started
    BY <2>19 DEF Started, Return
  <2>20. CASE StopAudio
    BY <2>20 DEF StopAudio, Goto
  <2>21. CASE StopVideo
    BY <2>21 DEF StopVideo, Goto
  <2>22. CASE Close
    BY <2>22 DEF Close, Goto
  <2>23. CASE Report
    BY <2>23 DEF Report, Return, stopStatus
  <2>24. CASE VideoFrame
    BY <2>24 DEF VideoFrame, Crash
  <2>25. CASE AudioFrame
    BY <2>25 DEF AudioFrame, Crash
  <2>26. CASE EncoderDies
    BY <2>26 DEF EncoderDies
  <2>27. CASE DiskThread
    BY <2>27 DEF DiskThread
  <2>28. CASE Restart
    BY <2>28 DEF Restart
  <2>29. CASE Unplug
    BY <2>29 DEF Unplug
  <2>30. CASE Insert
    BY <2>30 DEF Insert
  <2>31. CASE FillOrFree
    BY <2>31 DEF FillOrFree
  <2>32. CASE \E cmd \in Commands : Send(cmd)
    BY <2>32 DEF Send
  <2>33. CASE UNCHANGED vars
    BY <2>33 DEF vars
  <2> QED
    BY <2>1, <2>2, <2>3, <2>4, <2>5, <2>6, <2>7, <2>8, <2>9, <2>10, <2>11, <2>12,
       <2>13, <2>14, <2>15, <2>16, <2>17, <2>18, <2>19, <2>20, <2>21, <2>22, <2>23,
       <2>24, <2>25, <2>26, <2>27, <2>28, <2>29, <2>30, <2>31, <2>32, <2>33
    DEF Next, Main, Encoders, Environment
<1> QED
  BY <1>1, <1>2, TypeInvariant, ContainerInvariant, PTL DEF Spec

(* Between two turns of the main loop, "recording" in record.dat means a   *)
(* session with a container.                                               *)
THEOREM StatusTrue ==
  ASSUME "split" \notin Faults
  PROVE  Spec => []StatusIsTrue
<1>1. ContainerInv /\ StatusInv => StatusIsTrue
  BY DEF ContainerInv, StatusInv, StatusIsTrue, At
<1> QED
  BY <1>1, ContainerInvariant, StatusInvariant, PTL

-----------------------------------------------------------------------------
(* No recording is overwritten.  A file is opened only on a card that the  *)
(* main thread has seen mounted and not full; such a card has been counted *)
(* since it came; and the index moves past every file the session makes.   *)
Starting == At("open") \/ At("video") \/ At("audio") \/ At("started")

UsableInv ==
  /\ Starting => ~shouldStop /\ stateGo = "Run"
  /\ stateGo = "Idle" => stateGoing # "Run"
  /\ At("pack") /\ stateGoing = "Run" => ~shouldStop
  /\ At("report") => stateGoing # "Run"

LEMMA UsableInvariant == Spec => []UsableInv
<1>1. Init => UsableInv
  BY DEF Init, UsableInv, Starting, At
<1>2. TypeInv /\ UsableInv /\ [Next]_vars => UsableInv'
  <2> SUFFICES ASSUME TypeInv, UsableInv, [Next]_vars
               PROVE  UsableInv'
    OBVIOUS
  <2> USE DEF UsableInv, Starting, shouldStop, TypeInv, TypeOK, At, ctrl, media, disk
  <2>1. CASE ReceiveStart
    BY <2>1 DEF ReceiveStart, Receive, Run, Goto, Call
  <2>2. CASE ReceiveStop
    BY <2>2 DEF ReceiveStop, Receive, Run, Goto, Call
  <2>3. CASE ReceiveQuit
    BY <2>3 DEF ReceiveQuit, Receive, Goto
  <2>4. CASE ReceiveNothing
    BY <2>4 DEF ReceiveNothing, Goto
  <2>5. CASE Leave
    BY <2>5 DEF Leave, Call
  <2>6. CASE SkipTick
    BY <2>6 DEF SkipTick, Goto
  <2>7. CASE IdleTick
    BY <2>7 DEF IdleTick, Goto
  <2>8. CASE SampleSpace
    BY <2>8 DEF SampleSpace, Goto
  <2>9. CASE CheckDisk
    BY <2>9 DEF CheckDisk, Goto
  <2>10. CASE IdleRun
    BY <2>10 DEF IdleRun, Run, Goto, Call
  <2>11. CASE PackNothing
    BY <2>11 DEF PackNothing, Goto
  <2>12. CASE PackUnopened
    BY <2>12 DEF PackUnopened, packDue, Crash
  <2>13. CASE PackNext
    BY <2>13 DEF PackNext, Goto
  <2>14. CASE PackFails
    BY <2>14 DEF PackFails, Goto
  <2>15. CASE OpenFile
    BY <2>15 DEF OpenFile, Goto, StartFails
  <2>16. CASE OpenFileFails
    BY <2>16 DEF OpenFileFails, Goto
  <2>17. CASE StartVideo
    BY <2>17 DEF StartVideo, Goto, StartFails
  <2>18. CASE StartAudio
    BY <2>18 DEF StartAudio, Goto, StartFails
  <2>19. CASE Started
    BY <2>19 DEF Started, Return
  <2>20. CASE StopAudio
    BY <2>20 DEF StopAudio, Goto
  <2>21. CASE StopVideo
    BY <2>21 DEF StopVideo, Goto
  <2>22. CASE Close
    BY <2>22 DEF Close, Goto
  <2>23. CASE Report
    BY <2>23 DEF Report, Return
  <2>24. CASE VideoFrame
    BY <2>24 DEF VideoFrame, Crash
  <2>25. CASE AudioFrame
    BY <2>25 DEF AudioFrame, Crash
  <2>26. CASE EncoderDies
    BY <2>26 DEF EncoderDies
  <2>27. CASE DiskThread
    BY <2>27 DEF DiskThread
  <2>28. CASE Restart
    BY <2>28 DEF Restart
  <2>29. CASE Unplug
    BY <2>29 DEF Unplug
  <2>30. CASE Insert
    BY <2>30 DEF Insert
  <2>31. CASE FillOrFree
    BY <2>31 DEF FillOrFree
  <2>32. CASE \E cmd \in Commands : Send(cmd)
    BY <2>32 DEF Send
  <2>33. CASE UNCHANGED vars
    BY <2>33 DEF vars
  <2> QED
    BY <2>1, <2>2, <2>3, <2>4, <2>5, <2>6, <2>7, <2>8, <2>9, <2>10, <2>11, <2>12,
       <2>13, <2>14, <2>15, <2>16, <2>17, <2>18, <2>19, <2>20, <2>21, <2>22, <2>23,
       <2>24, <2>25, <2>26, <2>27, <2>28, <2>29, <2>30, <2>31, <2>32, <2>33
    DEF Next, Main, Encoders, Environment
<1> QED
  BY <1>1, <1>2, TypeInvariant, PTL DEF Spec

(* A mount state the main thread has not copied yet keeps the flag up.     *)
WatchInv ==
  process = "up" =>
    /\ pc # "sample" /\ sdContext.mounted # sdstat.mounted => sdContext.updated
    /\ pc = "sample" => /\ sdContext.mounted = sdstat.mounted
                        /\ sdContext.updated => sdstat.updated

LEMMA WatchInvariant ==
  ASSUME "tornSample" \notin Faults
  PROVE  Spec => []WatchInv
<1>1. Init => WatchInv
  BY DEF Init, WatchInv, NoSample, ZeroSample
<1>2. TypeInv /\ WatchInv /\ [Next]_vars => WatchInv'
  <2> SUFFICES ASSUME TypeInv, WatchInv, [Next]_vars
               PROVE  WatchInv'
    OBVIOUS
  <2> USE DEF WatchInv, TypeInv, TypeOK, At, ctrl, media, disk
  <2>1. CASE ReceiveStart
    BY <2>1 DEF ReceiveStart, Receive, Run, Goto, Call
  <2>2. CASE ReceiveStop
    BY <2>2 DEF ReceiveStop, Receive, Run, Goto, Call
  <2>3. CASE ReceiveQuit
    BY <2>3 DEF ReceiveQuit, Receive, Goto
  <2>4. CASE ReceiveNothing
    BY <2>4 DEF ReceiveNothing, Goto
  <2>5. CASE Leave
    BY <2>5 DEF Leave, Call
  <2>6. CASE SkipTick
    BY <2>6 DEF SkipTick, Goto
  <2>7. CASE IdleTick
    BY <2>7 DEF IdleTick, Goto, Samples
  <2>8. CASE SampleSpace
    BY <2>8 DEF SampleSpace, Goto, Samples
  <2>9. CASE CheckDisk
    BY <2>9 DEF CheckDisk, Goto
  <2>10. CASE IdleRun
    BY <2>10 DEF IdleRun, Run, Goto, Call
  <2>11. CASE PackNothing
    BY <2>11 DEF PackNothing, Goto
  <2>12. CASE PackUnopened
    BY <2>12 DEF PackUnopened, packDue, Crash
  <2>13. CASE PackNext
    BY <2>13 DEF PackNext, Goto
  <2>14. CASE PackFails
    BY <2>14 DEF PackFails, Goto
  <2>15. CASE OpenFile
    BY <2>15 DEF OpenFile, Goto, StartFails
  <2>16. CASE OpenFileFails
    BY <2>16 DEF OpenFileFails, Goto
  <2>17. CASE StartVideo
    BY <2>17 DEF StartVideo, Goto, StartFails
  <2>18. CASE StartAudio
    BY <2>18 DEF StartAudio, Goto, StartFails
  <2>19. CASE Started
    BY <2>19 DEF Started, Return
  <2>20. CASE StopAudio
    BY <2>20 DEF StopAudio, Goto
  <2>21. CASE StopVideo
    BY <2>21 DEF StopVideo, Goto
  <2>22. CASE Close
    BY <2>22 DEF Close, Goto
  <2>23. CASE Report
    BY <2>23 DEF Report, Return
  <2>24. CASE VideoFrame
    BY <2>24 DEF VideoFrame, Crash
  <2>25. CASE AudioFrame
    BY <2>25 DEF AudioFrame, Crash
  <2>26. CASE EncoderDies
    BY <2>26 DEF EncoderDies
  <2>27. CASE DiskThread
    BY <2>27 DEF DiskThread, Samples, Cards
  <2>28. CASE Restart
    BY <2>28 DEF Restart, NoSample, ZeroSample
  <2>29. CASE Unplug
    BY <2>29 DEF Unplug
  <2>30. CASE Insert
    BY <2>30 DEF Insert
  <2>31. CASE FillOrFree
    BY <2>31 DEF FillOrFree
  <2>32. CASE \E cmd \in Commands : Send(cmd)
    BY <2>32 DEF Send
  <2>33. CASE UNCHANGED vars
    BY <2>33 DEF vars
  <2> QED
    BY <2>1, <2>2, <2>3, <2>4, <2>5, <2>6, <2>7, <2>8, <2>9, <2>10, <2>11, <2>12,
       <2>13, <2>14, <2>15, <2>16, <2>17, <2>18, <2>19, <2>20, <2>21, <2>22, <2>23,
       <2>24, <2>25, <2>26, <2>27, <2>28, <2>29, <2>30, <2>31, <2>32, <2>33
    DEF Next, Main, Encoders, Environment
<1> QED
  BY <1>1, <1>2, TypeInvariant, PTL DEF Spec

(* Footage is in files of the record directory of a present card.          *)
CardInv ==
  /\ card.kept \subseteq card.files
  /\ ~card.present => card.kept = {}
  /\ ~card.dir => card.kept = {}
  /\ (At("video") \/ At("audio") \/ At("started")) /\ card.present
       => card.dir /\ ff \in card.files

LEMMA CardInvariant == Spec => []CardInv
<1>1. Init => CardInv
  BY DEF Init, CardInv, NoCard, At
<1>2. TypeInv /\ UsableInv /\ CardInv /\ [Next]_vars => CardInv'
  <2> SUFFICES ASSUME TypeInv /\ UsableInv, CardInv, [Next]_vars
               PROVE  CardInv'
    OBVIOUS
  <2> USE DEF CardInv, TypeInv, Opening, TypeOK, At, ctrl, media, disk
  <2>1. CASE ReceiveStart
    BY <2>1 DEF ReceiveStart, Receive, Run, Goto, Call
  <2>2. CASE ReceiveStop
    BY <2>2 DEF ReceiveStop, Receive, Run, Goto, Call
  <2>3. CASE ReceiveQuit
    BY <2>3 DEF ReceiveQuit, Receive, Goto
  <2>4. CASE ReceiveNothing
    BY <2>4 DEF ReceiveNothing, Goto
  <2>5. CASE Leave
    BY <2>5 DEF Leave, Call
  <2>6. CASE SkipTick
    BY <2>6 DEF SkipTick, Goto
  <2>7. CASE IdleTick
    BY <2>7 DEF IdleTick, Goto
  <2>8. CASE SampleSpace
    BY <2>8 DEF SampleSpace, Goto
  <2>9. CASE CheckDisk
    BY <2>9 DEF CheckDisk, Goto, Cards, checkPath
  <2>10. CASE IdleRun
    BY <2>10 DEF IdleRun, Run, Goto, Call
  <2>11. CASE PackNothing
    BY <2>11 DEF PackNothing, Goto
  <2>12. CASE PackUnopened
    BY <2>12 DEF PackUnopened, packDue, Crash
  <2>13. CASE PackNext
    BY <2>13 DEF PackNext, Goto, CanOpen, Opened, Cards
  <2>14. CASE PackFails
    BY <2>14 DEF PackFails, Goto, Cards
  <2>15. CASE OpenFile
    BY <2>15 DEF OpenFile, Goto, StartFails, CanOpen, Opened, Cards
  <2>16. CASE OpenFileFails
    BY <2>16 DEF OpenFileFails, Goto
  <2>17. CASE StartVideo
    BY <2>17 DEF StartVideo, Goto, StartFails
  <2>18. CASE StartAudio
    BY <2>18 DEF StartAudio, Goto, StartFails
  <2>19. CASE Started
    BY <2>19 DEF Started, Return, Cards
  <2>20. CASE StopAudio
    BY <2>20 DEF StopAudio, Goto
  <2>21. CASE StopVideo
    BY <2>21 DEF StopVideo, Goto
  <2>22. CASE Close
    BY <2>22 DEF Close, Goto
  <2>23. CASE Report
    BY <2>23 DEF Report, Return
  <2>24. CASE VideoFrame
    BY <2>24 DEF VideoFrame, Crash
  <2>25. CASE AudioFrame
    BY <2>25 DEF AudioFrame, Crash
  <2>26. CASE EncoderDies
    BY <2>26 DEF EncoderDies
  <2>27. CASE DiskThread
    BY <2>27 DEF DiskThread
  <2>28. CASE Restart
    BY <2>28 DEF Restart
  <2>29. CASE Unplug
    BY <2>29 DEF Unplug, NoCard
  <2>30. CASE Insert
    BY <2>30 DEF Insert, Cards, UsableInv, Starting, shouldStop
  <2>31. CASE FillOrFree
    BY <2>31 DEF FillOrFree, Cards
  <2>32. CASE \E cmd \in Commands : Send(cmd)
    BY <2>32 DEF Send
  <2>33. CASE UNCHANGED vars
    BY <2>33 DEF vars
  <2> QED
    BY <2>1, <2>2, <2>3, <2>4, <2>5, <2>6, <2>7, <2>8, <2>9, <2>10, <2>11, <2>12,
       <2>13, <2>14, <2>15, <2>16, <2>17, <2>18, <2>19, <2>20, <2>21, <2>22, <2>23,
       <2>24, <2>25, <2>26, <2>27, <2>28, <2>29, <2>30, <2>31, <2>32, <2>33
    DEF Next, Main, Encoders, Environment
<1> QED
  BY <1>1, <1>2, TypeInvariant, UsableInvariant, PTL DEF Spec

(* A card that is seen mounted and not full has been counted: its footage  *)
(* lies below the next index.                                              *)
CountInv ==
  process = "up" /\ ~shouldStop /\ (pc \in {"sample", "check"} => ~sdstat.updated)
    => \A i \in card.kept : i < nbFileIndex

LEMMA CountInvariant ==
  ASSUME "tornSample" \notin Faults
  PROVE  Spec => []CountInv
<1>1. Init => CountInv
  BY DEF Init, CountInv, NoCard, ZeroSample, shouldStop
<1>2. TypeInv /\ UsableInv /\ WatchInv /\ CardInv /\ CountInv /\ [Next]_vars => CountInv'
  <2> SUFFICES ASSUME TypeInv /\ UsableInv /\ WatchInv /\ CardInv, CountInv, [Next]_vars
               PROVE  CountInv'
    OBVIOUS
  <2> USE DEF CountInv, shouldStop, TypeInv, Opening, TypeOK, At, ctrl, media, disk
  <2>1. CASE ReceiveStart
    BY <2>1 DEF ReceiveStart, Receive, Run, Goto, Call
  <2>2. CASE ReceiveStop
    BY <2>2 DEF ReceiveStop, Receive, Run, Goto, Call
  <2>3. CASE ReceiveQuit
    BY <2>3 DEF ReceiveQuit, Receive, Goto
  <2>4. CASE ReceiveNothing
    BY <2>4 DEF ReceiveNothing, Goto
  <2>5. CASE Leave
    BY <2>5 DEF Leave, Call
  <2>6. CASE SkipTick
    BY <2>6 DEF SkipTick, Goto
  <2>7. CASE IdleTick
    BY <2>7 DEF IdleTick, Goto, WatchInv, Samples
  <2>8. CASE SampleSpace
    BY <2>8 DEF SampleSpace, Goto, WatchInv, Samples
  <2>9. CASE CheckDisk
    BY <2>9, NextIndexAbove DEF CheckDisk, Goto, Cards, checkPath, CardInv
  <2>10. CASE IdleRun
    BY <2>10 DEF IdleRun, Run, Goto, Call
  <2>11. CASE PackNothing
    BY <2>11 DEF PackNothing, Goto
  <2>12. CASE PackUnopened
    BY <2>12 DEF PackUnopened, packDue, Crash
  <2>13. CASE PackNext
    <3>1. card'.kept \subseteq card.kept \cup {nbFileIndex}
      BY <2>13 DEF PackNext, CanOpen, Opened, Cards
    <3>2. nbFileIndex' = nbFileIndex + 1 /\ pc # "sample" /\ pc # "check" /\ nbFileIndex \in Nat
      BY <2>13 DEF PackNext, CanOpen, Index
    <3>3. UNCHANGED <<process, sdstat>>
      BY <2>13 DEF PackNext
    <3>4. \A i \in card.kept : i \in Nat
      BY RecorderAssumption DEF Cards, Index
    <3> QED
      BY <3>1, <3>2, <3>3, <3>4
  <2>14. CASE PackFails
    BY <2>14 DEF PackFails, Goto, Cards
  <2>15. CASE OpenFile
    BY <2>15 DEF OpenFile, Goto, StartFails, CanOpen, Opened, Cards
  <2>16. CASE OpenFileFails
    BY <2>16 DEF OpenFileFails, Goto
  <2>17. CASE StartVideo
    BY <2>17 DEF StartVideo, Goto, StartFails
  <2>18. CASE StartAudio
    BY <2>18 DEF StartAudio, Goto, StartFails
  <2>19. CASE Started
    <3>1. card'.kept \subseteq card.kept \cup {nbFileIndex}
      BY <2>19 DEF Started, Cards
    <3>2. nbFileIndex' = nbFileIndex + 1 /\ pc # "sample" /\ pc # "check" /\ nbFileIndex \in Nat
      BY <2>19 DEF Started, Index
    <3>3. UNCHANGED <<process, sdstat>>
      BY <2>19 DEF Started
    <3>4. \A i \in card.kept : i \in Nat
      BY RecorderAssumption DEF Cards, Index
    <3> QED
      BY <3>1, <3>2, <3>3, <3>4
  <2>20. CASE StopAudio
    BY <2>20 DEF StopAudio, Goto
  <2>21. CASE StopVideo
    BY <2>21 DEF StopVideo, Goto
  <2>22. CASE Close
    BY <2>22 DEF Close, Goto
  <2>23. CASE Report
    BY <2>23 DEF Report, Return
  <2>24. CASE VideoFrame
    BY <2>24 DEF VideoFrame, Crash
  <2>25. CASE AudioFrame
    BY <2>25 DEF AudioFrame, Crash
  <2>26. CASE EncoderDies
    BY <2>26 DEF EncoderDies
  <2>27. CASE DiskThread
    BY <2>27 DEF DiskThread
  <2>28. CASE Restart
    BY <2>28 DEF Restart, ZeroSample
  <2>29. CASE Unplug
    BY <2>29 DEF Unplug, NoCard
  <2>30. CASE Insert
    BY <2>30 DEF Insert, Cards
  <2>31. CASE FillOrFree
    BY <2>31 DEF FillOrFree, Cards
  <2>32. CASE \E cmd \in Commands : Send(cmd)
    BY <2>32 DEF Send
  <2>33. CASE UNCHANGED vars
    BY <2>33 DEF vars
  <2> QED
    BY <2>1, <2>2, <2>3, <2>4, <2>5, <2>6, <2>7, <2>8, <2>9, <2>10, <2>11, <2>12,
       <2>13, <2>14, <2>15, <2>16, <2>17, <2>18, <2>19, <2>20, <2>21, <2>22, <2>23,
       <2>24, <2>25, <2>26, <2>27, <2>28, <2>29, <2>30, <2>31, <2>32, <2>33
    DEF Next, Main, Encoders, Environment
<1> QED
  BY <1>1, <1>2, TypeInvariant, UsableInvariant, WatchInvariant, CardInvariant, PTL DEF Spec

(* Every file the recorder opens, at the start of a session or by a split, *)
(* leaves the footage on the card alone, provided the disk thread does not *)
(* come in between the two halves of disk_sdstat.                          *)
THEOREM NothingOverwritten ==
  ASSUME "tornSample" \notin Faults
  PROVE  Spec => NoOverwrite
<1> DEFINE P == ff' \notin {ff, NoFile} => ff' \notin card.kept
<1>1. TypeInv /\ UsableInv /\ CountInv /\ [Next]_vars => [P]_vars
  <2> SUFFICES ASSUME TypeInv, UsableInv, CountInv, Next
               PROVE  P
    OBVIOUS
  <2>1. \A i \in card.kept : i \in Nat
    BY RecorderAssumption DEF TypeInv, TypeOK, Cards, Index
  <2>2. CASE OpenFile
    BY <2>1, <2>2 DEF OpenFile, CountInv, UsableInv, Starting, At, CanOpen, Index
  <2>3. CASE PackNext
    BY <2>1, <2>3 DEF PackNext, packDue, CountInv, UsableInv, At, CanOpen, Index
  <2>4. CASE ~OpenFile /\ ~PackNext
    <3>1. ff' = ff \/ ff' = NoFile
      BY <2>4 DEF ReceiveStart, ReceiveStop, ReceiveQuit, ReceiveNothing,
         Leave, SkipTick, IdleTick, SampleSpace, CheckDisk, IdleRun,
         PackNothing, PackUnopened, PackFails, OpenFileFails, StartVideo,
         StartAudio, Started, StopAudio, StopVideo, Close, Report, VideoFrame,
         AudioFrame, EncoderDies, DiskThread, Restart, Unplug, Insert,
         FillOrFree, Send, Crash, Receive, Next, Main, Encoders, Environment,
         ctrl, media, disk
    <3> QED
      BY <3>1
  <2> QED
    BY <2>2, <2>3, <2>4
<1> QED
  BY <1>1, TypeInvariant, UsableInvariant, CountInvariant, PTL DEF Spec, NoOverwrite

(* A split that fails removes the file it was about to write, which holds  *)
(* no footage; nothing else the recorder does takes footage off the card.  *)
THEOREM FootageSafe ==
  ASSUME "tornSample" \notin Faults
  PROVE  Spec => FootageKept
<1> DEFINE P == card'.present /\ card.present => card.kept \subseteq card'.kept
<1>1. TypeInv /\ UsableInv /\ CountInv /\ [Next]_vars => [P]_vars
  <2> SUFFICES ASSUME TypeInv, UsableInv, CountInv, Next
               PROVE  P
    OBVIOUS
  <2>1. \A i \in card.kept : i \in Nat
    BY RecorderAssumption DEF TypeInv, TypeOK, Cards, Index
  <2>2. nbFileIndex \in Nat
    BY RecorderAssumption DEF TypeInv, TypeOK
  <2>3. CASE OpenFile
    <3>1. nbFileIndex \notin card.kept
      BY <2>1, <2>2, <2>3 DEF OpenFile, CountInv, UsableInv, Starting, At
    <3> QED
      BY <2>3, <3>1 DEF OpenFile, Opened, TypeInv, TypeOK, Cards
  <2>4. CASE PackNext
    BY <2>4 DEF PackNext, Opened, TypeInv, TypeOK, Cards
  <2>5. CASE PackFails
    <3>1. nbFileIndex \notin card.kept
      BY <2>1, <2>2, <2>5 DEF PackFails, packDue, CountInv, UsableInv, At
    <3> QED
      BY <2>5, <3>1 DEF PackFails, TypeInv, TypeOK, Cards
  <2>6. CASE Started
    BY <2>6 DEF Started, TypeInv, TypeOK, Cards
  <2>7. CASE CheckDisk
    BY <2>7 DEF CheckDisk, TypeInv, TypeOK, Cards
  <2>8. CASE Unplug \/ Insert \/ FillOrFree
    BY <2>8 DEF Unplug, Insert, FillOrFree, NoCard, TypeInv, TypeOK, Cards
  <2>9. CASE ~(OpenFile \/ PackNext \/ PackFails \/ Started \/ CheckDisk
               \/ Unplug \/ Insert \/ FillOrFree)
    <3>1. card' = card
      BY <2>9 DEF ReceiveStart, ReceiveStop, ReceiveQuit, ReceiveNothing,
         Leave, SkipTick, IdleTick, SampleSpace, IdleRun, PackNothing,
         PackUnopened, OpenFileFails, StartVideo, StartAudio, StopAudio,
         StopVideo, Close, Report, VideoFrame, AudioFrame, EncoderDies,
         DiskThread, Restart, Send, Crash, Receive, Next, Main, Encoders,
         Environment, ctrl, media, disk
    <3> QED
      BY <3>1
  <2> QED
    BY <2>3, <2>4, <2>5, <2>6, <2>7, <2>8, <2>9
<1> QED
  BY <1>1, TypeInvariant, UsableInvariant, CountInvariant, PTL DEF Spec, FootageKept

-----------------------------------------------------------------------------
(* The recorder keeps the promise of RecorderService, whatever fails in    *)
(* it: every step is a step of the service, or one its clients cannot see. *)
LEMMA ServiceStep ==
  TypeInv /\ UsableInv /\ [Next]_vars => [Service!Next]_(Service!vars)
<1> SUFFICES ASSUME TypeInv, UsableInv, [Next]_vars
             PROVE  Service!Next \/ UNCHANGED Service!vars
  BY DEF Service!vars
<1> USE DEF phase, wanted, recording, says, At
<1>1. /\ ret = "exit" => pc \in {"stopAudio", "stopVideo", "close", "report"}
      /\ pc = "report" /\ process = "up" => stateGoing # "Run"
      /\ Starting => stateGo = "Run"
      /\ process = "quit" => ret = "exit"
      /\ process \in {"up", "quit", "crashed"} /\ isExit \in BOOLEAN
  BY DEF TypeInv, TypeOK, Leaving, UsableInv
<1>2. CASE ReceiveStart
  <2>1. /\ process = "up" /\ process' = "up" /\ pc = "loop" /\ ~isExit /\ isExit' = isExit
        /\ queue # <<>> /\ Head(queue) = "start" /\ queue' = Tail(queue)
        /\ stateGo' = "Run" /\ stateGoing' = stateGoing
    BY <1>2 DEF ReceiveStart, Receive, Run
  <2>2. ret' \in {ret, "tick"}
    BY <1>2 DEF ReceiveStart, Run, Goto, Call
  <2>3. status' = "Run" => status = "Run" \/ stateGoing = "Run"
    BY <1>2 DEF ReceiveStart, Run
  <2>4. Service!Take
    BY <1>1, <2>1, <2>2, <2>3 DEF Service!Take
  <2> QED
    BY <2>4 DEF Service!Next, Service!Serve
<1>3. CASE ReceiveStop
  <2>1. /\ process = "up" /\ process' = "up" /\ pc = "loop" /\ ~isExit /\ isExit' = isExit
        /\ queue # <<>> /\ Head(queue) = "stop" /\ queue' = Tail(queue)
        /\ stateGo' = "Stop" /\ stateGoing' = stateGoing
    BY <1>3 DEF ReceiveStop, Receive, Run
  <2>2. ret' \in {ret, "tick"}
    BY <1>3 DEF ReceiveStop, Run, Goto, Call
  <2>3. status' = "Run" => status = "Run" \/ stateGoing = "Run"
    BY <1>3 DEF ReceiveStop, Run
  <2>4. Service!Take
    BY <1>1, <2>1, <2>2, <2>3 DEF Service!Take
  <2> QED
    BY <2>4 DEF Service!Next, Service!Serve
<1>4. CASE ReceiveQuit
  <2>1. Service!Take
    BY <1>1, <1>4 DEF ReceiveQuit, Receive, Goto, media, disk, Service!Take
  <2> QED
    BY <2>1 DEF Service!Next, Service!Serve
<1>5. CASE Leave
  <2>1. Service!CloseQueue
    BY <1>1, <1>5 DEF Leave, Call, media, disk, Service!CloseQueue
  <2> QED
    BY <2>1 DEF Service!Next, Service!Serve
<1>6. CASE IdleRun \/ CheckDisk \/ OpenFileFails
  <2>1. UNCHANGED <<process, queue, isExit, stateGo, stateGoing>>
    BY <1>6 DEF IdleRun, CheckDisk, OpenFileFails, Run
  <2>2. process = "up" /\ (ret' = "exit" <=> ret = "exit")
    BY <1>1, <1>6 DEF IdleRun, CheckDisk, OpenFileFails, Run, Goto, Call
  <2>3. status' = "Run" => status = "Run" \/ stateGoing = "Run"
    BY <1>6 DEF IdleRun, CheckDisk, OpenFileFails, Run
  <2>4. Service!Watch \/ UNCHANGED Service!vars
    BY <1>1, <2>1, <2>2, <2>3 DEF Service!Watch, Service!vars, Service!Down
  <2> QED
    BY <2>4 DEF Service!Next, Service!Serve
<1>7. CASE Started
  <2>1. Service!Begin \/ Service!Watch \/ UNCHANGED Service!vars
    BY <1>1, <1>7 DEF Started, Return, Starting, Service!Begin, Service!Watch,
       Service!vars, Service!Down
  <2> QED
    BY <2>1 DEF Service!Next, Service!Serve
<1>8. CASE Close
  <2>1. Service!End \/ UNCHANGED Service!vars
    BY <1>1, <1>8 DEF Close, Goto, Service!End, Service!vars
  <2> QED
    BY <2>1 DEF Service!Next, Service!Serve
<1>9. CASE Report
  <2>1. status' # "Run"
    BY <1>9 DEF Report, stopStatus
  <2>2. Service!Quit \/ Service!Watch \/ UNCHANGED Service!vars
    BY <1>1, <1>9, <2>1 DEF Report, Return, Service!Quit, Service!Watch,
       Service!vars, Service!Down
  <2> QED
    BY <2>2 DEF Service!Next, Service!Serve
<1>10. CASE process = "up" /\ Crash
  <2>1. Service!Crash
    BY <1>10 DEF Crash, Service!Crash, Service!Down
  <2> QED
    BY <2>1 DEF Service!Next
<1>11. CASE Restart
  <2>1. Service!Restart
    BY <1>1, <1>11 DEF Restart, Service!Restart, Service!Down
  <2> QED
    BY <2>1 DEF Service!Next
<1>12. CASE \E cmd \in Commands : Send(cmd)
  <2>1. \E cmd \in Service!Commands : Service!Send(cmd)
    BY <1>1, <1>12 DEF Send, Commands, media, disk, Service!Commands, Service!Send
  <2> QED
    BY <2>1 DEF Service!Next
<1>13. CASE \/ ReceiveNothing \/ SkipTick \/ IdleTick \/ SampleSpace
            \/ PackNothing \/ PackNext \/ PackFails \/ OpenFile
            \/ StartVideo \/ StartAudio \/ StopAudio \/ StopVideo
  BY <1>13 DEF ReceiveNothing, SkipTick, IdleTick, SampleSpace, PackNothing, PackNext,
     PackFails, OpenFile, StartVideo, StartAudio, StopAudio, StopVideo, Goto, StartFails,
     media, disk, Service!vars
<1>14. CASE \/ (VideoFrame /\ ff # NoFile) \/ EncoderDies \/ DiskThread
            \/ Unplug \/ Insert \/ FillOrFree \/ UNCHANGED vars
  BY <1>14 DEF VideoFrame, EncoderDies, DiskThread, Unplug, Insert, FillOrFree,
     vars, ctrl, media, disk, Service!vars
<1>15. CASE PackUnopened \/ AudioFrame \/ (VideoFrame /\ ff = NoFile)
  BY <1>10, <1>15 DEF PackUnopened, AudioFrame, VideoFrame
<1> QED
  BY <1>2, <1>3, <1>4, <1>5, <1>6, <1>7, <1>8, <1>9, <1>11, <1>12, <1>13, <1>14, <1>15
  DEF Next, Main, Encoders, Environment

THEOREM ServiceImplemented == Spec => ServiceKept
<1>1. Init => Service!Init
  BY DEF Init, Service!Init, phase, wanted, recording, says
<1> QED
  BY <1>1, ServiceStep, TypeInvariant, UsableInvariant, PTL
  DEF Spec, ServiceKept, Service!Spec
=============================================================================
