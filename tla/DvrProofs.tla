----------------------------- MODULE DvrProofs -----------------------------
(***************************************************************************)
(* What the app's side of recording guarantees for every length of the     *)
(* queue, in both modes, whatever happens around it.                       *)
(***************************************************************************)
EXTENDS Dvr, SequenceTheorems, TLAPS

(* The steps that a thread takes while it holds dvr_mutex, and the others. *)
Critical == {"conf", "sendStart", "sendStop", "giveUp"}
Plain == Steps \ Critical
Holds(t) == \E c \in Critical : At(t, c)

(* What follows the step a thread is at is plain: a critical step replaces *)
(* the one before it, and no program names one.                            *)
Threading ==
  \A t \in Threads :
    /\ todo[t] # <<>> => Tail(todo[t]) \in Seq(Plain)
    /\ dvrMutex = t <=> Holds(t)

(* Programs without a critical step, and what they do to a thread.         *)
LEMMA PlainSubset == Plain \subseteq Steps /\ Critical \subseteq Steps /\ Plain \cap Critical = {}
BY DEF Plain, Critical, Steps, Cmds

LEMMA PlainSeq ==
  ASSUME NEW s \in Seq(Plain)
  PROVE  /\ s \in Seq(Steps)
         /\ s # <<>> => Head(s) \in Plain /\ Head(s) \notin Critical /\ Tail(s) \in Seq(Plain)
<1>1. s \in Seq(Steps)
  BY PlainSubset, SeqMonotonic
<1>2. s # <<>> => Head(s) \in Plain /\ Tail(s) \in Seq(Plain)
  BY HeadTailProperties
<1> QED
  BY <1>1, <1>2, PlainSubset

(* A step of the threads that leaves dvr_mutex and its holder alone.       *)
PlainMoves ==
  /\ DOMAIN todo' = Threads /\ todo' = [t \in Threads |-> todo'[t]]
  /\ \A t \in Threads :
       \/ todo'[t] = todo[t]
       \/ ~Holds(t) /\ todo'[t] \in Seq(Plain)

Typed == todo \in [Threads -> Seq(Steps)]

LEMMA PlainMovesKeep ==
  ASSUME Typed, Threading, PlainMoves, UNCHANGED dvrMutex
  PROVE  /\ Typed' /\ Threading'
         /\ \A t \in Threads, c \in Critical : At(t, c)' <=> At(t, c)
<1>1. ASSUME NEW t \in Threads
      PROVE  /\ todo'[t] \in Seq(Steps)
             /\ todo'[t] # <<>> => Tail(todo'[t]) \in Seq(Plain)
             /\ \A c \in Critical : At(t, c)' <=> At(t, c)
  <2>1. CASE todo'[t] = todo[t]
    BY <2>1 DEF Typed, Threading, At
  <2>2. CASE ~Holds(t) /\ todo'[t] \in Seq(Plain)
    BY <2>2, PlainSeq DEF Holds, At
  <2> QED
    BY <2>1, <2>2 DEF PlainMoves
<1>2. Typed'
  BY <1>1 DEF Typed, PlainMoves
<1>3. \A t \in Threads : Holds(t)' <=> Holds(t)
  BY <1>1 DEF Holds
<1> QED
  BY <1>1, <1>2, <1>3 DEF Threading

(* Then and Done, at a step that is not critical, and Begin.               *)
LEMMA ThenPlain ==
  ASSUME Typed, Threading, NEW t \in Threads, todo[t] # <<>>,
         NEW steps \in Seq(Plain), Then(t, steps)
  PROVE  /\ todo'[t] \in Seq(Plain) /\ Typed'
         /\ \A u \in Threads \ {t} : todo'[u] = todo[u]
         /\ Head(todo[t]) \notin Critical => PlainMoves
<1>1. Tail(todo[t]) \in Seq(Plain)
  BY DEF Threading
<1>2. steps \o Tail(todo[t]) \in Seq(Plain)
  BY <1>1, ConcatProperties
<1>3. todo' = [todo EXCEPT ![t] = steps \o Tail(todo[t])]
  BY DEF Then
<1> DEFINE new == steps \o Tail(todo[t])
<1>4. new \in Seq(Plain) /\ new \in Seq(Steps) /\ todo' = [todo EXCEPT ![t] = new]
  BY <1>2, <1>3, PlainSeq
<1> HIDE DEF new
<1>5. /\ todo'[t] \in Seq(Plain) /\ Typed'
      /\ \A u \in Threads \ {t} : todo'[u] = todo[u]
  BY <1>4 DEF Typed
<1>6. Head(todo[t]) \notin Critical => PlainMoves
  BY <1>5 DEF PlainMoves, Holds, At, Typed
<1> QED
  BY <1>5, <1>6

LEMMA BeginPlain ==
  ASSUME Typed, NEW t \in Threads, NEW steps \in Seq(Plain), Begin(t, steps)
  PROVE  PlainMoves
<1>1. todo[t] = <<>> /\ todo' = [todo EXCEPT ![t] = steps]
  BY DEF Begin
<1>2. ~Holds(t)
  BY <1>1 DEF Holds, At
<1>3. todo' \in [Threads -> Seq(Steps)] /\ todo'[t] = steps
  BY <1>1, PlainSeq DEF Typed
<1>4. \A u \in Threads \ {t} : todo'[u] = todo[u]
  BY <1>1 DEF Typed
<1> QED
  BY <1>2, <1>3, <1>4 DEF PlainMoves

(* A step that takes dvr_mutex, or keeps it, goes on at a critical one.    *)
LEMMA ThenCritical ==
  ASSUME Typed, Threading, NEW t \in Threads, todo[t] # <<>>,
         NEW c \in Critical, Then(t, <<c>>)
  PROVE  /\ Typed' /\ todo'[t] # <<>> /\ Head(todo'[t]) = c /\ Tail(todo'[t]) \in Seq(Plain)
         /\ \A u \in Threads \ {t} : todo'[u] = todo[u]
<1>1. Tail(todo[t]) \in Seq(Plain) /\ Tail(todo[t]) \in Seq(Steps)
  BY PlainSeq DEF Threading
<1>2. c \in Steps /\ <<c>> \in Seq(Steps) /\ Len(<<c>>) = 1 /\ <<c>>[1] = c
  BY PlainSubset
<1> DEFINE new == <<c>> \o Tail(todo[t])
<1>3. new \in Seq(Steps) /\ Len(new) = 1 + Len(Tail(todo[t])) /\ new[1] = c
  BY <1>1, <1>2, ConcatProperties, LenProperties
<1>4. new # <<>> /\ Head(new) = c
  BY <1>1, <1>3, LenProperties
<1>5. Tail(new) = Tail(todo[t])
  BY <1>1, <1>2
<1>6. todo' = [todo EXCEPT ![t] = new]
  BY DEF Then
<1> HIDE DEF new
<1> QED
  BY <1>1, <1>3, <1>4, <1>5, <1>6 DEF Typed

(* The programs of the handlers, and the parts they are made of.           *)
LEMMA Programs ==
  /\ <<>> \in Seq(Plain)
  /\ \A s \in Plain : <<s>> \in Seq(Plain)
  /\ \A s1, s2 \in Plain : <<s1, s2>> \in Seq(Plain)
  /\ \A s1, s2, s3 \in Plain : <<s1, s2, s3>> \in Seq(Plain)
  /\ \A s1, s2, s3, s4 \in Plain : <<s1, s2, s3, s4>> \in Seq(Plain)
  /\ \A s1, s2, s3, s4, s5 \in Plain : <<s1, s2, s3, s4, s5>> \in Seq(Plain)
OBVIOUS

LEMMA HandlerPrograms ==
  /\ app_switch_to_menu \in Seq(Plain)
  /\ exits \subseteq Seq(Plain) /\ retunes \subseteq Seq(Plain) /\ checks \subseteq Seq(Plain)
  /\ <<"lock", "stop", "stopLive", "video", "unlock">> \in Seq(Plain)
  /\ <<"quit", "umount", "mount", "restart">> \in Seq(Plain)
  /\ \A key \in {"press", "click"} : <<"lock", key, "unlock">> \in Seq(Plain)
  /\ \A cmd \in Cmds : <<cmd>> \in Seq(Plain)
<1>1. {"menu", "stop", "scanCard", "stopLive", "video", "note", "repair", "await", "lock",
       "unlock", "quit", "umount", "mount", "restart", "press", "click"} \subseteq Plain
  BY DEF Plain, Critical, Steps, Cmds
<1>2. Cmds \subseteq Plain
  BY DEF Plain, Critical, Steps, Cmds
<1>3. app_switch_to_menu \in Seq(Plain)
  BY <1>1, Programs DEF app_switch_to_menu
<1>4. exits \subseteq Seq(Plain)
  BY <1>1, Programs DEF exits
<1>5. retunes \subseteq Seq(Plain)
  BY <1>1, Programs DEF retunes
<1>6. checks \subseteq Seq(Plain)
  <2>1. <<"note", "repair", "await", "note">> \in Seq(Plain) /\ <<>> \in Seq(Plain)
    BY <1>1, Programs
  <2>2. checks \subseteq {<<>>, <<"note", "repair", "await", "note">>}
    BY DEF checks
  <2> QED
    BY <2>1, <2>2
<1>7. /\ <<"lock", "stop", "stopLive", "video", "unlock">> \in Seq(Plain)
      /\ <<"quit", "umount", "mount", "restart">> \in Seq(Plain)
  BY <1>1, Programs
<1>8. \A key \in {"press", "click"} : <<"lock", key, "unlock">> \in Seq(Plain)
  BY <1>1, Programs
<1>9. \A cmd \in Cmds : <<cmd>> \in Seq(Plain)
  BY <1>2, Programs
<1> QED
  BY <1>3, <1>4, <1>5, <1>6, <1>7, <1>8, <1>9

LEMMA TickPrograms ==
  ASSUME NEW fifth \in BOOLEAN
  PROVE  <<"detect">> \o (IF fifth THEN <<"update">> ELSE <<>>)
                      \o (IF Manual THEN <<>> ELSE <<"signal">>) \in Seq(Plain)
<1>1. {"detect", "update", "signal"} \subseteq Plain
  BY DEF Plain, Critical, Steps, Cmds
<1>2. /\ <<"detect">> \in Seq(Plain)
      /\ (IF fifth THEN <<"update">> ELSE <<>>) \in Seq(Plain)
      /\ (IF Manual THEN <<>> ELSE <<"signal">>) \in Seq(Plain)
  BY <1>1, Programs
<1> HIDE <1>1
<1> QED
  BY <1>2, ConcatProperties

(* check_source_signal's programs end at the level.                        *)
LEMMA SignalPrograms ==
  ASSUME NEW steps \in {<<>>, <<"stop">>, <<"stop", "stopLive">>, <<"stop", "start">>}
  PROVE  steps \o <<"level">> \in Seq(Plain)
<1>1. {"stop", "stopLive", "start", "level"} \subseteq Plain
  BY DEF Plain, Critical, Steps, Cmds
<1>2. steps \in Seq(Plain) /\ <<"level">> \in Seq(Plain)
  BY <1>1, Programs
<1> QED
  BY <1>2, ConcatProperties
-----------------------------------------------------------------------------
(* The recorder's part of the invariant: its queue is gone once it has     *)
(* closed it, and it does not crash under the app.                         *)
serving == phase = "serving" /\ "quit" \notin {queue[i] : i \in DOMAIN queue}

RecorderPart ==
  /\ phase \in Rec!Phases \ {"crashed"} /\ queue \in Seq(Rec!Commands)
  /\ phase \in {"closed", "quit"} => queue = <<>>
  /\ wanted \in BOOLEAN

LEMMA SendTells ==
  ASSUME RecorderPart, NEW cmd \in Rec!Commands, Rec!Send(cmd)
  PROVE  /\ RecorderPart'
         /\ serving' => serving /\ (lastTold' <=> cmd = "start")
<1>1. queue \in Seq(Rec!Commands) /\ queue' = Append(queue, cmd)
  BY DEF RecorderPart, Rec!Send
<1>2. /\ queue' \in Seq(Rec!Commands) /\ queue' # <<>> /\ Len(queue') = Len(queue) + 1
      /\ \A i \in 1 .. Len(queue) : queue'[i] = queue[i]
      /\ queue'[Len(queue) + 1] = cmd
      /\ Len(queue) \in Nat /\ DOMAIN queue = 1 .. Len(queue) /\ DOMAIN queue' = 1 .. Len(queue')
  BY <1>1, AppendProperties, LenProperties
<1>3. RecorderPart'
  BY <1>2 DEF RecorderPart, Rec!Send, Rec!Phases
<1>4. lastTold' <=> cmd = "start"
  BY <1>2 DEF lastTold
<1>5. serving' => serving
  <2> SUFFICES ASSUME serving'
               PROVE  serving
    OBVIOUS
  <2>1. phase = "serving"
    BY DEF serving, Rec!Send
  <2>2. ASSUME NEW i \in DOMAIN queue
        PROVE  queue[i] # "quit"
    <3>1. i \in DOMAIN queue' /\ queue'[i] = queue[i]
      BY <1>2
    <3> QED
      BY <3>1 DEF serving
  <2> QED
    BY <2>1, <2>2 DEF serving
<1> QED
  BY <1>3, <1>4, <1>5

LEMMA TakeTells ==
  ASSUME RecorderPart, Rec!Take
  PROVE  /\ RecorderPart'
         /\ serving' => serving /\ (lastTold' <=> lastTold)
<1>1. queue \in Seq(Rec!Commands) /\ queue # <<>> /\ queue' = Tail(queue) /\ phase = "serving"
  BY DEF RecorderPart, Rec!Take
<1>2. /\ Head(queue) \in Rec!Commands /\ Tail(queue) \in Seq(Rec!Commands)
      /\ Len(Tail(queue)) = Len(queue) - 1 /\ Head(queue) = queue[1]
      /\ \A i \in 1 .. Len(Tail(queue)) : Tail(queue)[i] = queue[i + 1]
      /\ Len(queue) \in Nat /\ DOMAIN queue = 1 .. Len(queue)
      /\ DOMAIN Tail(queue) = 1 .. Len(Tail(queue)) /\ Len(queue) # 0
  BY <1>1, HeadTailProperties, LenProperties, EmptySeq
<1>3. RecorderPart'
  BY <1>1, <1>2 DEF RecorderPart, Rec!Take, Rec!Phases
<1>4. ASSUME serving'
      PROVE  serving /\ (lastTold' <=> lastTold)
  <2>1. Head(queue) # "quit" /\ wanted' = (Head(queue) = "start")
    BY <1>4 DEF serving, Rec!Take
  <2>2. \A i \in 1 .. Len(queue) : queue[i] # "quit"
    <3> SUFFICES ASSUME NEW i \in 1 .. Len(queue), i # 1
                 PROVE  queue[i] # "quit"
      BY <1>2, <2>1
    <3>1. i - 1 \in DOMAIN queue' /\ queue'[i - 1] = queue[i]
      BY <1>1, <1>2
    <3> QED
      BY <1>4, <3>1 DEF serving
  <2>3. serving
    BY <1>1, <1>2, <2>2 DEF serving
  <2>4. CASE queue' = <<>>
    <3>1. Len(queue) = 1
      <4>1. Len(queue') = Len(queue) - 1
        BY <1>1, <1>2
      <4>2. Len(queue') = 0
        BY <2>4
      <4>3. Len(queue) \in Nat
        BY <1>2
      <4> QED
        BY <4>1, <4>2, <4>3
    <3> QED
      BY <1>1, <1>2, <2>1, <2>3, <2>4, <3>1 DEF lastTold
  <2>5. CASE queue' # <<>>
    <3>1. Len(queue') \in 1 .. Len(Tail(queue)) /\ Len(queue') + 1 = Len(queue)
      BY <1>1, <1>2, <2>5, EmptySeq
    <3>2. queue'[Len(queue')] = queue[Len(queue)]
      BY <1>1, <1>2, <3>1
    <3> QED
      BY <1>1, <2>3, <2>5, <3>2 DEF lastTold
  <2> QED
    BY <2>4, <2>5
<1> QED
  BY <1>3, <1>4

(* What the recorder is told, or does by itself, other than a START, never *)
(* makes it want to record.                                                *)
Calmer == RecorderPart' /\ (serving' /\ lastTold' => serving /\ lastTold)

LEMMA PostTells ==
  ASSUME RecorderPart, NEW cmd \in Rec!Commands, Post(cmd)
  PROVE  /\ RecorderPart'
         /\ cmd # "start" => ~(serving' /\ lastTold')
<1>1. CASE phase \in {"closed", "quit"}
  <2>1. UNCHANGED recorder
    BY <1>1 DEF Post
  <2> QED
    BY <1>1, <2>1 DEF RecorderPart, recorder, serving, Rec!Phases
<1>2. CASE phase \notin {"closed", "quit"}
  <2>1. Rec!Send(cmd)
    BY <1>2 DEF Post
  <2> QED
    BY <2>1, SendTells
<1> QED
  BY <1>1, <1>2

LEMMA CalmSteps ==
  ASSUME RecorderPart
  PROVE  /\ UNCHANGED recorder => Calmer
         /\ \A cmd \in {"stop", "quit"} : Post(cmd) => Calmer
         /\ Rec!Serve => Calmer
         /\ phase \in Rec!Down /\ Rec!Restart => Calmer
<1>1. UNCHANGED recorder => Calmer
  BY DEF recorder, Calmer, RecorderPart, serving, lastTold
<1>2. \A cmd \in {"stop", "quit"} : Post(cmd) => Calmer
  <2>1. {"stop", "quit"} \subseteq Rec!Commands /\ "start" \notin {"stop", "quit"}
    BY DEF Rec!Commands
  <2> QED
    BY <2>1, PostTells DEF Calmer
<1>3. Rec!Serve => Calmer
  <2>1. Rec!Take => Calmer
    BY TakeTells DEF Calmer
  <2>2. Rec!Begin \/ Rec!End \/ Rec!Watch => Calmer
    BY DEF Rec!Begin, Rec!End, Rec!Watch, Calmer, RecorderPart, serving, lastTold
  <2>3. Rec!CloseQueue => Calmer
    <3>1. <<>> \in Seq(Rec!Commands) /\ "closed" # "serving"
      BY EmptySeq
    <3> QED
      BY <3>1 DEF Rec!CloseQueue, Calmer, RecorderPart, serving, Rec!Phases
  <2>4. Rec!Quit => Calmer
    BY DEF Rec!Quit, Calmer, RecorderPart, serving, Rec!Phases
  <2> QED
    BY <2>1, <2>2, <2>3, <2>4 DEF Rec!Serve
<1>4. phase \in Rec!Down /\ Rec!Restart => Calmer
  <2> SUFFICES ASSUME phase \in Rec!Down, Rec!Restart
               PROVE  Calmer
    OBVIOUS
  <2>1. queue = <<>> /\ queue' = <<>> /\ wanted' = FALSE /\ phase' = "serving"
    BY DEF RecorderPart, Rec!Down, Rec!Restart
  <2>2. RecorderPart'
    BY <2>1 DEF RecorderPart, Rec!Phases
  <2> QED
    BY <2>1, <2>2 DEF Calmer, lastTold
<1> QED
  BY <1>1, <1>2, <1>3, <1>4
-----------------------------------------------------------------------------
(* The inductive invariant.  dvr_is_recording changes only under dvr_mutex,*)
(* and before dvr_mutex is released the recorder has been told: whoever is *)
(* about to tell it to start has set the flag, and while it wants to       *)
(* record without the flag, its holder is about to tell it to stop.        *)
AboutToStop(t) == At(t, "sendStop") \/ At(t, "giveUp")

Session ==
  /\ \A t \in Threads : At(t, "conf") \/ AboutToStop(t) => ~isRecording
  /\ \A t \in Threads : At(t, "sendStart") => isRecording
  /\ serving /\ lastTold => isRecording \/ \E t \in Threads : AboutToStop(t)

AppTypes ==
  /\ recording \in BOOLEAN /\ says \in BOOLEAN
  /\ dvrMutex \in Threads \cup {"none"} /\ lvglMutex \in Threads \cup {"none"}
  /\ appState \in {"video", "menu"}
  /\ isRecording \in BOOLEAN /\ pending \in BOOLEAN
  /\ recordTimer \in {"start", "stop", "none"}
  /\ enable \in BOOLEAN /\ ready \in BOOLEAN /\ detReq \in BOOLEAN
  /\ enableLast \in BOOLEAN /\ initScan \in BOOLEAN /\ isFull \in BOOLEAN
  /\ repairActive \in BOOLEAN
  /\ card \in {"out", "in", "mounted"}

Core == Typed /\ Threading /\ RecorderPart /\ Session

DvrInv == Core /\ AppTypes

LEMMA Implied == DvrInv => TypeOK /\ NoOrphan
<1>1. DvrInv => TypeOK
  BY DEF DvrInv, Core, Typed, RecorderPart, AppTypes, TypeOK, Rec!Phases
<1>2. DvrInv => NoOrphan
  <2> SUFFICES ASSUME DvrInv, ~isRecording, dvrMutex = "none", serving
               PROVE  ~lastTold
    BY DEF NoOrphan, serving
  <2>1. "none" \notin Threads /\ \A t \in Threads : ~Holds(t)
    BY DEF DvrInv, Core, Threading, Threads
  <2>2. \A t \in Threads : ~AboutToStop(t)
    BY <2>1 DEF Holds, Critical, AboutToStop
  <2> QED
    BY <2>2 DEF DvrInv, Core, Session
<1> QED
  BY <1>1, <1>2

(* A step that does not touch dvr_mutex or dvr_is_recording.               *)
LEMMA QuietStep ==
  ASSUME Core, PlainMoves, UNCHANGED <<dvrMutex, isRecording>>, Calmer
  PROVE  Core'
<1>1. /\ Typed' /\ Threading'
      /\ \A t \in Threads, c \in Critical : At(t, c)' <=> At(t, c)
  BY PlainMovesKeep DEF Core
<1>2. \A t \in Threads : /\ At(t, "conf")' <=> At(t, "conf")
                         /\ At(t, "sendStart")' <=> At(t, "sendStart")
                         /\ AboutToStop(t)' <=> AboutToStop(t)
  BY <1>1 DEF Critical, AboutToStop
<1>3. Session'
  BY <1>2 DEF Core, Session, Calmer
<1> QED
  BY <1>1, <1>3 DEF Core, Calmer

(* Then at a plain step, Done at one, and Begin are such steps.            *)
LEMMA QuietThen ==
  ASSUME Core, NEW t \in Threads, NEW step \in Plain, At(t, step),
         NEW steps \in Seq(Plain), Then(t, steps),
         UNCHANGED <<dvrMutex, isRecording>>, Calmer
  PROVE  Core'
<1>1. todo[t] # <<>> /\ Head(todo[t]) \notin Critical
  BY PlainSubset DEF At
<1>2. PlainMoves
  BY <1>1, ThenPlain DEF Core
<1> QED
  BY <1>2, QuietStep

LEMMA QuietBegin ==
  ASSUME Core, NEW t \in Threads, NEW steps \in Seq(Plain), Begin(t, steps),
         UNCHANGED <<dvrMutex, isRecording, recorder>>
  PROVE  Core'
<1>1. PlainMoves /\ Calmer
  BY BeginPlain, CalmSteps DEF Core
<1> QED
  BY <1>1, QuietStep

LEMMA QuietStill ==
  ASSUME Core, UNCHANGED <<todo, dvrMutex, isRecording>>, Calmer
  PROVE  Core'
<1>1. PlainMoves
  BY DEF PlainMoves, Core, Typed
<1> QED
  BY <1>1, QuietStep

(* A step that takes dvr_mutex or keeps it, and one that releases it.      *)
LEMMA Takes ==
  ASSUME Core, NEW t \in Threads, todo[t] # <<>>, NEW c \in Critical, Then(t, <<c>>),
         dvrMutex \in {"none", t}, dvrMutex' = t
  PROVE  /\ Typed' /\ Threading' /\ At(t, c)'
         /\ \A u \in Threads, d \in Critical : At(u, d)' => u = t /\ d = c
<1>1. /\ Typed' /\ todo'[t] # <<>> /\ Head(todo'[t]) = c /\ Tail(todo'[t]) \in Seq(Plain)
      /\ \A u \in Threads \ {t} : todo'[u] = todo[u]
  BY ThenCritical DEF Core
<1>2. At(t, c)' /\ Holds(t)' /\ \A d \in Critical : At(t, d)' => d = c
  BY <1>1 DEF At, Holds
<1>3. \A u \in Threads \ {t} : ~Holds(u)
  BY DEF Core, Threading, Threads
<1>4. \A u \in Threads \ {t} : ~Holds(u)'
  BY <1>1, <1>3 DEF Holds, At
<1>5. Threading'
  BY <1>1, <1>2, <1>4 DEF Threading, Core
<1>6. \A u \in Threads, d \in Critical : At(u, d)' => u = t /\ d = c
  BY <1>2, <1>4 DEF Holds
<1> QED
  BY <1>1, <1>2, <1>5, <1>6

LEMMA Releases ==
  ASSUME Core, NEW t \in Threads, Holds(t), Done(t), dvrMutex' = "none"
  PROVE  /\ Typed' /\ Threading'
         /\ \A u \in Threads, d \in Critical : ~At(u, d)'
<1>1. todo[t] # <<>> /\ dvrMutex = t
  BY DEF Core, Threading, Holds, At
<1>2. /\ todo'[t] \in Seq(Plain) /\ Typed'
      /\ \A u \in Threads \ {t} : todo'[u] = todo[u]
  BY <1>1, ThenPlain, Programs DEF Core, Done
<1>3. ~Holds(t)'
  BY <1>2, PlainSeq DEF Holds, At
<1>4. \A u \in Threads \ {t} : ~Holds(u)'
  BY <1>1, <1>2 DEF Core, Threading, Holds, At
<1>5. Threading'
  BY <1>2, <1>3, <1>4, PlainSeq DEF Threading, Core, Threads
<1> QED
  BY <1>2, <1>3, <1>4, <1>5 DEF Holds

-----------------------------------------------------------------------------
(* The steps under dvr_mutex.                                              *)
LEMMA DoStartKeeps ==
  ASSUME Core, NEW t \in Threads, DoStart(t)
  PROVE  Core'
<1>1. todo[t] # <<>> /\ "doStart" \in Plain /\ "conf" \in Critical /\ At(t, "doStart")
  BY DEF DoStart, At, Plain, Critical, Steps
<1>2. Calmer /\ UNCHANGED isRecording
  BY CalmSteps DEF DoStart, Core, dvr
<1>3. CASE isRecording \/ isFull
  BY <1>1, <1>2, <1>3, QuietThen, Programs DEF DoStart, Done
<1>4. CASE ~(isRecording \/ isFull)
  <2>1. Then(t, <<"conf">>) /\ dvrMutex = "none" /\ dvrMutex' = t
    BY <1>4 DEF DoStart
  <2>2. /\ Typed' /\ Threading' /\ At(t, "conf")'
        /\ \A u \in Threads, d \in Critical : At(u, d)' => u = t /\ d = "conf"
    BY <1>1, <2>1, Takes
  <2>3. \A u \in Threads : ~AboutToStop(u)' /\ ~At(u, "sendStart")'
    BY <2>2 DEF Critical, AboutToStop
  <2>4. \A u \in Threads : ~AboutToStop(u)
    BY <2>1 DEF Core, Threading, Holds, Critical, AboutToStop, Threads
  <2>5. Session'
    BY <1>2, <1>4, <2>3, <2>4 DEF Core, Session, Calmer
  <2> QED
    BY <1>2, <2>2, <2>5 DEF Core, Calmer
<1> QED
  BY <1>3, <1>4

LEMMA ConfKeeps ==
  ASSUME Core, NEW t \in Threads, Conf(t)
  PROVE  Core'
<1>1. /\ todo[t] # <<>> /\ At(t, "conf") /\ {"conf", "sendStart"} \subseteq Critical
      /\ Holds(t) /\ dvrMutex = t /\ ~isRecording
  BY DEF Conf, At, Critical, Holds, Core, Threading, Session
<1>2. Calmer
  BY CalmSteps DEF Conf, Core
<1>3. CASE ready
  <2>1. Then(t, <<"sendStart">>) /\ dvrMutex' = t /\ isRecording' = TRUE
    BY <1>1, <1>3 DEF Conf
  <2>2. /\ Typed' /\ Threading' /\ At(t, "sendStart")'
        /\ \A u \in Threads, d \in Critical : At(u, d)' => u = t /\ d = "sendStart"
    BY <1>1, <2>1, Takes
  <2>3. \A u \in Threads : ~AboutToStop(u)' /\ ~At(u, "conf")'
    BY <2>2 DEF Critical, AboutToStop
  <2>4. Session'
    BY <2>1, <2>3 DEF Session
  <2> QED
    BY <1>2, <2>2, <2>4 DEF Core, Calmer
<1>4. CASE ~ready
  <2>1. Done(t) /\ dvrMutex' = "none" /\ UNCHANGED isRecording
    BY <1>4 DEF Conf
  <2>2. Typed' /\ Threading' /\ \A u \in Threads, d \in Critical : ~At(u, d)'
    BY <1>1, <2>1, Releases
  <2>3. \A u \in Threads : ~AboutToStop(u)' /\ ~At(u, "conf")' /\ ~At(u, "sendStart")'
    BY <2>2 DEF Critical, AboutToStop
  <2>4. \A u \in Threads : ~AboutToStop(u)
    <3>1. ~AboutToStop(t)
      BY <1>1 DEF At, AboutToStop
    <3>2. \A u \in Threads \ {t} : ~Holds(u)
      BY <1>1 DEF Core, Threading
    <3> QED
      BY <3>1, <3>2 DEF Holds, Critical, AboutToStop
  <2>5. Session'
    BY <1>1, <1>2, <2>1, <2>3, <2>4 DEF Core, Session, Calmer
  <2> QED
    BY <1>2, <2>2, <2>5 DEF Core, Calmer
<1> QED
  BY <1>3, <1>4

(* DoStop and UpdateStatus: the flag is lowered, and a stop is due.        *)
LEMMA LowersFlag ==
  ASSUME Core, NEW t \in Threads, todo[t] # <<>>, dvrMutex = "none", dvrMutex' = t,
         isRecording' = FALSE, NEW c \in {"sendStop", "giveUp"}, Then(t, <<c>>),
         UNCHANGED recorder
  PROVE  Core'
<1>1. c \in Critical /\ Calmer
  BY CalmSteps DEF Critical, Core
<1>2. /\ Typed' /\ Threading' /\ At(t, c)'
      /\ \A u \in Threads, d \in Critical : At(u, d)' => u = t /\ d = c
  BY <1>1, Takes
<1>3. AboutToStop(t)' /\ \A u \in Threads : ~At(u, "sendStart")'
  BY <1>2 DEF Critical, AboutToStop
<1>4. Session'
  BY <1>3 DEF Session
<1> QED
  BY <1>1, <1>2, <1>4 DEF Core, Calmer

LEMMA DoStopKeeps ==
  ASSUME Core, NEW t \in Threads, DoStop(t)
  PROVE  Core'
<1>1. todo[t] # <<>> /\ "doStop" \in Plain /\ At(t, "doStop") /\ Calmer /\ UNCHANGED recorder
  BY CalmSteps DEF DoStop, At, Plain, Critical, Steps, Core
<1>2. CASE isRecording
  BY <1>1, <1>2, LowersFlag DEF DoStop
<1>3. CASE ~isRecording
  BY <1>1, <1>3, QuietThen, Programs DEF DoStop, Done
<1> QED
  BY <1>2, <1>3

LEMMA UpdateStatusKeeps ==
  ASSUME Core, NEW t \in Threads, UpdateStatus(t)
  PROVE  Core'
<1>1. todo[t] # <<>> /\ "update" \in Plain /\ At(t, "update") /\ Calmer /\ UNCHANGED recorder
  BY CalmSteps DEF UpdateStatus, At, Plain, Critical, Steps, Core
<1>2. CASE isRecording /\ ~says
  BY <1>1, <1>2, LowersFlag DEF UpdateStatus
<1>3. CASE ~(isRecording /\ ~says)
  BY <1>1, <1>3, QuietThen, Programs DEF UpdateStatus, Done
<1> QED
  BY <1>2, <1>3

(* Send and GiveUp: the recorder has been told, and dvr_mutex is free.     *)
LEMMA Told ==
  ASSUME Core, NEW t \in Threads, Holds(t), Done(t), dvrMutex' = "none",
         UNCHANGED isRecording, NEW cmd \in Rec!Commands, Post(cmd),
         cmd = "start" => isRecording
  PROVE  Core'
<1>1. RecorderPart' /\ (cmd # "start" => ~(serving' /\ lastTold'))
  BY PostTells DEF Core
<1>2. Typed' /\ Threading' /\ \A u \in Threads, d \in Critical : ~At(u, d)'
  BY Releases
<1>3. \A u \in Threads : ~AboutToStop(u)' /\ ~At(u, "conf")' /\ ~At(u, "sendStart")'
  BY <1>2 DEF Critical, AboutToStop
<1>4. Session'
  BY <1>1, <1>3 DEF Session
<1> QED
  BY <1>1, <1>2, <1>4 DEF Core

LEMMA SendKeeps ==
  ASSUME Core, NEW t \in Threads, Send(t)
  PROVE  Core'
<1>1. {"start", "stop"} \subseteq Rec!Commands /\ {"sendStart", "sendStop"} \subseteq Critical
  BY DEF Rec!Commands, Critical
<1>2. Done(t) /\ dvrMutex' = "none" /\ UNCHANGED isRecording
  BY DEF Send, dvr
<1>3. CASE At(t, "sendStart") /\ Post("start")
  <2>1. isRecording /\ Holds(t)
    BY <1>1, <1>3 DEF Core, Session, Holds
  <2> QED
    BY <1>1, <1>2, <1>3, <2>1, Told
<1>4. CASE At(t, "sendStop") /\ Post("stop")
  <2>1. Holds(t) /\ "stop" # "start"
    BY <1>1, <1>4 DEF Holds
  <2> QED
    BY <1>1, <1>2, <1>4, <2>1, Told
<1> QED
  BY <1>3, <1>4 DEF Send

LEMMA GiveUpKeeps ==
  ASSUME Core, NEW t \in Threads, GiveUp(t)
  PROVE  Core'
<1>1. "stop" \in Rec!Commands /\ "giveUp" \in Critical /\ "stop" # "start"
  BY DEF Rec!Commands, Critical
<1>2. Done(t) /\ dvrMutex' = "none" /\ UNCHANGED isRecording /\ Post("stop") /\ Holds(t)
  BY <1>1 DEF GiveUp, Holds
<1> QED
  BY <1>1, <1>2, Told
-----------------------------------------------------------------------------
(* The other steps, thread by thread.                                      *)
LEMMA CommandKeeps ==
  ASSUME Core, NEW t \in Threads, Command(t)
  PROVE  Core'
<1> USE DEF Done
<1>1. CASE dvr_cmd(t)
  <2>1. PICK cmd \in Cmds : At(t, cmd)
    BY <1>1 DEF dvr_cmd
  <2>2. cmd \in Plain /\ {"doStart", "doStop"} \subseteq Plain
    BY DEF Plain, Critical, Steps, Cmds
  <2>3. <<IF wantStart(t) THEN "doStart" ELSE "doStop">> \in Seq(Plain) /\ <<>> \in Seq(Plain)
    BY <2>2, Programs
  <2>4. Calmer /\ UNCHANGED <<dvrMutex, isRecording>>
    BY <1>1, CalmSteps DEF dvr_cmd, locks, Core
  <2>5. CASE enable
    BY <1>1, <2>1, <2>2, <2>3, <2>4, <2>5, QuietThen DEF dvr_cmd
  <2>6. CASE ~enable
    BY <1>1, <2>1, <2>2, <2>3, <2>4, <2>6, QuietThen DEF dvr_cmd
  <2> QED
    BY <2>5, <2>6
<1>2. CASE DoStart(t) \/ Conf(t) \/ DoStop(t) \/ Send(t)
  BY <1>2, DoStartKeeps, ConfKeeps, DoStopKeeps, SendKeeps
<1>3. CASE StopLive(t)
  <2>1. Calmer /\ UNCHANGED <<dvrMutex, isRecording>> /\ "stopLive" \in Plain
    BY <1>3, CalmSteps DEF StopLive, locks, dvr, Core, Plain, Critical, Steps
  <2> QED
    BY <1>3, <2>1, QuietThen, Programs DEF StopLive
<1>4. CASE Lock(t) \/ Unlock(t)
  <2>1. /\ Calmer /\ UNCHANGED <<dvrMutex, isRecording>>
        /\ {"lock", "unlock"} \subseteq Plain
    BY <1>4, CalmSteps DEF Lock, Unlock, dvr, Core, Plain, Critical, Steps
  <2> QED
    BY <1>4, <2>1, QuietThen, Programs DEF Lock, Unlock
<1> QED
  BY <1>1, <1>2, <1>3, <1>4 DEF Command

LEMMA InputKeeps ==
  ASSUME Core, btn_press \/ rbtn_click \/ ScanCard
  PROVE  Core'
<1> USE DEF Done
<1>1. /\ {"press", "click", "scanCard", "toggle"} \subseteq Plain /\ "input" \in Threads
      /\ <<"toggle">> \in Seq(Plain) /\ <<>> \in Seq(Plain)
  <2>1. {"press", "click", "scanCard", "toggle"} \subseteq Plain /\ "input" \in Threads
    BY DEF Plain, Critical, Steps, Cmds, Threads
  <2> QED
    BY <2>1, Programs
<1>2. Calmer /\ UNCHANGED <<dvrMutex, isRecording>>
  BY CalmSteps DEF btn_press, rbtn_click, ScanCard, locks, dvr, Core
<1>3. CASE btn_press
  <2>1. \E steps \in Seq(Plain) : Then("input", steps)
    BY <1>3, HandlerPrograms DEF btn_press
  <2> QED
    BY <1>1, <1>2, <1>3, <2>1, QuietThen DEF btn_press
<1>4. CASE rbtn_click
  <2>1. \E steps \in Seq(Plain) : Then("input", steps)
    BY <1>1, <1>4, HandlerPrograms DEF rbtn_click
  <2> QED
    BY <1>1, <1>2, <1>4, <2>1, QuietThen DEF rbtn_click
<1>5. CASE ScanCard
  BY <1>1, <1>2, <1>5, QuietThen DEF ScanCard
<1> QED
  BY <1>3, <1>4, <1>5

(* Settle may begin the check of a card and start what is pending.         *)
LEMMA SettleMoves ==
  ASSUME Core, Settle
  PROVE  PlainMoves
<1> DEFINE begins == IF pending /\ ready' /\ ~isFull' THEN <<"start">> ELSE <<>>
<1>1. {"peripheral", "repair"} \subseteq Threads /\ "peripheral" # "repair"
  BY DEF Threads
<1>2. PICK check \in checks \cup {todo["repair"]} :
        /\ \/ check = todo["repair"]
           \/ todo["repair"] = <<>> /\ check \in checks
        /\ todo' = [todo EXCEPT !["repair"] = check, !["peripheral"] = begins \o Tail(@)]
  BY DEF Settle
<1>3. todo["peripheral"] # <<>> /\ Head(todo["peripheral"]) = "settle"
  BY DEF Settle, At
<1>4. begins \in Seq(Plain)
  <2>1. "start" \in Plain
    BY DEF Plain, Critical, Steps, Cmds
  <2> QED
    BY <2>1, Programs
<1>5. Tail(todo["peripheral"]) \in Seq(Plain)
  BY <1>1, <1>3 DEF Core, Threading
<1>6. begins \o Tail(todo["peripheral"]) \in Seq(Plain)
  BY <1>4, <1>5, ConcatProperties
<1> DEFINE new == begins \o Tail(todo["peripheral"])
<1>7. new \in Seq(Plain) /\ todo \in [Threads -> Seq(Steps)]
  BY <1>6 DEF Core, Typed
<1>8. todo' = [todo EXCEPT !["repair"] = check, !["peripheral"] = new]
  BY <1>1, <1>2
<1> HIDE DEF new, begins
<1>9. /\ todo'["repair"] = check /\ todo'["peripheral"] = new
      /\ \A t \in Threads \ {"repair", "peripheral"} : todo'[t] = todo[t]
      /\ DOMAIN todo' = Threads /\ todo' = [t \in Threads |-> todo'[t]]
  BY <1>1, <1>7, <1>8
<1>10. ~Holds("peripheral")
  BY <1>3 DEF Holds, At, Critical
<1>11. \/ check = todo["repair"]
       \/ ~Holds("repair") /\ check \in Seq(Plain)
  BY <1>2, HandlerPrograms DEF Holds, At
<1> QED
  BY <1>7, <1>9, <1>10, <1>11 DEF PlainMoves

LEMMA PeripheralKeeps ==
  ASSUME Core, Detect \/ Settle \/ Signal \/ Level
  PROVE  Core'
<1> USE DEF Done
<1>1. {"detect", "settle", "signal", "level", "start", "stop"} \subseteq Plain
  BY DEF Plain, Critical, Steps, Cmds
<1>2. Calmer /\ UNCHANGED <<dvrMutex, isRecording>> /\ "peripheral" \in Threads
  BY CalmSteps DEF Detect, Settle, Signal, Level, locks, dvr, Core, Threads
<1>3. /\ <<>> \in Seq(Plain) /\ <<"settle">> \in Seq(Plain)
      /\ <<"start">> \in Seq(Plain) /\ <<"stop">> \in Seq(Plain)
  BY <1>1, Programs
<1>4. CASE Detect
  BY <1>1, <1>2, <1>3, <1>4, QuietThen DEF Detect
<1>5. CASE Settle
  BY <1>2, <1>5, SettleMoves, QuietStep
<1>6. CASE Signal
  <2>1. \E steps \in Seq(Plain) : Then("peripheral", steps)
    BY <1>3, <1>6, SignalPrograms DEF Signal
  <2> QED
    BY <1>1, <1>2, <1>6, <2>1, QuietThen DEF Signal
<1>7. CASE Level
  <2>1. \E steps \in Seq(Plain) : Then("peripheral", steps)
    BY <1>3, <1>7 DEF Level
  <2> QED
    BY <1>1, <1>2, <1>7, <2>1, QuietThen DEF Level
<1> QED
  BY <1>4, <1>5, <1>6, <1>7

LEMMA RepairKeeps ==
  ASSUME Core, Note \/ Repair \/ Await
  PROVE  Core'
<1> USE DEF Done
<1>1. /\ {"note", "repair", "await"} \subseteq Plain
      /\ {"repair", "script"} \subseteq Threads /\ "repair" # "script"
  BY DEF Plain, Critical, Steps, Threads
<1>2. Calmer /\ UNCHANGED <<dvrMutex, isRecording>>
  BY CalmSteps DEF Note, Repair, Await, locks, dvr, Core
<1>3. CASE Note \/ Await
  BY <1>1, <1>2, <1>3, QuietThen, Programs DEF Note, Await
<1>4. CASE Repair
  <2>1. CASE card = "mounted" /\ todo["script"] = <<>>
    <3> DEFINE script == <<"quit", "umount", "mount", "restart">>
    <3>1. script \in Seq(Plain)
      BY HandlerPrograms
    <3> HIDE DEF script
    <3>2. todo' = [todo EXCEPT !["repair"] = Tail(@), !["script"] = script]
      BY <1>4, <2>1 DEF Repair, script
    <3>3. todo["repair"] # <<>> /\ Head(todo["repair"]) = "repair"
      BY <1>4 DEF Repair, At
    <3>4. ~Holds("repair") /\ ~Holds("script") /\ Tail(todo["repair"]) \in Seq(Plain)
      BY <1>1, <2>1, <3>3 DEF Holds, At, Critical, Core, Threading
    <3>5. /\ todo'["repair"] = Tail(todo["repair"]) /\ todo'["script"] = script
          /\ \A t \in Threads \ {"repair", "script"} : todo'[t] = todo[t]
          /\ DOMAIN todo' = Threads /\ todo' = [t \in Threads |-> todo'[t]]
      BY <1>1, <3>2 DEF Core, Typed
    <3>6. PlainMoves
      BY <3>1, <3>4, <3>5 DEF PlainMoves
    <3> QED
      BY <1>2, <3>6, QuietStep
  <2>2. CASE ~(card = "mounted" /\ todo["script"] = <<>>)
    BY <1>1, <1>2, <1>4, <2>2, QuietThen, Programs DEF Repair
  <2> QED
    BY <2>1, <2>2
<1> QED
  BY <1>3, <1>4

LEMMA ScriptKeeps ==
  ASSUME Core, ScriptQuit \/ ScriptUmount \/ ScriptMount \/ ScriptRestart
  PROVE  Core'
<1> USE DEF Done
<1>1. /\ {"quit", "umount", "mount", "restart"} \subseteq Plain /\ "script" \in Threads
      /\ <<>> \in Seq(Plain)
  BY Programs DEF Plain, Critical, Steps, Threads
<1>2. UNCHANGED <<dvrMutex, isRecording>>
  BY DEF ScriptQuit, ScriptUmount, ScriptMount, ScriptRestart, locks, dvr
<1>3. Calmer
  BY CalmSteps DEF ScriptQuit, ScriptUmount, ScriptMount, ScriptRestart, Core
<1>4. \E step \in Plain : At("script", step) /\ Then("script", <<>>)
  BY <1>1 DEF ScriptQuit, ScriptUmount, ScriptMount, ScriptRestart
<1> QED
  BY <1>1, <1>2, <1>3, <1>4, QuietThen

LEMMA StepKeeps ==
  ASSUME Core, NEW t \in Threads, StepOf(t)
  PROVE  Core'
<1>1. CASE app_state_push(t)
  <2>1. {"menu", "video"} \subseteq Plain /\ Calmer /\ UNCHANGED <<dvrMutex, isRecording>>
    BY <1>1, CalmSteps DEF app_state_push, locks, dvr, Core, Plain, Critical, Steps
  <2> QED
    BY <1>1, <2>1, QuietThen, Programs DEF app_state_push, Done
<1> QED
  BY <1>1, CommandKeeps, InputKeeps, PeripheralKeeps, UpdateStatusKeeps, GiveUpKeeps, RepairKeeps,
     ScriptKeeps DEF StepOf

LEMMA EnvironmentKeeps ==
  ASSUME Core, AppTypes, Environment \/ esp32_handler_timeout \/ (\E fifth \in BOOLEAN : Tick(fifth))
  PROVE  Core'
<1>1. {"input", "backpack", "peripheral"} \subseteq Threads
  BY DEF Threads
<1>2. CASE Key
  <2>1. \E steps \in Seq(Plain) : Begin("input", steps)
    BY <1>2, HandlerPrograms DEF Key
  <2> QED
    BY <1>1, <1>2, <2>1, QuietBegin DEF Key, locks, dvr
<1>3. CASE ChangeChannel
  BY <1>1, <1>3, QuietBegin, HandlerPrograms DEF ChangeChannel, locks, dvr
<1>4. CASE Card
  BY <1>4, QuietStill, CalmSteps DEF Card, locks, dvr, Core
<1>5. ASSUME NEW cmd \in {"start", "stop"}, NEW delayed \in BOOLEAN, SetRecState(cmd, delayed)
      PROVE  Core'
  <2>1. <<cmd>> \in Seq(Plain) /\ UNCHANGED <<dvrMutex, isRecording, recorder>>
    BY <1>5, HandlerPrograms DEF SetRecState, locks, dvr, Cmds
  <2>2. CASE delayed
    BY <1>5, <2>1, <2>2, QuietStill, CalmSteps DEF SetRecState, Core
  <2>3. CASE ~delayed
    BY <1>1, <1>5, <2>1, <2>3, QuietBegin DEF SetRecState
  <2> QED
    BY <2>2, <2>3
<1>6. ASSUME esp32_handler_timeout
      PROVE  Core'
  <2>1. recordTimer \in Cmds
    BY <1>6 DEF esp32_handler_timeout, AppTypes, Cmds
  <2>2. <<recordTimer>> \in Seq(Plain)
    BY <2>1, HandlerPrograms
  <2> QED
    BY <1>1, <1>6, <2>2, QuietBegin DEF esp32_handler_timeout, locks, dvr
<1>7. ASSUME NEW fifth \in BOOLEAN, Tick(fifth)
      PROVE  Core'
  BY <1>1, <1>7, QuietBegin, TickPrograms DEF Tick, locks, dvr
<1> QED
  BY <1>2, <1>3, <1>4, <1>5, <1>6, <1>7 DEF Environment

-----------------------------------------------------------------------------
(* The remaining types.                                                    *)
LEMMA RecorderTypes ==
  ASSUME recording \in BOOLEAN, says \in BOOLEAN
  PROVE  /\ UNCHANGED recorder => recording' \in BOOLEAN /\ says' \in BOOLEAN
         /\ \A cmd : Post(cmd) => recording' \in BOOLEAN /\ says' \in BOOLEAN
         /\ Rec!Serve \/ Rec!Restart => recording' \in BOOLEAN /\ says' \in BOOLEAN
<1>1. UNCHANGED recorder => recording' \in BOOLEAN /\ says' \in BOOLEAN
  BY DEF recorder
<1>2. \A cmd : Post(cmd) => recording' \in BOOLEAN /\ says' \in BOOLEAN
  BY <1>1 DEF Post, Rec!Send
<1>3. Rec!Serve \/ Rec!Restart => recording' \in BOOLEAN /\ says' \in BOOLEAN
  BY DEF Rec!Serve, Rec!Take, Rec!Begin, Rec!End, Rec!Watch, Rec!CloseQueue, Rec!Quit,
         Rec!Restart
<1> QED
  BY <1>1, <1>2, <1>3

LEMMA CommandTypes ==
  ASSUME AppTypes, NEW t \in Threads, Command(t) \/ UpdateStatus(t) \/ GiveUp(t)
  PROVE  AppTypes'
<1>1. recording' \in BOOLEAN /\ says' \in BOOLEAN
  BY RecorderTypes
     DEF AppTypes, Command, dvr_cmd, DoStart, Conf, DoStop, Send, StopLive, Lock, Unlock,
         UpdateStatus, GiveUp
<1>2. dvrMutex' \in Threads \cup {"none"} /\ lvglMutex' \in Threads \cup {"none"}
  BY DEF AppTypes, Command, dvr_cmd, DoStart, Conf, DoStop, Send, StopLive, Lock, Unlock,
         UpdateStatus, GiveUp, locks
<1>3. isRecording' \in BOOLEAN /\ pending' \in BOOLEAN
  BY DEF AppTypes, Command, dvr_cmd, DoStart, Conf, DoStop, Send, StopLive, Lock, Unlock,
         UpdateStatus, GiveUp, dvr, wantStart, At
<1>4. UNCHANGED <<appState, recordTimer, detection, repairActive, card>>
  BY DEF Command, dvr_cmd, DoStart, Conf, DoStop, Send, StopLive, Lock, Unlock,
         UpdateStatus, GiveUp
<1> QED
  BY <1>1, <1>2, <1>3, <1>4 DEF AppTypes, detection

LEMMA FullTypes == {FALSE} \cup {"full" \in Inputs} \subseteq BOOLEAN
<1>1. ("full" \in Inputs) \in BOOLEAN
  OBVIOUS
<1> QED
  BY <1>1

LEMMA StepTypes ==
  ASSUME AppTypes, NEW t \in Threads, StepOf(t)
  PROVE  AppTypes'
<1> USE DEF AppTypes, recorder, locks, dvr, detection
<1>1. CASE Command(t) \/ UpdateStatus(t) \/ GiveUp(t)
  BY <1>1, CommandTypes
<1>2. CASE app_state_push(t)
  BY <1>2 DEF app_state_push
<1>3. CASE btn_press \/ rbtn_click
  BY <1>3 DEF btn_press, rbtn_click
<1>4. CASE ScanCard
  BY <1>4 DEF ScanCard
<1>5. CASE Detect
  <2>1. (card = "mounted") \in BOOLEAN
    OBVIOUS
  <2>2. enable' \in BOOLEAN /\ ready' \in BOOLEAN
    BY <1>5, <2>1 DEF Detect
  <2>3. UNCHANGED <<recorder, locks, dvr, appState, recordTimer, detReq, enableLast, initScan,
                    isFull, repairActive, card>>
    BY <1>5 DEF Detect
  <2> QED
    BY <2>2, <2>3
<1>6. CASE Settle
  <2>1. isFull' \in {FALSE} \cup {"full" \in Inputs} \/ UNCHANGED isFull
    BY <1>6, Zenon DEF Settle
  <2>4. isFull' \in BOOLEAN
    BY <2>1, FullTypes, Zenon
  <2>2. detReq' \in BOOLEAN /\ ready' \in BOOLEAN /\ initScan' \in BOOLEAN
    BY <1>6 DEF Settle
  <2>3. /\ enableLast' = enable
        /\ UNCHANGED <<recorder, locks, dvr, appState, recordTimer, enable, repairActive, card>>
    BY <1>6 DEF Settle
  <2> QED
    BY <2>2, <2>3, <2>4
<1>7. CASE Signal
  BY <1>7 DEF Signal
<1>8. CASE Level
  <2>1. isFull' \in BOOLEAN
    BY <1>8, FullTypes DEF Level
  <2>2. UNCHANGED <<recorder, locks, dvr, appState, recordTimer, enable, ready, detReq,
                    enableLast, initScan, repairActive, card>>
    BY <1>8 DEF Level
  <2> QED
    BY <2>1, <2>2
<1>9. CASE Note
  BY <1>9 DEF Note
<1>10. CASE Repair
  <2>1. repairActive' \in BOOLEAN
    BY <1>10 DEF Repair
  <2>2. UNCHANGED <<recorder, locks, dvr, appState, recordTimer, detection, card>>
    BY <1>10 DEF Repair
  <2> QED
    BY <2>1, <2>2
<1>11. CASE Await
  <2>1. repairActive' \in BOOLEAN
    BY <1>11 DEF Await
  <2>2. UNCHANGED <<recorder, locks, dvr, appState, recordTimer, detection, card>>
    BY <1>11 DEF Await
  <2> QED
    BY <2>1, <2>2
<1>12. CASE ScriptQuit
  <2>1. Post("quit")
    BY <1>12 DEF ScriptQuit
  <2>2. recording' \in BOOLEAN /\ says' \in BOOLEAN
    BY <2>1, RecorderTypes
  <2> QED
    BY <1>12, <2>2 DEF ScriptQuit
<1>13. CASE ScriptUmount
  BY <1>13 DEF ScriptUmount
<1>14. CASE ScriptMount
  BY <1>14 DEF ScriptMount
<1>15. CASE ScriptRestart
  <2>1. UNCHANGED recorder \/ Rec!Restart
    BY <1>15 DEF ScriptRestart
  <2>2. recording' \in BOOLEAN /\ says' \in BOOLEAN
    BY <2>1, RecorderTypes
  <2> QED
    BY <1>15, <2>2 DEF ScriptRestart
<1> QED
  BY <1>1, <1>2, <1>3, <1>4, <1>5, <1>6, <1>7, <1>8, <1>9, <1>10, <1>11, <1>12, <1>13, <1>14,
     <1>15 DEF StepOf

LEMMA Invariance == Spec => []DvrInv
<1>1. Init => DvrInv
  <2> SUFFICES ASSUME Init
               PROVE  DvrInv
    OBVIOUS
  <2>1. AppTypes
    BY DEF Init, AppTypes, Rec!Init
  <2>2. phase = "serving" /\ queue = <<>> /\ wanted = FALSE
    BY DEF Init, Rec!Init
  <2>3. RecorderPart /\ ~lastTold
    BY <2>2, EmptySeq DEF RecorderPart, lastTold, Rec!Phases
  <2>4. todo = [t \in Threads |-> <<>>] /\ dvrMutex = "none"
    BY DEF Init
  <2>5. Typed /\ \A t \in Threads : todo[t] = <<>>
    BY <2>4, EmptySeq DEF Typed
  <2>6. Threading
    BY <2>4, <2>5 DEF Threading, Holds, At, Threads
  <2>7. Session
    BY <2>3, <2>5 DEF Session, At, AboutToStop
  <2> QED
    BY <2>1, <2>3, <2>5, <2>6, <2>7 DEF DvrInv, Core
<1>2. DvrInv /\ [Next]_vars => DvrInv'
  <2> SUFFICES ASSUME Core, AppTypes, [Next]_vars
               PROVE  Core' /\ AppTypes'
    BY DEF DvrInv
  <2>1. ASSUME NEW t \in Threads, StepOf(t)
        PROVE  Core' /\ AppTypes'
    BY <2>1, StepKeeps, StepTypes
  <2>2. CASE Environment \/ esp32_handler_timeout \/ (\E fifth \in BOOLEAN : Tick(fifth))
    <3>1. Core'
      BY <2>2, EnvironmentKeeps
    <3>2. AppTypes'
      BY <2>2, RecorderTypes
         DEF AppTypes, Environment, Key, ChangeChannel, Card, SetRecState,
             esp32_handler_timeout, Tick, locks, dvr, detection
    <3> QED
      BY <3>1, <3>2
  <2>3. CASE Recorder(Rec!Serve)
    <3>1. Core'
      BY <2>3, QuietStill, CalmSteps DEF Recorder, locks, dvr, Core
    <3>2. AppTypes'
      BY <2>3, RecorderTypes DEF Recorder, AppTypes, locks, dvr, detection
    <3> QED
      BY <3>1, <3>2
  <2>4. CASE UNCHANGED vars
    <3>1. Core'
      BY <2>4, QuietStill, CalmSteps DEF vars, locks, dvr, Core
    <3>2. AppTypes'
      BY <2>4, RecorderTypes DEF vars, AppTypes, locks, dvr, detection
    <3> QED
      BY <3>1, <3>2
  <2> QED
    BY <2>1, <2>2, <2>3, <2>4 DEF Next
<1> QED
  BY <1>1, <1>2, PTL DEF Spec

(* Every variable of the app, the queue and the threads keeps its type;    *)
(* no handler leaves a step behind that nobody runs.                       *)
THEOREM TypeCorrect == Spec => []TypeOK
BY Invariance, Implied, PTL

(* Nobody is recorded behind the app's back: whichever threads ran dvr_cmd,*)
(* dvr_update_status, system_script or the repair in whatever order, while *)
(* dvr_is_recording is false and dvr_mutex free the recorder's last        *)
(* command is to stop (core/dvr.c).                                        *)
THEOREM NobodyOrphaned == Spec => []NoOrphan
BY Invariance, Implied, PTL

(* dvr_mutex is held by the thread whose next step releases it or goes on  *)
(* under it, so no call of dvr_cmd returns with it, or runs beside another.*)
THEOREM MutexReturned ==
  Spec => [](/\ \A t \in Threads : todo[t] = <<>> => dvrMutex # t
             /\ \A t, u \in Threads : Holds(t) /\ Holds(u) => t = u)
<1>1. DvrInv => /\ \A t \in Threads : todo[t] = <<>> => dvrMutex # t
                /\ \A t, u \in Threads : Holds(t) /\ Holds(u) => t = u
  BY DEF DvrInv, Core, Threading, Holds, At
<1> QED
  BY <1>1, Invariance, PTL
=============================================================================
