------------------------------ MODULE AvShare ------------------------------
(***************************************************************************)
(* The live stream from the recorder process to rtspLive: a ring of slots  *)
(* in shared memory without a lock. record/avshare.c and record/main.c     *)
(* write, rtspLive/stream/avshare.c reads. Slots belong to the writer or   *)
(* to the reader by their wflag, each side keeps its own index, and one    *)
(* byte says whether a client is there.                                    *)
(*                                                                         *)
(* The data of a slot is its place in its frame; the reader's buffer may   *)
(* be full after any slot. Only the video ring is used (audio is compiled  *)
(* out in avshare_addaud).                                                 *)
(***************************************************************************)
EXTENDS Naturals, Sequences, FiniteSets

CONSTANTS
  Slots,       \* SHAREBUF_COUNT
  MaxParts,    \* how many slots a frame may need
  Faults       \* what may go wrong, a subset of FaultKinds

(* "preempted": the reader loses the processor in the middle of a search,  *)
(* for so long that the writer, which copies a part for each slot that the *)
(* reader looks at, overtakes it.                                          *)
FaultKinds == {"preempted"}

ASSUME AvShareAssumption ==
  /\ Slots \in Nat \ {0} /\ MaxParts \in Nat \ {0} /\ Faults \subseteq FaultKinds

VARIABLES
  connect,     \* ptrConnect[0]
  slot,        \* what each slot holds
  (* the recorder process: *)
  write,       \* its idxNext[0]
  adding,      \* the frames that the frame callback still has to add
  rest,        \* the parts that avshare_add still has to put
  picked,      \* pStreamHead, which it has found free for the first of them
  dropped,     \* iDropped > 0
  live,        \* the live encoder: see Phase
  first,       \* nbFramesLive = 0
  (* rtspLive: *)
  source,      \* H264FramedLiveSource: "closed", "reset", or "open"
  read,        \* its idxNext[0]
  mode,        \* avshare_readFrame: "idle", "search", or "copy"
  cursor,      \* and its idxBuf
  (* history, for the promise: *)
  kept,        \* the client is given what AvStream promises
  gap, prev

callback == <<adding, rest, picked>>
writer == <<write, callback, dropped, live, first>>
reader == <<read, mode, cursor>>
history == <<kept, gap, prev>>
vars == <<connect, slot, writer, source, reader, history>>

Index == 0 .. Slots - 1
NoSlot == Slots
nextUnwrapped(i) == i + 1          \* mutant: without the modulus
next(i) == (i + 1) % Slots
Part == [kind : {"sps", "I", "P"}, pos : {"begin", "middle", "end", "whole"}]
free == [kind |-> "free", pos |-> "free"]        \* its wflag is 1
torn == [kind |-> "torn", pos |-> "torn"]        \* its header and its data differ
Nothing == [kind |-> "none", pos |-> "none"]
Frame == [kind : {"sps", "I", "P"}, parts : 1 .. MaxParts]

(* "starting": live_start has not cleared nbFramesLive yet; "begun": nor   *)
(* has it, and a frame has come already; "stopping": vi2venc_stop waits.   *)
Phase == {"off", "starting", "begun", "on", "stopping"}

TypeOK ==
  /\ connect \in BOOLEAN /\ slot \in [Index -> Part \cup {free, torn}]
  /\ write \in Index /\ adding \in Seq(Frame) /\ rest \in Seq(Part)
  /\ picked \in Index \cup {NoSlot}
  /\ dropped \in BOOLEAN /\ live \in Phase /\ first \in BOOLEAN
  /\ source \in {"closed", "reset", "open"}
  /\ read \in Index /\ mode \in {"idle", "search", "copy"} /\ cursor \in Index
  /\ kept \in BOOLEAN /\ gap \in BOOLEAN /\ prev \in Part \cup {torn, Nothing}

Init ==
  /\ connect = FALSE /\ slot = [i \in Index |-> free]
  /\ write = 0 /\ adding = <<>> /\ rest = <<>> /\ picked = NoSlot /\ dropped = FALSE
  /\ live = "off" /\ first = TRUE
  /\ source = "closed" /\ read = 0 /\ mode = "idle" /\ cursor = 0
  /\ kept = FALSE /\ gap = TRUE /\ prev = Nothing
-----------------------------------------------------------------------------
(* vvLive_onFrame. The first frame has to be an I frame, for which the     *)
(* parameter sets can be had; an encoder begins with an I frame, whatever  *)
(* the number says. The callback counts the frame at its end.              *)
idle == adding = <<>> /\ rest = <<>>

OnFrame(frame) ==
  /\ live \in {"starting", "begun", "on"} /\ idle
  /\ \/ first /\ gap' = TRUE /\ UNCHANGED <<adding, live, first>>
     \/ /\ first \/ live = "starting" => frame.kind = "I"
        /\ adding' = (IF frame.kind = "I" THEN <<[kind |-> "sps", parts |-> 1]>> ELSE <<>>)
                       \o <<frame>>
        /\ first' = FALSE /\ live' = (IF live = "starting" THEN "begun" ELSE live)
        /\ UNCHANGED gap
  /\ UNCHANGED <<connect, slot, write, rest, picked, dropped, source, reader, kept, prev>>

(* avshare_addvid: once a frame was dropped everything is, up to an I frame.*)
partsOf(frame) ==
  [i \in 1 .. frame.parts |->
     [kind |-> frame.kind,
      pos |-> IF frame.parts = 1 THEN "whole"
              ELSE IF i = 1 THEN "begin" ELSE IF i = frame.parts THEN "end" ELSE "middle"]]

(* Mutants: a frame is added though the one before it was dropped, and     *)
(* after a drop not even an I frame is.                                    *)
AddvidAnyway ==
  /\ adding # <<>> /\ rest = <<>> /\ adding' = Tail(adding)
  /\ rest' = partsOf(Head(adding)) /\ dropped' = FALSE
  /\ UNCHANGED <<connect, slot, write, picked, live, first, source, reader, history>>

AddvidNever ==
  /\ adding # <<>> /\ rest = <<>> /\ adding' = Tail(adding)
  /\ IF dropped THEN gap' = TRUE /\ UNCHANGED rest
     ELSE rest' = partsOf(Head(adding)) /\ UNCHANGED gap
  /\ UNCHANGED <<connect, slot, write, picked, dropped, live, first, source, reader, kept, prev>>

avshare_addvid ==
  /\ adding # <<>> /\ rest = <<>> /\ adding' = Tail(adding)
  /\ IF dropped /\ Head(adding).kind # "I"
     THEN gap' = TRUE /\ UNCHANGED <<rest, dropped>>
     ELSE rest' = partsOf(Head(adding)) /\ dropped' = FALSE /\ UNCHANGED gap
  /\ UNCHANGED <<connect, slot, write, picked, live, first, source, reader, kept, prev>>

(* The loop of avshare_add: it looks at the connection and at the slot, of *)
(* which it keeps the head. History: a client who came too soon is given   *)
(* what AvStream promises from the first parameter sets on that find the   *)
(* ring empty and both sides at the same slot.                             *)
empty == \A i \in Index : slot[i] = free
caughtUp == ~kept /\ Head(rest).kind = "sps" /\ empty /\ write = read

avshare_add ==
  /\ rest # <<>> /\ picked = NoSlot
  /\ IF connect /\ slot[write] = free
     THEN /\ picked' = write /\ UNCHANGED <<write, rest, dropped>>
          /\ IF caughtUp THEN kept' = TRUE /\ gap' = TRUE /\ prev' = Nothing
                         ELSE UNCHANGED history
     ELSE /\ rest' = <<>> /\ gap' = TRUE /\ UNCHANGED <<picked, kept, prev>>
          /\ write' = IF connect THEN write ELSE 0
          /\ dropped' = (dropped \/ connect)
  /\ UNCHANGED <<connect, slot, adding, live, first, source, reader>>

(* ... copies the data to the buffer of its index as it is now, which may  *)
(* have been reset, and hands the slot over. While the reader searches it  *)
(* copies no more parts than the reader looks at slots.                    *)
Publish ==
  /\ picked # NoSlot
  /\ (mode = "search" /\ picked = cursor => empty) \/ "preempted" \in Faults
  /\ \E to \in {picked, write} :
       slot' = [i \in Index |->
                  IF i = picked THEN IF to = picked THEN Head(rest) ELSE torn
                  ELSE IF i = to /\ slot[i] # free THEN torn ELSE slot[i]]
  /\ write' = next(write) /\ rest' = Tail(rest) /\ picked' = NoSlot
  /\ prev' = slot'[picked] /\ gap' = (gap /\ Head(rest).kind # "I")
  /\ UNCHANGED <<connect, adding, dropped, live, first, source, reader, kept>>
-----------------------------------------------------------------------------
(* live_run, from the main loop: the encoder runs while a client is there, *)
(* and avshare_connected starts over at slot 0 when there is none. A       *)
(* live_start that fails leaves nothing behind.                            *)
live_run ==
  /\ \/ /\ connect /\ live = "off"
        /\ live' = "starting" /\ gap' = TRUE /\ UNCHANGED write
     \/ /\ ~connect /\ live \in {"off", "on"}
        /\ write' = 0 /\ live' = (IF live = "on" THEN "stopping" ELSE live)
        /\ UNCHANGED gap
  /\ UNCHANGED <<connect, slot, callback, dropped, first, source, reader, kept, prev>>

(* It clears nbFramesLive while the encoder runs already: a callback that  *)
(* has begun may count its frame before or after that.                     *)
LiveStarted ==
  /\ live \in {"starting", "begun"} /\ live' = "on"
  /\ first' \in IF live = "starting" THEN {TRUE} ELSE IF idle THEN BOOLEAN ELSE {FALSE}
  /\ UNCHANGED <<connect, slot, write, callback, dropped, source, reader, history>>

(* LIVE_cmdSTOP, when the video input changes.                             *)
LIVE_cmdSTOP ==
  /\ live = "on" /\ live' = "stopping"
  /\ UNCHANGED <<connect, slot, write, callback, dropped, first, source, reader, history>>

(* vi2venc_stop returns once the encoder's thread has left its callback.   *)
Joined ==
  /\ live = "stopping" /\ idle /\ live' = "off"
  /\ UNCHANGED <<connect, slot, write, callback, dropped, first, source, reader, history>>
-----------------------------------------------------------------------------
(* A source is created: avshare_start, of which avshare_init empties the   *)
(* ring, and avshare_connect then sets the byte. The writer has noticed    *)
(* that the client before him is gone, or has not.                         *)
settled == live = "off" /\ write = 0 /\ empty

avshare_init ==
  /\ source = "closed" /\ source' = "reset"
  /\ connect' = FALSE /\ slot' = [i \in Index |-> free] /\ read' = 0
  /\ UNCHANGED <<writer, mode, cursor, history>>

avshare_connect ==
  /\ source = "reset" /\ source' = "open" /\ connect' = TRUE
  /\ kept' = settled /\ gap' = TRUE /\ prev' = Nothing
  /\ UNCHANGED <<slot, writer, reader>>

(* It is deleted, by the thread that reads: avshare_stop. The flags that   *)
(* avshare_disconnect raises are those of the audio ring.                  *)
avshare_stop ==
  /\ source = "open" /\ mode = "idle" /\ source' = "closed" /\ connect' = FALSE
  /\ kept' = FALSE /\ UNCHANGED <<slot, writer, reader, gap, prev>>

(* avshare_readFrame: if there is nothing at its index, it searches the    *)
(* ring for a slot that is not free;                                       *)
ReadFrame ==
  /\ source = "open" /\ mode = "idle"
  /\ IF slot[read] = free THEN mode' = "search" /\ cursor' = next(read)
                           ELSE mode' = "copy" /\ cursor' = read
  /\ UNCHANGED <<connect, slot, writer, source, read, history>>

Search ==
  /\ mode = "search"
  /\ IF slot[cursor] # free THEN mode' = "copy" /\ UNCHANGED cursor
     ELSE IF cursor = read THEN mode' = "idle" /\ UNCHANGED cursor
     ELSE cursor' = next(cursor) /\ UNCHANGED mode
  /\ UNCHANGED <<connect, slot, writer, source, read, history>>

(* from there it takes slots until the next is free or its buffer is full. *)
Copy(full) ==
  /\ mode = "copy"
  /\ slot' = [slot EXCEPT ![cursor] = free] /\ cursor' = next(cursor)
  /\ IF full \/ slot'[cursor'] = free THEN mode' = "idle" /\ read' = cursor'
                                        ELSE UNCHANGED <<mode, read>>
  /\ UNCHANGED <<connect, writer, source, history>>
-----------------------------------------------------------------------------
Encoder ==
  \/ (\E kind \in {"I", "P"}, n \in 1 .. MaxParts : OnFrame([kind |-> kind, parts |-> n]))
  \/ avshare_addvid \/ avshare_add \/ Publish

Reader == ReadFrame \/ Search \/ (\E full \in BOOLEAN : Copy(full))

Next ==
  \/ Encoder \/ live_run \/ LiveStarted \/ LIVE_cmdSTOP \/ Joined
  \/ avshare_init \/ avshare_connect \/ avshare_stop \/ Reader

Spec == Init /\ [][Next]_vars

(* Both loops go on, the encoder produces an I frame again and again and   *)
(* gets its parameter sets, and no search lasts.                           *)
KeyFrame(n) == OnFrame([kind |-> "I", parts |-> n]) /\ first' = FALSE

FairSpec ==
  /\ Spec
  /\ SF_vars(live_run) /\ WF_vars(LiveStarted) /\ WF_vars(Joined)
  /\ SF_vars(\E n \in 1 .. MaxParts : KeyFrame(n))
  /\ WF_vars(avshare_addvid) /\ WF_vars(avshare_add) /\ SF_vars(Publish)
  /\ WF_vars(ReadFrame) /\ WF_vars(Search) /\ WF_vars(\E full \in BOOLEAN : Copy(full))
-----------------------------------------------------------------------------
(* The ring implements the stream: what waits are the slots from the       *)
(* reader's index on, as many as are not free. The writer's index, the     *)
(* reader's and the flags are three accounts of the same thing, kept by    *)
(* two processes that agree on none of them (record/avshare.c:202-269,     *)
(* rtspLive/stream/avshare.c:415-486): what is lost is lost up to the next *)
(* I frame, nothing is passed twice, torn or in another order, across full *)
(* rings and restarts of the encoder. It is promised from the beginning to *)
(* a client who comes when the recorder has noticed that the last one is   *)
(* gone, and to any other from the parameter sets on that find him caught  *)
(* up; what he is given before that is BegunAnew's question.               *)
anchor == IF mode = "copy" THEN cursor ELSE read
waiting == Cardinality({i \in Index : slot[i] # free})

Stream == INSTANCE AvStream WITH
  Capacity <- Slots,
  client <- kept,
  pipe <- IF kept THEN [i \in 1 .. waiting |-> slot[(anchor + i - 1) % Slots]] ELSE <<>>,
  gap <- gap \/ ~kept,
  prev <- IF kept THEN prev ELSE Nothing

StreamKept == Stream!Spec

(* The first part that a client is given begins what can be decoded: the   *)
(* pause of avshare_disconnect is to make sure that the writer does not go *)
(* on and starts over (rtspLive/stream/avshare.c:403). The pause is 100 us,*)
(* the recorder looks every 100 ms, and the next source comes as soon as   *)
(* the client's next request.                                              *)
BegunAnew ==
  [][prev = Nothing /\ prev' # Nothing /\ connect => prev'.kind # "P"]_vars

(* As long as somebody watches the picture moves: the live encoder comes   *)
(* back after each change of the video input (record/main.c:957-971), and  *)
(* neither a full ring nor the wait for an I frame is for ever.            *)
StreamFlows == <>[](source = "open") => []<>(mode = "copy")
=============================================================================
