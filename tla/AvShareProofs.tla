--------------------------- MODULE AvShareProofs ---------------------------
(***************************************************************************)
(* The ring of the live stream implements AvStream, for every number of    *)
(* slots and every length of the frames, as long as the writer does not    *)
(* overtake a search of the reader (Faults = {}).                          *)
(*                                                                         *)
(* The writer and the reader agree on nothing; what they rely on are the   *)
(* three accounts of the same ring. The invariant says that they tally:    *)
(* from the reader's index on as many slots are full as there are parts    *)
(* under way, and the writer's index is where they end. Beside it stands   *)
(* what the writer still has to put: it may follow what went in last.      *)
(***************************************************************************)
EXTENDS AvShare, FiniteSetTheorems, SequenceTheorems, TLAPS

(* What a slot may hold.                                                   *)
Item == Part \cup {free, torn}

(* The slot that is the k-th after the slot i.                             *)
place(i, k) == (i + k) % Slots

(* From i on w slots are full, and the others are free.                    *)
Full(slots, i, w) == \A k \in 0 .. Slots - 1 : slots[place(i, k)] # free <=> k < w

(* ... and the writer's index is behind them.                              *)
Holding(w) == Full(slot, anchor, w) /\ write = place(anchor, w)

(* The ring of a client who is kept. A search at the c-th slot from the    *)
(* reader's index has the full ones behind it, or has come round.          *)
Ring ==
  kept =>
    /\ \E w \in 0 .. Slots :
         /\ Holding(w)
         /\ mode = "search" => \E c \in 1 .. Slots : cursor = place(read, c) /\ w <= c
    /\ picked # NoSlot => picked = write /\ slot[write] = free

(* Who is running when.                                                    *)
Stages ==
  /\ connect = (source = "open") /\ (kept => connect)
  /\ source # "open" => mode = "idle"
  /\ source = "reset" => read = 0
  /\ live \in {"off", "starting"} \/ first => idle
  /\ live = "begun" => ~first
  /\ picked # NoSlot => rest # <<>>
  /\ mode = "copy" => slot[cursor] # free

(* The rest of a frame.                                                    *)
RestOfFrame ==
  /\ \A i \in 1 .. Len(rest) :
       /\ rest[i].kind = rest[1].kind
       /\ i > 1 => rest[i].pos \in {"middle", "end"}
       /\ rest[i].pos \in IF i = Len(rest) THEN {"end", "whole"} ELSE {"begin", "middle"}
  /\ rest # <<>> /\ rest[1].kind = "sps" => Len(rest) = 1 /\ rest[1].pos = "whole"

(* The parameter sets go with the I frame they announce.                   *)
Announced == Len(adding) = 1 /\ adding[1].kind = "I"

Callback ==
  /\ RestOfFrame
  /\ adding = <<>> \/ Announced
       \/ (rest = <<>> /\ Len(adding) = 1 /\ adding[1].kind = "P")
       \/ (rest = <<>> /\ Len(adding) = 2 /\ adding[1].kind = "sps" /\ adding[1].parts = 1
           /\ adding[2].kind = "I")
  /\ rest # <<>> => (Announced <=> rest[1].kind = "sps")

(* AvStream's mayFollow, in the ring's variables.                          *)
MayFollow(p) ==
  IF p.pos \in {"middle", "end"}
  THEN ~gap /\ prev.kind = p.kind /\ prev.pos \in {"begin", "middle"}
  ELSE IF gap THEN p.kind # "P" ELSE prev.pos \in {"end", "whole"}

(* What the writer does next fits what has been lost: nothing but an I     *)
(* frame, or what announces it, is on its way after a gap.                 *)
Fits ==
  kept =>
    /\ IF rest # <<>> THEN MayFollow(rest[1])
                      ELSE ~gap => prev.pos \in {"end", "whole"}
    /\ gap /\ idle => live \in {"off", "starting", "stopping"} \/ first \/ dropped
    /\ gap /\ Len(adding) = 1 /\ adding[1].kind = "P" => dropped

Flow == Stages /\ Callback /\ Fits

RingInv == TypeOK /\ Flow /\ Ring
-----------------------------------------------------------------------------
(* Indices go round the ring.                                              *)
LEMMA Modulo ==
  /\ \A i \in Index, k \in 0 .. Slots :
       (i + k) % Slots = IF i + k < Slots THEN i + k ELSE i + k - Slots
  /\ \A i \in Index : next(i) = IF i + 1 < Slots THEN i + 1 ELSE 0
  /\ \A i \in Index : next(i) \in Index
  /\ 0 \in Index
<1> USE AvShareAssumption
<1>1. \A n \in 0 .. Slots - 1 : n % Slots = n
  OBVIOUS
<1>2. \A n \in Slots .. 2 * Slots - 1 : n % Slots = n - Slots
  <2> SUFFICES ASSUME NEW n \in Slots .. 2 * Slots - 1
               PROVE  n % Slots = n - Slots
    OBVIOUS
  <2> DEFINE q == n \div Slots
             r == n % Slots
  <2>1. q \in Int /\ r \in 0 .. Slots - 1 /\ n = Slots * q + r
    OBVIOUS
  <2> HIDE DEF q, r
  <2>2. ASSUME q <= 0
        PROVE  FALSE
    <3>1. Slots * q <= 0
      BY <2>1, <2>2
    <3> QED
      BY <2>1, <3>1
  <2>3. ASSUME q >= 2
        PROVE  FALSE
    <3>1. Slots * q >= Slots * 2
      BY <2>1, <2>3
    <3> QED
      BY <2>1, <3>1
  <2>4. q = 1
    BY <2>1, <2>2, <2>3
  <2>5. r = n - Slots
    BY <2>1, <2>4
  <2> QED
    BY <2>5 DEF r
<1>3. \A i \in Index, k \in 0 .. Slots :
        (i + k) % Slots = IF i + k < Slots THEN i + k ELSE i + k - Slots
  BY <1>1, <1>2 DEF Index
<1>4. 1 \in 0 .. Slots /\ 0 \in Index
  BY DEF Index
<1>5. \A i \in Index : next(i) = IF i + 1 < Slots THEN i + 1 ELSE 0
  <2>1. \A i \in Index : next(i) = IF i + 1 < Slots THEN i + 1 ELSE i + 1 - Slots
    BY <1>3, <1>4 DEF next
  <2>2. \A i \in Index : i + 1 < Slots \/ i + 1 - Slots = 0
    BY DEF Index
  <2> QED
    BY <2>1, <2>2
<1>6. \A i \in Index : next(i) \in Index
  BY <1>5 DEF Index
<1> QED
  BY <1>3, <1>4, <1>5, <1>6

(* The parts of a frame are what RestOfFrame says.                         *)
LEMMA PartsOfFrame ==
  ASSUME NEW frame \in Frame
  PROVE  /\ partsOf(frame) \in Seq(Part) /\ partsOf(frame) # <<>>
         /\ Len(partsOf(frame)) = frame.parts
         /\ \A i \in 1 .. frame.parts :
              /\ partsOf(frame)[i].kind = frame.kind
              /\ i > 1 => partsOf(frame)[i].pos \in {"middle", "end"}
              /\ i = 1 => partsOf(frame)[i].pos \in {"begin", "whole"}
              /\ partsOf(frame)[i].pos \in IF i = frame.parts THEN {"end", "whole"}
                                                               ELSE {"begin", "middle"}
<1> DEFINE pos(i) == IF frame.parts = 1 THEN "whole"
                     ELSE IF i = 1 THEN "begin" ELSE IF i = frame.parts THEN "end" ELSE "middle"
           part(i) == [kind |-> frame.kind, pos |-> pos(i)]
<1>1. frame.parts \in 1 .. MaxParts /\ frame.parts \in Nat \ {0} /\ frame.kind \in {"sps", "I", "P"}
  BY AvShareAssumption DEF Frame
<1>2. \A i \in 1 .. frame.parts : pos(i) \in {"begin", "middle", "end", "whole"}
  OBVIOUS
<1>3. \A i \in 1 .. frame.parts : part(i) \in Part
  BY <1>1, <1>2 DEF Part
<1>4. partsOf(frame) = [i \in 1 .. frame.parts |-> part(i)]
  BY DEF partsOf
<1>5. partsOf(frame) \in [1 .. frame.parts -> Part]
  BY <1>3, <1>4
<1>6. partsOf(frame) \in Seq(Part) /\ Len(partsOf(frame)) = frame.parts
  BY <1>1, <1>5
<1>7. partsOf(frame) # <<>>
  BY <1>1, <1>6, EmptySeq
<1>8. \A i \in 1 .. frame.parts :
        /\ partsOf(frame)[i].kind = frame.kind
        /\ partsOf(frame)[i].pos = pos(i)
  BY <1>4
<1>9. \A i \in 1 .. frame.parts :
        /\ i > 1 => pos(i) \in {"middle", "end"}
        /\ i = 1 => pos(i) \in {"begin", "whole"}
        /\ pos(i) \in IF i = frame.parts THEN {"end", "whole"} ELSE {"begin", "middle"}
  BY <1>1
<1> HIDE DEF part, pos
<1> QED
  BY <1>6, <1>7, <1>8, <1>9

LEMMA ConsTypes ==
  \A S : \A s \in Seq(S) : s # <<>> => Head(s) \in S /\ Tail(s) \in Seq(S)
BY HeadTailProperties

(* Every variable keeps its type: the indices stay in the ring though both *)
(* sides only ever add one to them.                                        *)
LEMMA Types == TypeOK /\ (picked # NoSlot => rest # <<>>) /\ [Next]_vars
                 => TypeOK' /\ (picked # NoSlot => rest # <<>>)'
<1> SUFFICES ASSUME TypeOK, picked # NoSlot => rest # <<>>, [Next]_vars
             PROVE  TypeOK' /\ (picked # NoSlot => rest # <<>>)'
  OBVIOUS
<1> USE DEF TypeOK, writer, callback, reader, history
<1>1. \A f \in Frame : partsOf(f) \in Seq(Part)
  BY PartsOfFrame
<1>2. \A s \in Seq(Part) : s # <<>> => Head(s) \in Part /\ Tail(s) \in Seq(Part)
  BY ConsTypes
<1>3. \A s \in Seq(Frame) : s # <<>> => Head(s) \in Frame /\ Tail(s) \in Seq(Frame)
  BY ConsTypes
<1>4. <<>> \in Seq(Part) /\ 0 \in Index
  BY EmptySeq, Modulo
<1>5. CASE \E kind \in {"I", "P"}, n \in 1 .. MaxParts : OnFrame([kind |-> kind, parts |-> n])
  <2>1. PICK kind \in {"I", "P"}, n \in 1 .. MaxParts : OnFrame([kind |-> kind, parts |-> n])
    BY <1>5
  <2> DEFINE frame == [kind |-> kind, parts |-> n]
             sps == [kind |-> "sps", parts |-> 1]
  <2>2. frame \in Frame /\ sps \in Frame
    BY AvShareAssumption DEF Frame
  <2>3. OnFrame(frame)
    BY <2>1
  <2> HIDE DEF frame
  <2>4. (IF frame.kind = "I" THEN <<sps>> ELSE <<>>) \o <<frame>> \in Seq(Frame)
    BY <2>2
  <2>5. adding' \in Seq(Frame) /\ first' \in BOOLEAN /\ gap' \in BOOLEAN /\ live' \in Phase
    BY <2>3, <2>4 DEF OnFrame, Phase
  <2>6. UNCHANGED <<connect, slot, write, rest, picked, dropped, source, reader, kept, prev>>
    BY <2>3 DEF OnFrame
  <2> QED
    BY <2>5, <2>6
<1>6. CASE avshare_addvid
  BY <1>1, <1>3, <1>6 DEF avshare_addvid
<1>7. CASE avshare_add
  <2>1. /\ write' \in Index /\ rest' \in Seq(Part) /\ gap' \in BOOLEAN /\ kept' \in BOOLEAN
        /\ picked' \in Index \cup {NoSlot} /\ prev' \in Part \cup {torn, Nothing}
    BY <1>4, <1>7 DEF avshare_add
  <2>2. dropped' \in BOOLEAN /\ (picked' # NoSlot => rest' # <<>>)
    BY <1>7 DEF avshare_add
  <2>3. UNCHANGED <<connect, slot, adding, live, first, source, reader>>
    BY <1>7 DEF avshare_add
  <2> QED
    BY <2>1, <2>2, <2>3
<1>8. CASE Publish
  <2>1. Head(rest) \in Part /\ Tail(rest) \in Seq(Part) /\ next(write) \in Index
    BY <1>2, <1>8, Modulo DEF Publish
  <2>2. write' \in Index /\ rest' \in Seq(Part) /\ picked' = NoSlot
    BY <1>8, <2>1 DEF Publish
  <2>3. picked \in Index
    BY <1>8 DEF Publish
  <2>4. PICK to \in {picked, write} :
          slot' = [i \in Index |->
                     IF i = picked THEN IF to = picked THEN Head(rest) ELSE torn
                     ELSE IF i = to /\ slot[i] # free THEN torn ELSE slot[i]]
    BY <1>8 DEF Publish
  <2>5. slot' \in [Index -> Part \cup {free, torn}]
    BY <2>1, <2>4
  <2>6. slot'[picked] \in Part \cup {torn}
    BY <2>1, <2>3, <2>4
  <2>7. (gap /\ Head(rest).kind # "I") \in BOOLEAN
    OBVIOUS
  <2>8. gap' = (gap /\ Head(rest).kind # "I") /\ prev' = slot'[picked]
    BY <1>8 DEF Publish
  <2>9. gap' \in BOOLEAN /\ prev' \in Part \cup {torn, Nothing}
    BY <2>6, <2>7, <2>8
  <2>10. UNCHANGED <<connect, adding, dropped, live, first, source, reader, kept>>
    BY <1>8 DEF Publish
  <2> QED
    BY <2>2, <2>5, <2>9, <2>10
<1>9. CASE live_run
  BY <1>4, <1>9 DEF live_run, Phase
<1>18. CASE LiveStarted
  BY <1>18 DEF LiveStarted, Phase
<1>10. CASE LIVE_cmdSTOP \/ Joined
  BY <1>10 DEF LIVE_cmdSTOP, Joined, Phase
<1>11. CASE avshare_init
  BY <1>4, <1>11 DEF avshare_init
<1>12. CASE avshare_connect
  <2>1. settled \in BOOLEAN
    BY DEF settled
  <2> QED
    BY <1>12, <2>1 DEF avshare_connect
<1>13. CASE avshare_stop
  BY <1>13 DEF avshare_stop
<1>14. CASE ReadFrame
  BY <1>14, Modulo DEF ReadFrame
<1>15. CASE Search
  BY <1>15, Modulo DEF Search
<1>16. ASSUME NEW full \in BOOLEAN, Copy(full)
       PROVE  TypeOK' /\ (picked # NoSlot => rest # <<>>)'
  BY <1>16, Modulo DEF Copy
<1>17. CASE UNCHANGED vars
  BY <1>17 DEF vars
<1> QED
  BY <1>5, <1>6, <1>7, <1>8, <1>9, <1>10, <1>11, <1>12, <1>13, <1>14, <1>15, <1>16, <1>17,
     <1>18 DEF Next, Encoder, Reader

LEMMA TypesInvariant == Spec => [](TypeOK /\ (picked # NoSlot => rest # <<>>))
<1>1. Init => TypeOK /\ (picked # NoSlot => rest # <<>>)
  BY Modulo, EmptySeq DEF Init, TypeOK, Phase
<1> QED
  BY <1>1, Types, PTL DEF Spec
-----------------------------------------------------------------------------
(* Sequences, element by element.                                          *)
LEMMA Sequence ==
  ASSUME NEW S, NEW s \in Seq(S)
  PROVE  /\ Len(s) \in Nat /\ (s = <<>> <=> Len(s) = 0)
         /\ s # <<>> => /\ Head(s) = s[1] /\ s[1] \in S /\ Tail(s) \in Seq(S)
                        /\ Len(Tail(s)) = Len(s) - 1
                        /\ \A i \in 1 .. Len(s) - 1 : Tail(s)[i] = s[i + 1]
<1>1. Len(s) \in Nat
  BY LenProperties
<1>2. s = <<>> <=> Len(s) = 0
  BY EmptySeq
<1>3. s # <<>> => /\ Tail(s) \in Seq(S) /\ Len(Tail(s)) = Len(s) - 1
                  /\ \A i \in 1 .. Len(s) - 1 : Tail(s)[i] = s[i + 1]
  BY HeadTailProperties
<1>4. s # <<>> => s[1] \in S
  BY <1>1, <1>2, ElementOfSeq
<1>5. s # <<>> => Head(s) = s[1]
  OBVIOUS
<1> QED
  BY <1>1, <1>2, <1>3, <1>4, <1>5

(* Whatever happens each side stays where it may be.                       *)
LEMMA StagesKept ==
  ASSUME TypeOK, Stages, Next
  PROVE  Stages'
<1> USE DEF Stages, idle, callback, writer, reader, history
<1>0. Len(rest) \in Nat /\ (picked # NoSlot => picked \in Index) /\ cursor \in Index
  BY LenProperties DEF TypeOK
<1>1. ASSUME NEW kind \in {"I", "P"}, NEW n \in 1 .. MaxParts,
             OnFrame([kind |-> kind, parts |-> n])
      PROVE  Stages'
  BY <1>1 DEF OnFrame
<1>2. CASE avshare_addvid
  BY <1>2 DEF avshare_addvid
<1>3. CASE avshare_add
  <2>1. UNCHANGED <<connect, slot, adding, live, first, source, reader>> /\ rest # <<>>
    BY <1>3 DEF avshare_add
  <2>2. ~(live \in {"off", "starting"} \/ first)
    BY <2>1
  <2>3. (kept' => connect) /\ (picked' # NoSlot => rest' # <<>>)
    BY <1>3 DEF avshare_add
  <2> QED
    BY <2>1, <2>2, <2>3
<1>4. CASE Publish
  <2>1. /\ UNCHANGED <<connect, adding, dropped, live, first, source, reader, kept>>
        /\ rest # <<>> /\ picked' = NoSlot /\ picked \in Index
    BY <1>0, <1>4 DEF Publish
  <2>2. Head(rest) # free
    BY <2>1, ConsTypes DEF TypeOK, Part, free
  <2>3. slot[cursor] # free => slot'[cursor] # free
    BY <1>0, <1>4, <2>1, <2>2 DEF Publish, free, torn
  <2>4. ~(live \in {"off", "starting"} \/ first)
    BY <2>1
  <2> QED
    BY <2>1, <2>3, <2>4
<1>5. CASE live_run
  <2>1. UNCHANGED <<connect, slot, adding, rest, picked, first, source, reader, kept>>
    BY <1>5 DEF live_run
  <2>2. live' = live \/ (live = "off" /\ live' = "starting") \/ (live' = "stopping" /\ live = "on")
    BY <1>5 DEF live_run
  <2> QED
    BY <2>1, <2>2
<1>6. CASE LiveStarted
  BY <1>6 DEF LiveStarted
<1>7. CASE LIVE_cmdSTOP \/ Joined
  BY <1>7 DEF LIVE_cmdSTOP, Joined
<1>8. CASE avshare_init
  BY <1>8 DEF avshare_init
<1>9. CASE avshare_connect
  BY <1>9 DEF avshare_connect
<1>10. CASE avshare_stop
  BY <1>10 DEF avshare_stop
<1>11. CASE ReadFrame
  BY <1>11 DEF ReadFrame
<1>12. CASE Search
  BY <1>12 DEF Search
<1>13. ASSUME NEW full \in BOOLEAN, Copy(full)
       PROVE  Stages'
  BY <1>13 DEF Copy
<1> QED
  BY <1>1, <1>2, <1>3, <1>4, <1>5, <1>6, <1>7, <1>8, <1>9, <1>10, <1>11, <1>12, <1>13
     DEF Next, Encoder, Reader

(* What a frame callback adds, and what is left of it after a part.        *)
LEMMA Added ==
  ASSUME NEW frame \in Frame, frame.kind \in {"I", "P"}, NEW steps,
         steps = (IF frame.kind = "I" THEN <<[kind |-> "sps", parts |-> 1]>> ELSE <<>>)
                    \o <<frame>>
  PROVE  /\ steps # <<>> /\ Len(steps) = IF frame.kind = "I" THEN 2 ELSE 1
         /\ frame.kind = "P" => steps[1] = frame
         /\ frame.kind = "I" => steps[1] = [kind |-> "sps", parts |-> 1] /\ steps[2] = frame
<1>1. CASE frame.kind = "I"
  BY <1>1
<1>2. CASE frame.kind = "P"
  BY <1>2
<1> QED
  BY <1>1, <1>2

LEMMA RestKept ==
  ASSUME NEW s \in Seq(Part), s # <<>>, rest = s, RestOfFrame, rest' = Tail(s)
  PROVE  RestOfFrame'
<1>1. /\ Len(s) \in Nat \ {0} /\ Len(rest') = Len(s) - 1
      /\ \A i \in 1 .. Len(s) - 1 : rest'[i] = s[i + 1]
      /\ rest' = <<>> <=> Len(s) = 1
  <2>1. Len(s) \in Nat \ {0} /\ Len(rest') = Len(s) - 1 /\ rest' \in Seq(Part)
        /\ \A i \in 1 .. Len(s) - 1 : rest'[i] = s[i + 1]
    BY Sequence
  <2>2. rest' = <<>> <=> Len(rest') = 0
    BY <2>1, Sequence
  <2> QED
    BY <2>1, <2>2
<1>2. \A i \in 1 .. Len(s) :
        /\ s[i].kind = s[1].kind
        /\ i > 1 => s[i].pos \in {"middle", "end"}
        /\ s[i].pos \in IF i = Len(s) THEN {"end", "whole"} ELSE {"begin", "middle"}
  BY DEF RestOfFrame
<1>3. ASSUME NEW i \in 1 .. Len(rest')
      PROVE  /\ rest'[i].kind = rest'[1].kind
             /\ i > 1 => rest'[i].pos \in {"middle", "end"}
             /\ rest'[i].pos \in IF i = Len(rest') THEN {"end", "whole"}
                                                    ELSE {"begin", "middle"}
  <2>1. /\ i + 1 \in 1 .. Len(s) /\ 2 \in 1 .. Len(s) /\ 1 \in 1 .. Len(s) - 1
        /\ rest'[i] = s[i + 1] /\ rest'[1] = s[2]
        /\ i = Len(rest') <=> i + 1 = Len(s)
    BY <1>1
  <2> QED
    BY <1>2, <2>1
<1>4. rest' # <<>> => rest'[1].kind # "sps"
  <2> SUFFICES ASSUME rest' # <<>>
               PROVE  rest'[1].kind # "sps"
    OBVIOUS
  <2>1. Len(s) # 1 /\ 2 \in 1 .. Len(s) /\ rest'[1] = s[2]
    BY <1>1
  <2>2. s[1].kind # "sps"
    BY <2>1 DEF RestOfFrame
  <2> QED
    BY <1>2, <2>1, <2>2
<1> QED
  BY <1>3, <1>4 DEF RestOfFrame

LEMMA CallbackKept ==
  ASSUME TypeOK, Stages, Callback, Next
  PROVE  Callback'
<1>1. adding \in Seq(Frame) /\ rest \in Seq(Part) /\ (picked # NoSlot => rest # <<>>)
  BY DEF TypeOK, Stages
<1>2. /\ Len(adding) \in Nat /\ (adding = <<>> <=> Len(adding) = 0)
      /\ adding # <<>> => /\ Head(adding) = adding[1] /\ adding[1] \in Frame
                          /\ Tail(adding) \in Seq(Frame)
                          /\ Len(Tail(adding)) = Len(adding) - 1
                          /\ \A i \in 1 .. Len(adding) - 1 : Tail(adding)[i] = adding[i + 1]
  BY <1>1, Sequence
<1>3. ASSUME UNCHANGED <<adding, rest>>
      PROVE  Callback'
  BY <1>3 DEF Callback, RestOfFrame, Announced
<1>4. ASSUME NEW kind \in {"I", "P"}, NEW n \in 1 .. MaxParts,
             OnFrame([kind |-> kind, parts |-> n])
      PROVE  Callback'
  <2> DEFINE frame == [kind |-> kind, parts |-> n]
             steps == (IF frame.kind = "I" THEN <<[kind |-> "sps", parts |-> 1]>> ELSE <<>>)
                        \o <<frame>>
  <2>1. frame \in Frame /\ frame.kind \in {"I", "P"}
    BY DEF Frame
  <2>2. rest = <<>> /\ rest' = rest /\ (adding' = adding \/ adding' = steps)
    BY <1>4 DEF OnFrame, idle
  <2> HIDE DEF frame
  <2>3. CASE adding' = steps
    <3>1. /\ adding' # <<>> /\ Len(adding') = IF frame.kind = "I" THEN 2 ELSE 1
          /\ frame.kind = "P" => adding'[1] = frame
          /\ frame.kind = "I" => /\ adding'[1] = [kind |-> "sps", parts |-> 1]
                                 /\ adding'[2] = frame
      BY <2>1, <2>3, Added
    <3>2. \/ Len(adding') = 1 /\ adding'[1].kind = "P"
          \/ Len(adding') = 2 /\ adding'[1].kind = "sps" /\ adding'[1].parts = 1
             /\ adding'[2].kind = "I"
      BY <2>1, <3>1
    <3>3. RestOfFrame'
      BY <2>2 DEF Callback, RestOfFrame
    <3> QED
      BY <2>2, <3>2, <3>3 DEF Callback
  <2> QED
    BY <1>3, <2>2, <2>3
<1>5. CASE avshare_addvid
  <2>1. adding # <<>> /\ rest = <<>> /\ adding' = Tail(adding)
    BY <1>5 DEF avshare_addvid
  <2>2. \/ adding' = <<>> /\ adding[1].kind \in {"I", "P"}
        \/ /\ Len(adding') = 1 /\ adding'[1].kind = "I"
           /\ adding[1].kind = "sps" /\ adding[1].parts = 1
    <3>1. adding' = <<>> <=> Len(adding') = 0
      BY <1>2, <2>1, Sequence
    <3> QED
      BY <1>2, <2>1, <3>1 DEF Callback, Announced
  <2>3. adding' = <<>> \/ Announced'
    BY <2>2 DEF Announced
  <2>4. CASE rest' = rest
    <3>1. RestOfFrame'
      BY <2>4 DEF Callback, RestOfFrame
    <3> QED
      BY <2>1, <2>3, <2>4, <3>1 DEF Callback
  <2>5. CASE rest' = partsOf(adding[1])
    <3> DEFINE f == adding[1]
    <3>0. f \in Frame
      BY <1>2, <2>1
    <3> HIDE DEF f
    <3>1. /\ rest' \in Seq(Part) /\ rest' # <<>> /\ Len(rest') = f.parts
          /\ \A i \in 1 .. f.parts :
               /\ rest'[i].kind = f.kind
               /\ i > 1 => rest'[i].pos \in {"middle", "end"}
               /\ rest'[i].pos \in IF i = f.parts THEN {"end", "whole"} ELSE {"begin", "middle"}
      BY <2>5, <3>0, PartsOfFrame DEF f
    <3>2. 1 \in 1 .. f.parts
      BY <3>0, AvShareAssumption DEF Frame
    <3>3. rest'[1].kind = f.kind
      BY <3>1, <3>2
    <3>4. f.kind = "sps" => f.parts = 1
      BY <2>2 DEF f
    <3>5. RestOfFrame'
      <4>1. f.kind = "sps" => rest'[1].pos = "whole"
        BY <3>1, <3>2, <3>4, <3>0, PartsOfFrame, <2>5 DEF f
      <4> QED
        BY <3>1, <3>3, <3>4, <4>1 DEF RestOfFrame
    <3>6. Announced' <=> f.kind = "sps"
      <4>1. adding' = <<>> => Len(adding') = 0
        BY <1>2, <2>1, Sequence
      <4> QED
        BY <2>2, <4>1 DEF Announced, f
    <3> QED
      BY <2>3, <3>3, <3>5, <3>6 DEF Callback
  <2> QED
    BY <1>2, <1>5, <2>1, <2>4, <2>5 DEF avshare_addvid
<1>6. CASE avshare_add
  <2>1. rest' = rest \/ rest' = <<>>
    BY <1>6 DEF avshare_add
  <2>2. adding' = adding
    BY <1>6 DEF avshare_add
  <2>3. rest' = <<>> => RestOfFrame'
    BY DEF RestOfFrame
  <2> QED
    BY <1>3, <1>6, <2>1, <2>2, <2>3 DEF avshare_add, Callback, Announced
<1>7. CASE Publish
  <2>1. rest # <<>> /\ rest' = Tail(rest) /\ adding' = adding
    BY <1>1, <1>7 DEF Publish
  <2>2. RestOfFrame'
    BY <1>1, <2>1, RestKept DEF Callback
  <2>3. adding = <<>> \/ Announced
    BY <2>1 DEF Callback
  <2>4. rest' # <<>> => rest'[1].kind = rest[1].kind
    <3>1. Len(rest) \in Nat /\ (rest' # <<>> => Len(rest) > 1) /\ (Len(rest) > 1 => rest'[1] = rest[2])
      <4>1. Len(rest) \in Nat /\ Len(rest) # 0 /\ Len(rest') = Len(rest) - 1 /\ rest' \in Seq(Part)
            /\ \A i \in 1 .. Len(rest) - 1 : rest'[i] = rest[i + 1]
        BY <1>1, <2>1, Sequence
      <4>2. rest' # <<>> => Len(rest') # 0
        BY <4>1, Sequence
      <4> QED
        BY <4>1, <4>2
    <3> QED
      BY <3>1 DEF Callback, RestOfFrame
  <2> QED
    BY <2>1, <2>2, <2>3, <2>4 DEF Callback, Announced
<1> QED
  BY <1>3, <1>4, <1>5, <1>6, <1>7
     DEF Next, Encoder, Reader, live_run, LiveStarted, LIVE_cmdSTOP, Joined, avshare_init, avshare_connect,
         avshare_stop, ReadFrame, Search, Copy, callback, writer

(* What the writer puts next fits what was lost, whatever it does.         *)
LEMMA FitsKept ==
  ASSUME TypeOK, Stages, Callback, Fits, Ring, Next
  PROVE  Fits'
<1> USE DEF idle, callback, writer, reader, history
<1>1. adding \in Seq(Frame) /\ rest \in Seq(Part) /\ (picked # NoSlot => rest # <<>>)
  BY DEF TypeOK, Stages
<1>2. /\ Len(adding) \in Nat /\ (adding = <<>> <=> Len(adding) = 0)
      /\ adding # <<>> => /\ Head(adding) = adding[1] /\ adding[1] \in Frame
                          /\ Tail(adding) \in Seq(Frame)
                          /\ Len(Tail(adding)) = Len(adding) - 1
                          /\ \A i \in 1 .. Len(adding) - 1 : Tail(adding)[i] = adding[i + 1]
  BY <1>1, Sequence
<1> DEFINE waits == live \in {"off", "starting", "stopping"} \/ first
<1>3. ASSUME UNCHANGED <<kept, adding, rest, gap, prev, dropped>>,
             kept /\ gap /\ idle /\ waits => waits'
      PROVE  Fits'
  BY <1>3 DEF Fits, MayFollow
<1>4. ASSUME NEW kind \in {"I", "P"}, NEW n \in 1 .. MaxParts,
             OnFrame([kind |-> kind, parts |-> n])
      PROVE  Fits'
  <2> DEFINE frame == [kind |-> kind, parts |-> n]
             steps == (IF frame.kind = "I" THEN <<[kind |-> "sps", parts |-> 1]>> ELSE <<>>)
                        \o <<frame>>
  <2>1. frame \in Frame /\ frame.kind \in {"I", "P"}
    BY DEF Frame
  <2>2. /\ idle /\ UNCHANGED <<kept, rest, dropped, prev>>
        /\ \/ first /\ gap' = TRUE /\ UNCHANGED <<adding, live, first>>
           \/ /\ first \/ live = "starting" => frame.kind = "I"
              /\ live \in {"starting", "begun", "on"}
              /\ adding' = steps /\ UNCHANGED gap
    BY <1>4 DEF OnFrame
  <2> HIDE DEF frame
  <2>3. CASE first /\ gap' = TRUE /\ UNCHANGED <<adding, live, first>>
    BY <1>2, <2>2, <2>3 DEF Fits
  <2>4. CASE /\ first \/ live = "starting" => frame.kind = "I"
             /\ live \in {"starting", "begun", "on"}
             /\ adding' = steps /\ UNCHANGED gap
    <3>1. /\ adding' # <<>>
          /\ Len(adding') = 1 /\ adding'[1].kind = "P" => frame.kind = "P"
      BY <2>1, <2>4, Added
    <3> QED
      BY <2>1, <2>2, <2>4, <3>1 DEF Fits
  <2> QED
    BY <2>2, <2>3, <2>4
<1>5. CASE avshare_addvid
  <2>1. /\ adding # <<>> /\ rest = <<>> /\ adding' = Tail(adding)
        /\ UNCHANGED <<kept, live, first, prev>>
    BY <1>5 DEF avshare_addvid
  <2>2. ~(Len(adding') = 1 /\ adding'[1].kind = "P")
    BY <1>2, <2>1 DEF Callback, Announced
  <2>3. CASE dropped /\ Head(adding).kind # "I"
    BY <1>5, <2>1, <2>2, <2>3 DEF avshare_addvid, Fits
  <2>4. CASE ~(dropped /\ Head(adding).kind # "I")
    <3> DEFINE f == adding[1]
    <3>1. /\ rest' = partsOf(f) /\ dropped' = FALSE /\ UNCHANGED gap
      BY <1>2, <1>5, <2>1, <2>4 DEF avshare_addvid
    <3>2. f \in Frame /\ (dropped => f.kind = "I")
      BY <1>2, <2>1, <2>4
    <3>3. f.kind = "P" => Len(adding) = 1
      BY <1>2, <2>1 DEF Callback, Announced
    <3>4. kept /\ gap => f.kind # "P"
      BY <3>2, <3>3 DEF Fits
    <3> HIDE DEF f
    <3>5. rest' # <<>> /\ rest'[1].kind = f.kind /\ rest'[1].pos \in {"begin", "whole"}
      <4>1. 1 \in 1 .. f.parts
        BY <3>2, AvShareAssumption DEF Frame
      <4> QED
        BY <3>1, <3>2, <4>1, PartsOfFrame
    <3>6. kept => MayFollow(rest'[1])
      BY <2>1, <3>4, <3>5 DEF Fits, MayFollow
    <3>7. kept => MayFollow(rest[1])'
      BY <2>1, <3>1, <3>6 DEF MayFollow
    <3> QED
      BY <2>1, <2>2, <3>5, <3>7 DEF Fits
  <2> QED
    BY <2>3, <2>4
<1>6. CASE avshare_add
  <2>1. CASE connect /\ slot[write] = free /\ caughtUp
    <3>1. /\ rest # <<>> /\ Head(rest) = rest[1] /\ rest[1].kind = "sps"
          /\ gap' = TRUE /\ UNCHANGED <<adding, rest>>
      BY <1>1, <1>6, <2>1, Sequence DEF avshare_add, caughtUp
    <3>2. rest[1].pos = "whole" /\ Announced
      BY <3>1 DEF Callback, RestOfFrame
    <3>3. MayFollow(rest[1])'
      BY <3>1, <3>2 DEF MayFollow
    <3> QED
      BY <3>1, <3>2, <3>3 DEF Fits, Announced
  <2>2. CASE connect /\ slot[write] = free /\ ~caughtUp
    BY <1>3, <1>6, <2>2 DEF avshare_add
  <2>3. CASE ~(connect /\ slot[write] = free)
    <3>1. /\ rest' = <<>> /\ gap' = TRUE /\ (connect => dropped' = TRUE)
          /\ UNCHANGED <<connect, kept>>
      BY <1>6, <2>3 DEF avshare_add
    <3> QED
      BY <3>1 DEF Fits, Stages
  <2> QED
    BY <2>1, <2>2, <2>3
<1>7. CASE Publish
  <2> SUFFICES ASSUME kept
               PROVE  Fits'
    BY <1>7 DEF Publish, Fits
  <2> DEFINE p == rest[1]
  <2>1. /\ rest # <<>> /\ rest' = Tail(rest) /\ Head(rest) = p /\ p \in Part
        /\ UNCHANGED <<kept, adding, dropped, live, first>>
        /\ prev' = p /\ gap' = (gap /\ p.kind # "I")
    <3>1. picked \in Index /\ write = picked
      BY <1>7 DEF Publish, Ring, TypeOK
    <3>2. slot'[picked] = Head(rest)
      BY <1>7, <3>1 DEF Publish
    <3> QED
      BY <1>1, <1>7, <3>2, Sequence DEF Publish
  <2>2. MayFollow(p)
    BY <2>1 DEF Fits
  <2>3. p.kind = "P" => ~gap
    BY <2>2 DEF MayFollow
  <2>4. p.kind \in {"sps", "I", "P"}
    BY <2>1 DEF Part
  <2>5. gap' => p.kind = "sps"
    BY <2>1, <2>3, <2>4
  <2>6. gap' => Announced /\ Len(rest) = 1
    BY <2>1, <2>5 DEF Callback, RestOfFrame
  <2>7. /\ Len(rest) \in Nat \ {0} /\ (rest' = <<>> <=> Len(rest) = 1)
        /\ Len(rest) > 1 => rest'[1] = rest[2]
    <3>1. Len(rest) \in Nat \ {0} /\ Len(rest') = Len(rest) - 1 /\ rest' \in Seq(Part)
          /\ \A i \in 1 .. Len(rest) - 1 : rest'[i] = rest[i + 1]
      BY <1>1, <2>1, Sequence
    <3>2. rest' = <<>> <=> Len(rest') = 0
      BY <3>1, Sequence
    <3> QED
      BY <3>1, <3>2
  <2>8. CASE Len(rest) = 1
    <3>1. p.pos \in {"end", "whole"}
      BY <2>8 DEF Callback, RestOfFrame
    <3>2. ~(gap' /\ idle')
      BY <1>2, <2>1, <2>6 DEF Announced
    <3>3. ~(Len(adding') = 1 /\ adding'[1].kind = "P")
      BY <2>1 DEF Callback, Announced
    <3> QED
      BY <2>1, <2>7, <2>8, <3>1, <3>2, <3>3 DEF Fits
  <2>9. CASE Len(rest) # 1
    <3> DEFINE q == rest[2]
    <3>0. Len(rest) \in Nat /\ Len(rest) >= 2
      <4> HIDE DEF p, q
      <4>1. Len(rest) \in Nat \ {0}
        BY <2>7
      <4>2. \A n \in Nat \ {0} : n # 1 => n \in Nat /\ n >= 2
        OBVIOUS
      <4> QED
        BY <2>9, <4>1, <4>2
    <3>1. 1 \in 1 .. Len(rest) /\ 2 \in 1 .. Len(rest)
      BY <3>0
    <3>2. q.kind = p.kind /\ q.pos \in {"middle", "end"} /\ p.pos \in {"begin", "middle"}
      BY <2>9, <3>1 DEF Callback, RestOfFrame
    <3>3. ~gap'
      BY <2>6, <2>9
    <3>4. rest' # <<>> /\ rest'[1] = q
      BY <2>7, <3>0
    <3> HIDE DEF p, q
    <3>5. MayFollow(rest[1])'
      BY <2>1, <3>2, <3>3, <3>4 DEF MayFollow
    <3> QED
      BY <3>3, <3>4, <3>5 DEF Fits
  <2> QED
    BY <2>8, <2>9
<1>8. CASE live_run
  <2>1. UNCHANGED <<kept, adding, rest, picked, dropped, first, prev>>
    BY <1>8 DEF live_run
  <2>2. CASE connect
    <3>1. live = "off" /\ live' = "starting" /\ gap' = TRUE
      BY <1>8, <2>2 DEF live_run
    <3>2. idle
      BY <3>1 DEF Stages
    <3> QED
      BY <1>2, <2>1, <3>1, <3>2 DEF Fits
  <2>3. CASE ~connect
    BY <2>1, <2>3 DEF Fits, Stages
  <2> QED
    BY <2>2, <2>3
<1>9. CASE LiveStarted
  <2>1. CASE live = "starting"
    BY <1>3, <1>9, <2>1 DEF LiveStarted
  <2>2. CASE live = "begun"
    <3>1. UNCHANGED <<kept, adding, rest, gap, prev, dropped>> /\ ~first
      BY <1>9, <2>2 DEF LiveStarted, Stages
    <3>2. kept /\ gap /\ idle => dropped
      BY <2>2, <3>1 DEF Fits
    <3> QED
      BY <3>1, <3>2 DEF Fits, MayFollow
  <2> QED
    BY <1>9, <2>1, <2>2 DEF LiveStarted
<1>10. CASE LIVE_cmdSTOP \/ Joined
  BY <1>3, <1>10 DEF LIVE_cmdSTOP, Joined
<1>11. CASE avshare_init
  BY <1>11 DEF avshare_init, Fits, Stages
<1>12. CASE avshare_connect
  <2>1. kept' => live = "off" /\ adding = <<>> /\ rest = <<>>
    BY <1>12 DEF avshare_connect, settled, Stages
  <2> QED
    BY <1>2, <1>12, <2>1 DEF avshare_connect, Fits
<1>13. CASE avshare_stop
  BY <1>13 DEF avshare_stop, Fits
<1>14. CASE Reader
  BY <1>3, <1>14 DEF Reader, ReadFrame, Search, Copy
<1> QED
  BY <1>4, <1>5, <1>6, <1>7, <1>8, <1>9, <1>10, <1>11, <1>12, <1>13, <1>14 DEF Next, Encoder

-----------------------------------------------------------------------------
(* The places of the ring, counted from any of them.                       *)
LEMMA Places ==
  ASSUME NEW i \in Index
  PROVE  /\ \A k \in 0 .. Slots : /\ place(i, k) = IF i + k < Slots THEN i + k ELSE i + k - Slots
                                  /\ place(i, k) \in Index
         /\ place(i, 0) = i /\ place(i, Slots) = i
         /\ \A k, l \in 0 .. Slots - 1 : place(i, k) = place(i, l) => k = l
         /\ \A j \in Index : \E k \in 0 .. Slots - 1 : j = place(i, k)
         /\ \A k \in 0 .. Slots - 1 : /\ next(place(i, k)) = place(i, k + 1)
                                      /\ place(next(i), k) = place(i, k + 1)
<1> USE AvShareAssumption
<1>1. \A k \in 0 .. Slots : place(i, k) = IF i + k < Slots THEN i + k ELSE i + k - Slots
  BY Modulo DEF place
<1>2. \A k \in 0 .. Slots : place(i, k) \in Index
  BY <1>1 DEF Index
<1>3. place(i, 0) = i /\ place(i, Slots) = i
  BY <1>1 DEF Index
<1>4. \A k, l \in 0 .. Slots - 1 : place(i, k) = place(i, l) => k = l
  BY <1>1 DEF Index
<1>5. ASSUME NEW j \in Index
      PROVE  \E k \in 0 .. Slots - 1 : j = place(i, k)
  <2>1. CASE j >= i
    <3>1. j - i \in 0 .. Slots - 1 /\ i + (j - i) = j /\ j < Slots
      BY <2>1 DEF Index
    <3>2. place(i, j - i) = j
      BY <1>1, <3>1
    <3> QED
      BY <3>1, <3>2
  <2>2. CASE j < i
    <3> DEFINE k == j - i + Slots
    <3>1. k \in 0 .. Slots - 1 /\ k \in 0 .. Slots /\ ~(i + k < Slots) /\ i + k - Slots = j
      BY <2>2 DEF Index
    <3> HIDE DEF k
    <3>2. place(i, k) = j
      BY <1>1, <3>1
    <3> QED
      BY <3>1, <3>2
  <2> QED
    BY <2>1, <2>2 DEF Index
<1>6. ASSUME NEW k \in 0 .. Slots - 1
      PROVE  next(place(i, k)) = place(i, k + 1) /\ place(next(i), k) = place(i, k + 1)
  <2>1. k \in 0 .. Slots /\ k + 1 \in 0 .. Slots
    OBVIOUS
  <2>2. next(place(i, k)) = IF place(i, k) + 1 < Slots THEN place(i, k) + 1 ELSE 0
    BY <1>2, <2>1, Modulo
  <2>3. next(i) \in Index /\ next(i) = IF i + 1 < Slots THEN i + 1 ELSE 0
    BY Modulo
  <2>4. place(next(i), k) = IF next(i) + k < Slots THEN next(i) + k ELSE next(i) + k - Slots
    BY <2>1, <2>3, Modulo DEF place
  <2>5. /\ place(i, k) = IF i + k < Slots THEN i + k ELSE i + k - Slots
        /\ place(i, k + 1) = IF i + (k + 1) < Slots THEN i + (k + 1) ELSE i + (k + 1) - Slots
    BY <1>1, <2>1
  <2>6. next(place(i, k)) = place(i, k + 1)
    BY <2>2, <2>5 DEF Index
  <2>7. place(next(i), k) = place(i, k + 1)
    BY <2>3, <2>4, <2>5 DEF Index
  <2> QED
    BY <2>6, <2>7
<1> QED
  BY <1>1, <1>2, <1>3, <1>4, <1>5, <1>6

(* Slots that are full are counted from any of them.                       *)
LEMMA FullCount ==
  ASSUME NEW s, NEW i \in Index, NEW w \in 0 .. Slots, Full(s, i, w)
  PROVE  Cardinality({j \in Index : s[j] # free}) = w
<1> DEFINE S == {j \in Index : s[j] # free}
           f == [n \in 1 .. w |-> place(i, n - 1)]
<1>1. \A n \in 1 .. w : n - 1 \in 0 .. Slots - 1 /\ n - 1 < w /\ n - 1 \in 0 .. Slots
  BY AvShareAssumption
<1>2. \A n \in 1 .. w : f[n] \in S
  BY <1>1, Places DEF Full
<1>3. \A m, n \in 1 .. w : f[m] = f[n] => m = n
  <2> SUFFICES ASSUME NEW m \in 1 .. w, NEW n \in 1 .. w, f[m] = f[n]
               PROVE  m = n
    OBVIOUS
  <2>1. m - 1 = n - 1
    BY <1>1, Places
  <2> QED
    BY <2>1
<1>4. ASSUME NEW j \in S
      PROVE  \E n \in 1 .. w : f[n] = j
  <2>1. PICK k \in 0 .. Slots - 1 : j = place(i, k)
    BY Places
  <2>2. k < w
    BY <2>1 DEF Full
  <2>3. k + 1 \in 1 .. w /\ (k + 1) - 1 = k
    BY <2>2, AvShareAssumption
  <2>4. f[k + 1] = j
    BY <2>1, <2>3
  <2> QED
    BY <2>3, <2>4
<1>5. f \in Bijection(1 .. w, S)
  <2> HIDE DEF S
  <2>1. f \in [1 .. w -> S]
    BY <1>2
  <2> HIDE DEF f
  <2> QED
    BY <1>3, <1>4, <2>1 DEF Bijection, Injection, Surjection, IsInjective
<1>6. ExistsBijection(1 .. w, S)
  BY <1>5, Zenon DEF ExistsBijection
<1> HIDE DEF S
<1>7. w \in Nat
  BY AvShareAssumption
<1>8. Cardinality(S) = w
  BY <1>6, <1>7, FS_CountingElements
<1> QED
  BY <1>8 DEF S

(* A part more, at the place behind those that wait ...                    *)
LEMMA FullPut ==
  ASSUME NEW s \in [Index -> Item], NEW i \in Index, NEW w \in 0 .. Slots - 1,
         Full(s, i, w), NEW p, p # free
  PROVE  Full([s EXCEPT ![place(i, w)] = p], i, w + 1)
<1> SUFFICES ASSUME NEW k \in 0 .. Slots - 1
             PROVE  [s EXCEPT ![place(i, w)] = p][place(i, k)] # free <=> k < w + 1
  BY DEF Full
<1>1. place(i, k) \in Index /\ (place(i, w) = place(i, k) <=> k = w)
  <2>1. k \in 0 .. Slots
    BY AvShareAssumption
  <2>2. place(i, k) \in Index
    BY <2>1, Places
  <2>3. place(i, w) = place(i, k) => w = k
    BY Places
  <2> QED
    BY <2>2, <2>3
<1>2. s[place(i, k)] # free <=> k < w
  BY DEF Full
<1> QED
  BY <1>1, <1>2, AvShareAssumption

(* ... and one less, of which the place falls to the end.                  *)
LEMMA FullTake ==
  ASSUME NEW s \in [Index -> Item], NEW i \in Index, NEW w \in 1 .. Slots,
         Full(s, i, w)
  PROVE  /\ Full([s EXCEPT ![i] = free], next(i), w - 1)
         /\ place(next(i), w - 1) = place(i, w)
<1>1. w - 1 \in 0 .. Slots - 1 /\ (w - 1) + 1 = w
  BY AvShareAssumption
<1>2. place(next(i), w - 1) = place(i, w)
  BY <1>1, Places
<1>3. ASSUME NEW k \in 0 .. Slots - 1
      PROVE  [s EXCEPT ![i] = free][place(next(i), k)] # free <=> k < w - 1
  <2>1. place(next(i), k) = place(i, k + 1)
    BY Places
  <2>2. CASE k = Slots - 1
    <3>1. k + 1 = Slots /\ ~(k < w - 1)
      BY <2>2, AvShareAssumption
    <3>2. place(i, k + 1) = i
      BY <3>1, Places
    <3> QED
      BY <2>1, <3>1, <3>2
  <2>3. CASE k # Slots - 1
    <3>1. k + 1 \in 0 .. Slots - 1 /\ 0 \in 0 .. Slots - 1 /\ k + 1 # 0
          /\ k + 1 \in 0 .. Slots
      BY <2>3, AvShareAssumption
    <3>2. place(i, k + 1) # i /\ place(i, k + 1) \in Index
      BY <3>1, Places
    <3>3. s[place(i, k + 1)] # free <=> k + 1 < w
      BY <3>1 DEF Full
    <3>4. k + 1 < w <=> k < w - 1
      BY AvShareAssumption
    <3> QED
      BY <2>1, <3>2, <3>3, <3>4
  <2> QED
    BY <2>2, <2>3
<1> QED
  BY <1>2, <1>3 DEF Full

-----------------------------------------------------------------------------
(* The ring, step by step.                                                 *)
LEMMA Anchor ==
  ASSUME TypeOK
  PROVE  anchor \in Index /\ slot \in [Index -> Item]
BY DEF TypeOK, anchor, Item

LEMMA PartNotFree == free \notin Part /\ Part \subseteq Item /\ free \in Item
BY DEF free, Part, Item

(* A search has not come to the place of the part that is put, unless the  *)
(* ring was empty.                                                         *)
LEMMA PutStep ==
  ASSUME Faults = {}, TypeOK, Stages, Ring, kept, Publish, NEW w \in 0 .. Slots, Holding(w),
         mode = "search" => \E c \in 1 .. Slots : cursor = place(read, c) /\ w <= c
  PROVE  /\ w < Slots /\ Holding(w + 1)' /\ Ring' /\ anchor' = anchor
         /\ slot' = [slot EXCEPT ![place(anchor, w)] = Head(rest)] /\ Head(rest) \in Part
         /\ prev' = Head(rest)
<1>1. /\ slot' = [slot EXCEPT ![write] = Head(rest)] /\ write' = next(write)
      /\ picked' = NoSlot /\ UNCHANGED <<kept, mode, read, cursor>>
      /\ mode = "search" /\ write = cursor => empty
      /\ slot[write] = free /\ rest # <<>> /\ prev' = Head(rest)
  <2>1. picked # NoSlot /\ picked = write /\ slot[write] = free /\ rest # <<>>
    BY DEF Publish, Ring, Stages
  <2>2. write \in Index /\ slot \in [Index -> Part \cup {free, torn}]
    BY DEF TypeOK
  <2>3. slot' = [i \in Index |-> IF i = write THEN Head(rest) ELSE slot[i]]
    BY <2>1, <2>2 DEF Publish
  <2>4. slot' = [slot EXCEPT ![write] = Head(rest)] /\ slot'[write] = Head(rest)
    BY <2>2, <2>3
  <2> QED
    BY <2>1, <2>4 DEF Publish, reader
<1>2. anchor' = anchor /\ anchor \in Index
  BY <1>1, Anchor DEF anchor
<1>3. Head(rest) \in Part /\ Head(rest) # free
  BY <1>1, Sequence, PartNotFree DEF TypeOK
<1>4. write = place(anchor, w) /\ Full(slot, anchor, w)
  BY DEF Holding
<1>5. w < Slots /\ w \in 0 .. Slots - 1 /\ w + 1 \in 0 .. Slots
  <2>1. ASSUME w = Slots
        PROVE  FALSE
    <3>1. place(anchor, w) = place(anchor, 0) /\ 0 \in 0 .. Slots - 1 /\ 0 < w
      BY <1>2, <2>1, Places, AvShareAssumption
    <3> QED
      BY <1>1, <1>4, <3>1 DEF Full
  <2> QED
    BY <2>1, AvShareAssumption
<1>6. Full(slot', anchor, w + 1)
  BY <1>1, <1>2, <1>3, <1>4, <1>5, Anchor, FullPut, PartNotFree
<1>7. write' = place(anchor, w + 1)
  BY <1>1, <1>2, <1>4, <1>5, Places
<1>8. Holding(w + 1)'
  BY <1>2, <1>6, <1>7 DEF Holding
<1>9. ASSUME mode = "search"
      PROVE  \E c \in 1 .. Slots : cursor = place(read, c) /\ w + 1 <= c
  <2>1. PICK c \in 1 .. Slots : cursor = place(read, c) /\ w <= c
    BY <1>9
  <2>2. anchor = read
    BY <1>9 DEF anchor
  <2>3. ASSUME w = c
        PROVE  FALSE
    <3>1. write = cursor
      BY <1>4, <2>1, <2>2, <2>3
    <3>2. \A i \in Index : slot[i] = free
      BY <1>1, <1>9, <3>1 DEF empty
    <3>3. 0 \in 0 .. Slots - 1 /\ place(anchor, 0) \in Index /\ 0 < w
      BY <1>2, <2>1, <2>3, Places, AvShareAssumption
    <3> QED
      BY <1>4, <3>2, <3>3 DEF Full
  <2>4. w + 1 <= c
    BY <2>1, <2>3, AvShareAssumption
  <2> QED
    BY <2>1, <2>4
<1>10. Ring'
  BY <1>1, <1>5, <1>8, <1>9 DEF Ring, place
<1> QED
  BY <1>1, <1>2, <1>3, <1>4, <1>5, <1>8, <1>10

LEMMA TakeStep ==
  ASSUME TypeOK, Stages, Ring, kept, NEW full \in BOOLEAN, Copy(full), NEW w \in 0 .. Slots,
         Holding(w)
  PROVE  /\ w > 0 /\ Holding(w - 1)' /\ Ring' /\ anchor' = next(anchor)
         /\ slot' = [slot EXCEPT ![anchor] = free]
<1>1. /\ mode = "copy" /\ slot' = [slot EXCEPT ![cursor] = free] /\ cursor' = next(cursor)
      /\ IF full \/ slot'[cursor'] = free THEN mode' = "idle" /\ read' = cursor'
                                           ELSE UNCHANGED <<mode, read>>
      /\ UNCHANGED <<kept, write, picked>>
  BY DEF Copy, writer, callback, history
<1>2. anchor = cursor /\ anchor' = next(anchor) /\ anchor \in Index
  BY <1>1, Anchor DEF anchor
<1>3. write = place(anchor, w) /\ Full(slot, anchor, w)
  BY DEF Holding
<1>4. w > 0 /\ w \in 1 .. Slots /\ w - 1 \in 0 .. Slots
  <2>1. 0 \in 0 .. Slots - 1 /\ place(anchor, 0) = anchor
    BY <1>2, Places, AvShareAssumption
  <2>2. slot[anchor] # free
    BY <1>1, <1>2 DEF Stages
  <2>3. 0 < w
    BY <1>3, <2>1, <2>2 DEF Full
  <2> QED
    BY <2>3, AvShareAssumption
<1>5. Full(slot', next(anchor), w - 1) /\ place(next(anchor), w - 1) = place(anchor, w)
  BY <1>1, <1>2, <1>3, <1>4, Anchor, FullTake
<1>6. Holding(w - 1)'
  BY <1>1, <1>2, <1>3, <1>5 DEF Holding
<1>7. slot \in [Index -> Item] /\ write \in Index /\ cursor \in Index
  BY DEF TypeOK, Item
<1>8. picked' # NoSlot => picked' = write' /\ slot'[write'] = free
  BY <1>1, <1>7 DEF Ring
<1>9. mode' # "search"
  BY <1>1
<1>10. Ring'
  BY <1>4, <1>6, <1>8, <1>9 DEF Ring
<1> QED
  BY <1>1, <1>2, <1>4, <1>6, <1>10

(* What a search finds is what it began with: the slot it looks at is not  *)
(* full unless it has come round.                                          *)
LEMMA Found ==
  ASSUME TypeOK, mode = "search", NEW w \in 0 .. Slots, Holding(w), NEW c \in 1 .. Slots,
         cursor = place(read, c), w <= c, slot[cursor] # free
  PROVE  cursor = read
<1>1. anchor = read /\ read \in Index
  BY DEF anchor, TypeOK
<1>2. c = Slots
  <2> SUFFICES ASSUME c # Slots
               PROVE  FALSE
    OBVIOUS
  <2>1. c \in 0 .. Slots - 1 /\ ~(c < w)
    BY AvShareAssumption
  <2> QED
    BY <1>1, <2>1 DEF Holding, Full
<1> QED
  BY <1>1, <1>2, Places

(* An empty ring holds nothing, and a search in it may be anywhere.        *)
LEMMA NothingHeld ==
  ASSUME NEW slots, NEW i \in Index, \A k \in Index : slots[k] = free
  PROVE  Full(slots, i, 0) /\ place(i, 0) = i
<1>1. \A k \in 0 .. Slots - 1 : k \in 0 .. Slots /\ ~(k < 0)
  BY AvShareAssumption
<1> QED
  BY <1>1, Places DEF Full

LEMMA Anywhere ==
  ASSUME NEW i \in Index, NEW j \in Index
  PROVE  \E c \in 1 .. Slots : j = place(i, c) /\ 0 <= c
<1>1. PICK k \in 0 .. Slots - 1 : j = place(i, k)
  BY Places
<1>2. CASE k = 0
  <2>1. place(i, 0) = place(i, Slots) /\ Slots \in 1 .. Slots /\ 0 <= Slots
    BY Places, AvShareAssumption
  <2> QED
    BY <1>1, <1>2, <2>1
<1>3. CASE k # 0
  <2>1. k \in 1 .. Slots /\ 0 <= k
    BY <1>3, AvShareAssumption
  <2> QED
    BY <1>1, <2>1
<1> QED
  BY <1>2, <1>3

LEMMA RingKept ==
  ASSUME Faults = {}, TypeOK, Stages, Ring, Next
  PROVE  Ring'
<1> USE DEF callback, writer, reader, history
<1>0. /\ read \in Index /\ cursor \in Index /\ write \in Index
      /\ 0 \in 0 .. Slots /\ 0 \in 0 .. Slots - 1
  BY AvShareAssumption DEF TypeOK
<1>1. ASSUME UNCHANGED <<kept, slot, write, read, mode, cursor>>,
             picked' = picked \/ picked' = NoSlot \/ (picked' = write /\ slot[write] = free)
      PROVE  Ring'
  BY <1>1 DEF Ring, Holding, anchor
<1>2. ASSUME ~kept'
      PROVE  Ring'
  BY <1>2 DEF Ring
<1>3. CASE Publish
  <2>1. CASE ~kept
    BY <1>2, <1>3, <2>1 DEF Publish
  <2>2. CASE kept
    BY <1>3, <2>2, PutStep DEF Ring
  <2> QED
    BY <2>1, <2>2
<1>4. ASSUME NEW full \in BOOLEAN, Copy(full)
      PROVE  Ring'
  <2>1. CASE ~kept
    BY <1>2, <1>4, <2>1 DEF Copy
  <2>2. CASE kept
    BY <1>4, <2>2, TakeStep DEF Ring
  <2> QED
    BY <2>1, <2>2
<1>5. ASSUME ~kept, mode # "copy", write = read, empty, mode' = mode,
             UNCHANGED <<slot, write, read, mode, cursor>>,
             picked' # NoSlot => picked' = write
      PROVE  Ring'
  <2>1. anchor' = read
    BY <1>5 DEF anchor
  <2>2. Full(slot, read, 0) /\ place(read, 0) = read /\ slot[write] = free
    BY <1>0, <1>5, NothingHeld DEF empty
  <2>3. Holding(0)'
    BY <1>5, <2>1, <2>2 DEF Holding
  <2>4. \E c \in 1 .. Slots : cursor = place(read, c) /\ 0 <= c
    BY <1>0, Anywhere
  <2> QED
    BY <1>0, <1>5, <2>2, <2>3, <2>4 DEF Ring
<1>6. CASE avshare_connect
  <2>1. CASE ~settled
    BY <1>2, <1>6, <2>1 DEF avshare_connect
  <2>2. CASE settled
    <3>1. /\ write = 0 /\ empty /\ read = 0 /\ mode = "idle" /\ ~kept /\ picked = NoSlot
      BY <1>6, <2>2 DEF avshare_connect, settled, Stages, idle
    <3> QED
      BY <1>5, <1>6, <3>1 DEF avshare_connect
  <2> QED
    BY <2>1, <2>2
<1>7. CASE ReadFrame
  <2> SUFFICES ASSUME kept
               PROVE  Ring'
    BY <1>2, <1>7 DEF ReadFrame
  <2>1. /\ mode = "idle"
        /\ IF slot[read] = free THEN mode' = "search" /\ cursor' = next(read)
                                ELSE mode' = "copy" /\ cursor' = read
        /\ UNCHANGED <<kept, slot, write, picked, read>>
    BY <1>7 DEF ReadFrame
  <2>2. PICK w \in 0 .. Slots : Holding(w)
    BY DEF Ring
  <2>3. anchor' = anchor /\ anchor = read
    BY <2>1 DEF anchor
  <2>4. Holding(w)'
    BY <2>1, <2>2, <2>3 DEF Holding
  <2>5. slot[read] = free => w = 0
    <3>1. place(anchor, 0) = read
      BY <1>0, <2>3, Places
    <3>2. slot[read] # free <=> 0 < w
      BY <1>0, <2>2, <3>1 DEF Holding, Full
    <3> QED
      BY <3>2, AvShareAssumption
  <2>6. next(read) = place(read, 1) /\ 1 \in 1 .. Slots
    <3>1. next(place(read, 0)) = place(read, 0 + 1) /\ place(read, 0) = read
      BY <1>0, Places
    <3> QED
      BY <3>1, AvShareAssumption
  <2>7. mode' = "search" => \E c \in 1 .. Slots : cursor' = place(read, c) /\ w <= c
    BY <2>1, <2>5, <2>6
  <2> QED
    BY <2>1, <2>4, <2>7 DEF Ring, place
<1>8. CASE Search
  <2> SUFFICES ASSUME kept
               PROVE  Ring'
    BY <1>2, <1>8 DEF Search
  <2>1. mode = "search" /\ UNCHANGED <<kept, slot, write, picked, read>>
    BY <1>8 DEF Search
  <2>2. PICK w \in 0 .. Slots, c \in 1 .. Slots :
          Holding(w) /\ cursor = place(read, c) /\ w <= c
    BY <2>1 DEF Ring
  <2>3. slot[cursor] # free => cursor = read
    BY <2>1, <2>2, Found
  <2>4. \/ mode' = "copy" /\ cursor' = cursor /\ slot[cursor] # free
        \/ mode' = "idle"
        \/ mode' = "search" /\ cursor' = next(cursor) /\ cursor # read
    BY <1>8, <2>1 DEF Search
  <2>5. anchor' = anchor
    BY <2>1, <2>3, <2>4 DEF anchor
  <2>6. Holding(w)'
    BY <2>1, <2>2, <2>5 DEF Holding
  <2>7. ASSUME mode' = "search"
        PROVE  \E d \in 1 .. Slots : cursor' = place(read, d) /\ w <= d
    <3>1. c # Slots
      BY <1>0, <2>2, <2>4, <2>7, Places
    <3>2. c \in 0 .. Slots - 1 /\ c + 1 \in 1 .. Slots /\ w <= c + 1
      BY <2>2, <3>1, AvShareAssumption
    <3>3. cursor' = place(read, c + 1)
      BY <1>0, <2>2, <2>4, <2>7, <3>2, Places
    <3> QED
      BY <3>2, <3>3
  <2> QED
    BY <2>1, <2>6, <2>7 DEF Ring, place
<1>9. CASE avshare_add
  <2>1. CASE connect /\ slot[write] = free /\ caughtUp
    <3>1. ~kept /\ empty /\ write = read
      BY <2>1 DEF caughtUp
    <3>2. mode # "copy"
      BY <1>0, <3>1 DEF empty, Stages
    <3>3. picked' = write /\ UNCHANGED <<slot, write, read, mode, cursor>>
      BY <1>9, <2>1 DEF avshare_add
    <3> QED
      BY <1>5, <3>1, <3>2, <3>3
  <2>2. CASE connect /\ slot[write] = free /\ ~caughtUp
    BY <1>1, <1>9, <2>2 DEF avshare_add
  <2>3. CASE connect /\ slot[write] # free
    BY <1>1, <1>9, <2>3 DEF avshare_add
  <2>4. CASE ~connect
    BY <1>2, <1>9, <2>4 DEF avshare_add, Stages
  <2> QED
    BY <2>1, <2>2, <2>3, <2>4
<1>10. CASE live_run
  <2>1. CASE connect
    BY <1>1, <1>10, <2>1 DEF live_run
  <2>2. CASE ~connect
    BY <1>2, <1>10, <2>2 DEF live_run, Stages
  <2> QED
    BY <2>1, <2>2
<1>11. CASE avshare_init \/ avshare_stop
  BY <1>2, <1>11 DEF avshare_init, avshare_stop, Stages
<1>12. CASE avshare_addvid \/ LiveStarted \/ LIVE_cmdSTOP \/ Joined
  BY <1>1, <1>12 DEF avshare_addvid, LiveStarted, LIVE_cmdSTOP, Joined
<1>13. ASSUME NEW frame, OnFrame(frame)
       PROVE  Ring'
  BY <1>1, <1>13 DEF OnFrame
<1> QED
  BY <1>3, <1>4, <1>6, <1>7, <1>8, <1>9, <1>10, <1>11, <1>12, <1>13 DEF Next, Encoder, Reader

-----------------------------------------------------------------------------
(* What the client is still to get, as the mapping to AvStream says it, and*)
(* as the invariant does.                                                  *)
seen(slots, from) ==
  [i \in 1 .. Cardinality({i \in Index : slots[i] # free}) |-> slots[(from + i - 1) % Slots]]

line(slots, i, w) == [k \in 1 .. w |-> slots[place(i, k - 1)]]

pipe == IF kept THEN seen(slot, anchor) ELSE <<>>
lost == gap \/ ~kept
last == IF kept THEN prev ELSE Nothing

LEMMA Line ==
  ASSUME NEW s \in [Index -> Item], NEW i \in Index, NEW w \in 0 .. Slots,
         Full(s, i, w)
  PROVE  /\ seen(s, i) = line(s, i, w)
         /\ line(s, i, w) \in Seq(Item) /\ Len(line(s, i, w)) = w
<1>1. \A k \in 1 .. w : /\ k - 1 \in 0 .. Slots - 1 /\ k - 1 \in 0 .. Slots /\ k - 1 < w
                        /\ i + k - 1 = i + (k - 1)
  BY AvShareAssumption DEF Index
<1>2. seen(s, i) = [k \in 1 .. w |-> s[(i + k - 1) % Slots]]
  BY FullCount DEF seen
<1>3. seen(s, i) = line(s, i, w)
  BY <1>1, <1>2 DEF line, place
<1>4. \A k \in 1 .. w : s[place(i, k - 1)] \in Item
  <2> SUFFICES ASSUME NEW k \in 1 .. w
               PROVE  s[place(i, k - 1)] \in Item
    OBVIOUS
  <2>1. place(i, k - 1) \in Index
    BY <1>1, Places
  <2>2. s[place(i, k - 1)] # free
    BY <1>1 DEF Full
  <2> QED
    BY <2>1, <2>2
<1>5. w \in Nat
  BY AvShareAssumption
<1>6. line(s, i, w) \in [1 .. w -> Item]
  BY <1>4 DEF line
<1> QED
  BY <1>3, <1>5, <1>6

LEMMA LinePut ==
  ASSUME NEW s \in [Index -> Item], NEW i \in Index, NEW w \in 0 .. Slots - 1,
         Full(s, i, w), NEW p \in Part
  PROVE  seen([s EXCEPT ![place(i, w)] = p], i) = Append(seen(s, i), p)
<1> DEFINE t == [s EXCEPT ![place(i, w)] = p]
<1>1. /\ w \in 0 .. Slots /\ w + 1 \in 0 .. Slots /\ w \in Nat
      /\ place(i, w) \in Index
  <2>1. w \in 0 .. Slots /\ w + 1 \in 0 .. Slots /\ w \in Nat
    BY AvShareAssumption
  <2> QED
    BY <2>1, Places
<1>2. t \in [Index -> Item] /\ Full(t, i, w + 1)
  BY <1>1, FullPut, PartNotFree
<1>3. t[place(i, w)] = p /\ \A j \in Index \ {place(i, w)} : t[j] = s[j]
  BY <1>1
<1> HIDE DEF t
<1> DEFINE old == line(s, i, w)
           new == line(t, i, w + 1)
<1>4. old \in Seq(Item) /\ Len(old) = w /\ new \in Seq(Item) /\ Len(new) = w + 1
  BY <1>1, <1>2, Line
<1>5. \A k \in 1 .. w : new[k] = old[k]
  <2> SUFFICES ASSUME NEW k \in 1 .. w
               PROVE  new[k] = old[k]
    OBVIOUS
  <2>1. k - 1 \in 0 .. Slots - 1 /\ k - 1 # w /\ k - 1 \in 0 .. Slots /\ k \in 1 .. w + 1
    BY <1>1, AvShareAssumption
  <2>2. place(i, k - 1) # place(i, w) /\ place(i, k - 1) \in Index
    BY <2>1, Places
  <2> QED
    BY <1>3, <2>1, <2>2 DEF line
<1>6. new[w + 1] = p
  <2>1. w + 1 \in 1 .. w + 1 /\ (w + 1) - 1 = w
    BY <1>1
  <2> QED
    BY <1>3, <2>1 DEF line
<1> HIDE DEF old, new
<1>7. /\ Append(old, p) \in Seq(Item) /\ Len(Append(old, p)) = w + 1
      /\ \A k \in 1 .. w : Append(old, p)[k] = old[k]
      /\ Append(old, p)[w + 1] = p
  BY <1>4, PartNotFree, AppendProperties
<1>8. \A k \in 1 .. w + 1 : k \in 1 .. w \/ k = w + 1
  BY <1>1
<1>9. new = Append(old, p)
  BY <1>4, <1>5, <1>6, <1>7, <1>8, SeqEqual
<1>10. seen(t, i) = new /\ seen(s, i) = old
  BY <1>1, <1>2, Line DEF new, old
<1> QED
  BY <1>9, <1>10 DEF t

LEMMA LineTake ==
  ASSUME NEW s \in [Index -> Item], NEW i \in Index, NEW w \in 1 .. Slots,
         Full(s, i, w)
  PROVE  seen(s, i) # <<>> /\ seen([s EXCEPT ![i] = free], next(i)) = Tail(seen(s, i))
<1> DEFINE t == [s EXCEPT ![i] = free]
<1>1. w \in 0 .. Slots /\ w - 1 \in 0 .. Slots /\ w \in Nat \ {0} /\ next(i) \in Index
  BY AvShareAssumption, Modulo
<1>2. t \in [Index -> Item] /\ Full(t, next(i), w - 1)
  BY FullTake, PartNotFree
<1>3. \A j \in Index \ {i} : t[j] = s[j]
  OBVIOUS
<1> HIDE DEF t
<1> DEFINE old == line(s, i, w)
           new == line(t, next(i), w - 1)
<1>4. old \in Seq(Item) /\ Len(old) = w /\ new \in Seq(Item) /\ Len(new) = w - 1
  BY <1>1, <1>2, Line
<1>5. \A k \in 1 .. w - 1 : new[k] = old[k + 1]
  <2> SUFFICES ASSUME NEW k \in 1 .. w - 1
               PROVE  new[k] = old[k + 1]
    OBVIOUS
  <2>1. /\ k - 1 \in 0 .. Slots - 1 /\ (k - 1) + 1 = k /\ k \in 0 .. Slots - 1 /\ k # 0
        /\ 0 \in 0 .. Slots - 1 /\ k \in 0 .. Slots /\ k + 1 \in 1 .. w /\ (k + 1) - 1 = k
    BY <1>1, AvShareAssumption
  <2>2. place(next(i), k - 1) = place(i, k)
    BY <2>1, Places
  <2>3. place(i, k) # i /\ place(i, k) \in Index
    BY <2>1, Places
  <2> QED
    BY <1>3, <2>1, <2>2, <2>3 DEF line
<1> HIDE DEF old, new
<1>6. /\ old # <<>> /\ Tail(old) \in Seq(Item) /\ Len(Tail(old)) = w - 1
      /\ \A k \in 1 .. w - 1 : Tail(old)[k] = old[k + 1]
  BY <1>1, <1>4, Sequence
<1>7. new = Tail(old)
  BY <1>4, <1>5, <1>6, SeqEqual
<1>8. seen(t, next(i)) = new /\ seen(s, i) = old
  BY <1>1, <1>2, Line DEF new, old
<1> QED
  BY <1>6, <1>7, <1>8 DEF t

-----------------------------------------------------------------------------
(* Every step of the ring is one of the stream, or none.                   *)
stream == <<kept, pipe, lost, last>>

LEMMA StreamStep ==
  ASSUME Faults = {}, RingInv, [Next]_vars
  PROVE  [Stream!Next]_stream
<1> USE DEF callback, writer, reader, history
<1>1. /\ TypeOK /\ Stages /\ Callback /\ Fits /\ Ring
      /\ kept \in BOOLEAN /\ gap \in BOOLEAN
  BY DEF RingInv, Flow, TypeOK
<1>2. ASSUME UNCHANGED <<kept, slot, gap, prev>>, kept => anchor' = anchor
      PROVE  UNCHANGED stream
  <2>1. UNCHANGED pipe
    BY <1>2 DEF pipe
  <2> QED
    BY <1>2, <2>1 DEF stream, lost, last
<1>3. ASSUME UNCHANGED <<kept, slot, read, mode, cursor, prev>>, gap' = TRUE
      PROVE  Stream!Lose \/ UNCHANGED stream
  <2>1. UNCHANGED <<pipe, last>>
    BY <1>3 DEF pipe, last, anchor
  <2>2. CASE kept
    BY <1>3, <2>1, <2>2 DEF Stream!Lose, pipe, seen, waiting, lost, last
  <2>3. CASE ~kept
    BY <1>1, <1>3, <2>1, <2>3 DEF stream, lost
  <2> QED
    BY <2>2, <2>3
<1>4. ASSUME ~kept, ~kept'
      PROVE  UNCHANGED stream
  <2>1. kept' = kept
    BY <1>1, <1>4, Types DEF Stages, TypeOK
  <2> QED
    BY <1>4, <2>1 DEF stream, pipe, lost, last
<1>5. CASE Publish
  <2>1. CASE ~kept
    BY <1>4, <1>5, <2>1 DEF Publish
  <2>2. CASE kept
    <3>1. PICK w \in 0 .. Slots :
            /\ Holding(w)
            /\ mode = "search" => \E c \in 1 .. Slots : cursor = place(read, c) /\ w <= c
      BY <1>1, <2>2 DEF Ring
    <3> DEFINE p == Head(rest)
    <3>2. /\ w < Slots /\ anchor' = anchor /\ slot' = [slot EXCEPT ![place(anchor, w)] = p]
          /\ p \in Part /\ prev' = p
      BY <1>1, <1>5, <2>2, <3>1, PutStep
    <3>3. w \in 0 .. Slots - 1 /\ Full(slot, anchor, w)
      BY <3>1, <3>2, AvShareAssumption DEF Holding
    <3>4. /\ kept' = kept /\ prev' = p /\ gap' = (gap /\ p.kind # "I")
      BY <1>5, <3>2 DEF Publish
    <3>5. pipe' = Append(pipe, p) /\ Len(pipe) < Slots
      <4>1. seen(slot', anchor') = Append(seen(slot, anchor), p)
        BY <1>1, <3>2, <3>3, Anchor, LinePut
      <4>2. Len(seen(slot, anchor)) = w
        BY <1>1, <3>1, <3>3, Anchor, Line
      <4> QED
        BY <2>2, <3>2, <3>4, <4>1, <4>2 DEF pipe
    <3>6. MayFollow(p)
      <4>1. rest # <<>> /\ Head(rest) = rest[1]
        BY <1>1, <1>5, Sequence DEF Publish, Stages, TypeOK
      <4> QED
        BY <1>1, <2>2, <4>1 DEF Fits
    <3> HIDE DEF p
    <3>7. p \in Stream!Part
      BY <3>2 DEF Part, Stream!Part, Stream!Kinds, Stream!Position
    <3>8. Stream!mayFollow(p)
      BY <2>2, <3>6 DEF Stream!mayFollow, MayFollow
    <3>9. lost' = (lost /\ p.kind # "I") /\ last' = p
      BY <2>2, <3>4 DEF lost, last
    <3>10. Stream!Put
      BY <2>2, <3>4, <3>5, <3>7, <3>8, <3>9 DEF Stream!Put, pipe, seen, waiting, lost, last
    <3> QED
      BY <3>10 DEF Stream!Next
  <2> QED
    BY <2>1, <2>2
<1>6. ASSUME NEW full \in BOOLEAN, Copy(full)
      PROVE  [Stream!Next]_stream
  <2> SUFFICES ASSUME kept
               PROVE  [Stream!Next]_stream
    BY <1>4, <1>6 DEF Copy
  <2>1. UNCHANGED <<kept, gap, prev>> /\ kept
    BY <1>6 DEF Copy
  <2>2. PICK w \in 0 .. Slots : Holding(w)
    BY <1>1, <2>1 DEF Ring
  <2>3. w > 0 /\ anchor' = next(anchor) /\ slot' = [slot EXCEPT ![anchor] = free]
    BY <1>1, <1>6, <2>1, <2>2, TakeStep
  <2>4. w \in 1 .. Slots /\ Full(slot, anchor, w)
    BY <2>2, <2>3, AvShareAssumption DEF Holding
  <2>5. seen(slot, anchor) # <<>> /\ seen(slot', anchor') = Tail(seen(slot, anchor))
    BY <1>1, <2>3, <2>4, Anchor, LineTake
  <2>6. pipe # <<>> /\ pipe' = Tail(pipe)
    BY <2>1, <2>5 DEF pipe
  <2>7. Stream!Take
    BY <2>1, <2>6 DEF Stream!Take, pipe, seen, waiting, lost, last
  <2> QED
    BY <2>7 DEF Stream!Next
<1>7. ASSUME ~kept, kept', gap' = TRUE, prev' = Nothing, empty, slot' = slot, anchor' \in Index
      PROVE  Stream!Open
  <2>1. pipe' = <<>>
    <3>1. {j \in Index : slot'[j] # free} = {}
      BY <1>7 DEF empty
    <3>2. Cardinality({}) = 0
      BY FS_EmptySet
    <3>3. seen(slot', anchor') = [k \in 1 .. 0 |-> slot'[(anchor' + k - 1) % Slots]]
      BY <3>1, <3>2 DEF seen
    <3>4. seen(slot', anchor') = <<>>
      BY <3>3
    <3> QED
      BY <1>7, <3>4 DEF pipe
  <2>2. lost' = TRUE /\ last' = Nothing
    BY <1>7 DEF lost, last
  <2> QED
    BY <1>1, <1>7, <2>1, <2>2
       DEF Stream!Open, Stream!Nothing, Nothing, pipe, seen, waiting, lost, last
<1>15. kept' \in BOOLEAN /\ anchor' \in Index
  BY <1>1, Types, Anchor DEF Stages, TypeOK, anchor
<1>16. CASE avshare_connect
  <2>1. ~kept /\ kept' = settled /\ gap' = TRUE /\ prev' = Nothing /\ slot' = slot
    BY <1>1, <1>16 DEF avshare_connect, Stages
  <2>2. CASE settled
    BY <1>7, <1>15, <2>1, <2>2 DEF settled, Stream!Next
  <2>3. CASE ~settled
    BY <1>4, <2>1, <2>3
  <2> QED
    BY <2>2, <2>3
<1>17. CASE avshare_add
  <2>1. CASE connect /\ slot[write] = free /\ caughtUp
    <3>1. ~kept /\ kept' /\ gap' = TRUE /\ prev' = Nothing /\ empty /\ slot' = slot
      BY <1>17, <2>1 DEF avshare_add, caughtUp
    <3> QED
      BY <1>7, <1>15, <3>1 DEF Stream!Next
  <2>2. CASE connect /\ slot[write] = free /\ ~caughtUp
    BY <1>2, <1>17, <2>2 DEF avshare_add, anchor
  <2>3. CASE ~(connect /\ slot[write] = free)
    BY <1>3, <1>17, <2>3 DEF avshare_add, Stream!Next
  <2> QED
    BY <2>1, <2>2, <2>3
<1>8. CASE avshare_stop
  <2>1. ~kept'
    BY <1>8 DEF avshare_stop
  <2>2. CASE kept
    <3>1. pipe' = <<>> /\ lost' = TRUE /\ last' = Nothing /\ kept' = FALSE
      BY <1>15, <2>1 DEF pipe, lost, last
    <3>2. Stream!Close
      BY <2>2, <3>1 DEF Stream!Close, Stream!Nothing, Nothing, pipe, seen, waiting, lost, last
    <3> QED
      BY <3>2 DEF Stream!Next
  <2>3. CASE ~kept
    BY <1>4, <2>1, <2>3
  <2> QED
    BY <2>2, <2>3
<1>9. CASE avshare_init
  BY <1>1, <1>4, <1>9 DEF avshare_init, Stages
<1>10. ASSUME NEW frame, OnFrame(frame)
       PROVE  [Stream!Next]_stream
  <2>1. CASE gap' = TRUE
    BY <1>3, <1>10, <2>1 DEF OnFrame, Stream!Next
  <2>2. CASE gap' = gap
    BY <1>2, <1>10, <2>2 DEF OnFrame, anchor
  <2> QED
    BY <1>10, <2>1, <2>2 DEF OnFrame
<1>11. CASE avshare_addvid \/ live_run
  <2>1. CASE gap' = TRUE
    BY <1>3, <1>11, <2>1 DEF avshare_addvid, live_run, Stream!Next
  <2>2. CASE gap' = gap
    BY <1>2, <1>11, <2>2 DEF avshare_addvid, live_run, anchor
  <2> QED
    BY <1>11, <2>1, <2>2 DEF avshare_addvid, live_run
<1>12. CASE LiveStarted \/ LIVE_cmdSTOP \/ Joined \/ UNCHANGED vars
  BY <1>2, <1>12 DEF LiveStarted, LIVE_cmdSTOP, Joined, vars, anchor
<1>13. CASE ReadFrame
  BY <1>2, <1>13 DEF ReadFrame, anchor
<1>14. CASE Search
  <2> SUFFICES ASSUME kept
               PROVE  [Stream!Next]_stream
    BY <1>4, <1>14 DEF Search
  <2>1. mode = "search" /\ UNCHANGED <<kept, slot, gap, prev, read>>
    BY <1>14 DEF Search
  <2>2. mode' = "copy" => cursor' = cursor /\ slot[cursor] # free
    BY <1>14, <2>1 DEF Search
  <2>3. slot[cursor] # free => cursor = read
    BY <1>1, <2>1, Found DEF Ring
  <2> QED
    BY <1>2, <2>1, <2>2, <2>3 DEF anchor
<1> QED
  BY <1>5, <1>6, <1>8, <1>9, <1>10, <1>11, <1>12, <1>13, <1>14,
     <1>16, <1>17 DEF Next, Encoder, Reader

LEMMA RingInvariant == Faults = {} => (Spec => []RingInv)
<1> SUFFICES ASSUME Faults = {}
             PROVE  Spec => []RingInv
  OBVIOUS
<1>1. Init => RingInv
  <2> SUFFICES ASSUME Init
               PROVE  RingInv
    OBVIOUS
  <2>1. TypeOK
    BY Modulo, EmptySeq DEF Init, TypeOK, Phase
  <2>2. Len(rest) = 0 /\ Len(adding) = 0
    BY EmptySeq DEF Init
  <2>3. Stages
    BY DEF Init, Stages, idle
  <2>4. Callback
    BY <2>2 DEF Init, Callback, RestOfFrame
  <2> QED
    BY <2>1, <2>3, <2>4 DEF Init, RingInv, Flow, Fits, Ring
<1>2. RingInv /\ [Next]_vars => RingInv'
  <2> SUFFICES ASSUME RingInv, [Next]_vars
               PROVE  RingInv'
    OBVIOUS
  <2>1. TypeOK /\ Stages /\ Callback /\ Fits /\ Ring
    BY DEF RingInv, Flow
  <2>2. TypeOK'
    BY <2>1, Types DEF Stages
  <2>3. CASE Next
    BY <2>1, <2>2, <2>3, StagesKept, CallbackKept, FitsKept, RingKept DEF RingInv, Flow
  <2>4. CASE UNCHANGED vars
    BY <2>1, <2>2, <2>4
       DEF RingInv, Flow, vars, writer, callback, reader, history, Stages, idle, Callback,
           RestOfFrame, Announced, Fits, MayFollow, Ring, Holding, anchor
  <2> QED
    BY <2>3, <2>4
<1> QED
  BY <1>1, <1>2, PTL DEF Spec

(* Whatever goes wrong, the types are kept: the indices of both sides stay *)
(* in the ring, and what the writer has found a slot for it still has.     *)
THEOREM TypeCorrect == Spec => []TypeOK
BY TypesInvariant, PTL

(* The three accounts of the ring tally for every client who is kept: the  *)
(* slots that are full are the parts that wait, from the reader's index up *)
(* to the writer's, and what comes next may follow them                    *)
(* (record/avshare.c, rtspLive/stream/avshare.c). Clients come back as     *)
(* soon as they like.                                                      *)
THEOREM AccountsTally == Faults = {} => (Spec => []RingInv)
BY RingInvariant

(* The ring implements the stream: unless the writer overtakes a search,   *)
(* parts arrive once, whole and in order, and after a loss only what can be*)
(* decoded without what is missing; from the beginning for a client who    *)
(* comes when the recorder has noticed that the last one is gone, and for  *)
(* any other from the parameter sets on that find him caught up.           *)
THEOREM StreamImplemented == Faults = {} => (Spec => StreamKept)
<1> SUFFICES ASSUME Faults = {}
             PROVE  Spec => StreamKept
  OBVIOUS
<1>1. Init => Stream!Init
  BY DEF Init, Stream!Init, Stream!Nothing, Nothing
<1>2. RingInv /\ [Next]_vars => [Stream!Next]_stream
  BY StreamStep
<1>3. Spec => []RingInv
  BY RingInvariant
<1>4. Init /\ []RingInv /\ [][Next]_vars => Stream!Init /\ [][Stream!Next]_stream
  BY <1>1, <1>2, PTL
<1> QED
  BY <1>3, <1>4, PTL
     DEF Spec, StreamKept, Stream!Spec, stream, pipe, seen, lost, last, waiting
=============================================================================
