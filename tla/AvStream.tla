------------------------------ MODULE AvStream ------------------------------
(***************************************************************************)
(* What a client of the live stream is promised, with no slots, flags or   *)
(* indices in sight: the parts of the frames come in the order in which    *)
(* they were encoded, and after a gap, and at the beginning, nothing comes *)
(* that cannot be decoded without the frames that are missing.             *)
(***************************************************************************)
EXTENDS Naturals, Sequences

CONSTANT Capacity       \* how many parts may be waiting

VARIABLES
  client,      \* somebody is connected
  pipe,        \* the parts that wait for him
  gap,         \* something was lost since the last part that went in
  prev         \* that part

Kinds == {"sps", "I", "P"}
Position == {"begin", "middle", "end", "whole"}
Part == [kind : Kinds, pos : Position]
Nothing == [kind |-> "none", pos |-> "none"]

Init == client = FALSE /\ pipe = <<>> /\ gap = TRUE /\ prev = Nothing

(* Without a gap the rest of a frame follows its beginning, and the next   *)
(* frame a frame that is complete. After one there has to be an I frame,   *)
(* or what announces it.                                                   *)
mayFollow(p) ==
  IF p.pos \in {"middle", "end"}
  THEN ~gap /\ prev.kind = p.kind /\ prev.pos \in {"begin", "middle"}
  ELSE IF gap THEN p.kind # "P" ELSE prev.pos \in {"end", "whole"}

Open == ~client /\ client' = TRUE /\ pipe' = <<>> /\ gap' = TRUE /\ prev' = Nothing

Put ==
  /\ client /\ Len(pipe) < Capacity
  /\ \E p \in Part :
       /\ mayFollow(p) /\ pipe' = Append(pipe, p) /\ prev' = p
       /\ gap' = (gap /\ p.kind # "I")
  /\ UNCHANGED client

Lose == client /\ gap' = TRUE /\ UNCHANGED <<client, pipe, prev>>

Take == client /\ pipe # <<>> /\ pipe' = Tail(pipe) /\ UNCHANGED <<client, gap, prev>>

Close == client /\ client' = FALSE /\ pipe' = <<>> /\ gap' = TRUE /\ prev' = Nothing

Next == Open \/ Put \/ Lose \/ Take \/ Close

Spec == Init /\ [][Next]_<<client, pipe, gap, prev>>
=============================================================================
