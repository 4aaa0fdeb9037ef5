--------------------------- MODULE RecorderService ---------------------------
(***************************************************************************)
(* What the recorder process promises to those who use it: the goggle's    *)
(* app, which posts commands and reads /tmp/record.dat, and the repair     *)
(* script, which makes it quit and starts it again.  Commands are obeyed   *)
(* in the order they were posted; a session begins only while the last     *)
(* command taken asked for one, may end at any time (the card is full or   *)
(* gone, a step of starting it failed), and record.dat is set to           *)
(* "recording" only while there is one.                                    *)
(*                                                                         *)
(* Module Recorder implements this one; module Dvr is built on it.         *)
(***************************************************************************)
EXTENDS Naturals, Sequences

(* Both users of this module assume MaxQueue \in Nat \ {0}.                *)
CONSTANT MaxQueue        \* bound: the commands waiting in the queue

VARIABLES
  phase,      \* "serving", "leaving" (told to quit), "closed" (its queue is
              \* removed), "quit", or "crashed"
  queue,      \* the commands not yet taken
  wanted,     \* the last command taken was START
  recording,  \* a session is going
  says        \* record.dat says so

vars == <<phase, queue, wanted, recording, says>>

Commands == {"start", "stop", "quit"}
Phases == {"serving", "leaving", "closed", "quit", "crashed"}
Down == {"quit", "crashed"}

Init ==
  /\ phase = "serving" /\ queue = <<>>
  /\ wanted = FALSE /\ recording = FALSE /\ says = FALSE

(* Only a crash leaves the queue behind for those who go on posting.       *)
Send(cmd) ==
  /\ phase \in {"serving", "leaving", "crashed"} /\ Len(queue) < MaxQueue
  /\ queue' = Append(queue, cmd)
  /\ UNCHANGED <<phase, wanted, recording, says>>

Take ==
  /\ phase = "serving" /\ queue # <<>>
  /\ queue' = Tail(queue)
  /\ wanted' = IF Head(queue) = "quit" THEN wanted ELSE Head(queue) = "start"
  /\ phase' = IF Head(queue) = "quit" THEN "leaving" ELSE phase
  /\ says' \in BOOLEAN
  /\ says' => says \/ recording
  /\ UNCHANGED recording

Begin ==
  /\ phase \in {"serving", "leaving"} /\ wanted /\ ~recording
  /\ recording' = TRUE /\ says' = TRUE
  /\ UNCHANGED <<phase, queue, wanted>>

End ==
  /\ recording /\ recording' = FALSE
  /\ UNCHANGED <<phase, queue, wanted, says>>

(* The frames stopped or came back, the disk is in trouble, or the session *)
(* is over and record.dat now says so.                                     *)
Watch ==
  /\ phase \notin Down
  /\ says' = ~says /\ (says' => recording)
  /\ UNCHANGED <<phase, queue, wanted, recording>>

CloseQueue ==
  /\ phase = "leaving" /\ phase' = "closed" /\ queue' = <<>>
  /\ UNCHANGED <<wanted, recording, says>>

Quit ==
  /\ phase = "closed" /\ ~recording /\ phase' = "quit" /\ says' = FALSE
  /\ UNCHANGED <<queue, wanted, recording>>

(* What it left in the queue and in record.dat stays.                      *)
Crash ==
  /\ phase \notin Down /\ phase' = "crashed" /\ recording' = FALSE
  /\ UNCHANGED <<queue, wanted, says>>

(* The next process drops at most one message of those left behind.        *)
Restart ==
  /\ phase \in Down /\ phase' = "serving"
  /\ queue' = IF queue = <<>> THEN queue ELSE Tail(queue)
  /\ wanted' = FALSE /\ says' = FALSE
  /\ UNCHANGED recording

Serve == Take \/ Begin \/ End \/ Watch \/ CloseQueue \/ Quit

Next == Serve \/ Crash \/ Restart \/ \E cmd \in Commands : Send(cmd)

Spec == Init /\ [][Next]_vars

(* What a running recorder does sooner or later, whatever else happens:    *)
(* take a command, end a session nobody wants, say that one is over, and   *)
(* leave.  It need not begin one.                                          *)
Fairness ==
  /\ WF_vars(Take)
  /\ WF_vars(End /\ (~wanted \/ phase = "closed"))
  /\ WF_vars(Watch /\ ~recording)
  /\ WF_vars(CloseQueue \/ Quit)

FairSpec == Spec /\ Fairness
=============================================================================
