---------------------------- MODULE TunerProofs ----------------------------
(***************************************************************************)
(* What the two receivers and those who switch them guarantee, with and    *)
(* without automatic detection and whatever happens around them.           *)
(***************************************************************************)
EXTENDS Tuner, SequenceTheorems, TLAPS

(* The idle check acts on the source that it read without the lock, and a  *)
(* channel command may put analog video on the screen in between: they are *)
(* not both there.                                                         *)
Apart == ~(AutoDetect /\ {"retune", "idle"} \subseteq Inputs)

(* What a thread does without the lock, what it does under it, and what it *)
(* does last before it gives the lock back or thinks again.                *)
Outside == Bandwidths \cup
  {"close", "open", "avOn", "noteOn", "noteOff", "clear", "bwTick", "idle", "forget", "cross",
   "probe", "compare", "look", "verdict"}
Inside == States \cup Receivers \cup Bandwidths \cup
  {"close", "open", "avOn", "avOff", "noteOn", "noteOff", "clear", "hop", "adopt", "doze", "wake"}
Closers == {"unlock", "try", "recheck"}

(* From the m-th step on a program needs no lock; or it needs it up to the *)
(* n-th, a closer.                                                         *)
Free(s, m) == \A i \in m .. Len(s) : s[i] \in Outside
Section(s, m, n) ==
  /\ n \in m .. Len(s) /\ s[n] \in Closers
  /\ \A i \in m .. n - 1 : s[i] \in Inside
  /\ Free(s, n + 1)

(* The steps from m to n, without n, have one of on after which none of    *)
(* offs comes; or none of offs at all.                                     *)
Last(s, m, n, on, offs) ==
  \E i \in m .. n - 1 : s[i] \in on /\ \A j \in i + 1 .. n - 1 : s[j] \notin offs
Never(s, m, n, offs) == \A i \in m .. n - 1 : s[i] \notin offs
Ends(s, n, on, offs, now) == Last(s, 1, n, on, offs) \/ (now /\ Never(s, 1, n, offs))

(* A section that leaves the picture as it is, shows HDZero, or switches   *)
(* the analog receiver on, whatever there was before it.                   *)
SelfContained(s, m, n) ==
  \/ \A i \in m .. n - 1 : s[i] \in Outside
  \/ Last(s, m, n, {"hdzero"}, {"analog"})
  \/ Last(s, m, n, {"avOn"}, {"avOff"})

(* At the end of the section under way: no analog picture that is dark.    *)
Keeps(s, n) ==
  Apart =>
    \/ saving
    \/ Ends(s, n, {"menu", "sleep", "doze"}, {"video"}, app # "video")
    \/ Ends(s, n, {"hdzero"}, {"analog"}, source = "hdzero")
    \/ Ends(s, n, {"avOn"}, {"avOff"}, avOn)

Lit == Apart /\ app = "video" /\ source = "analog" /\ ~saving => avOn

(* The idle check, the only one who switches the receiver off unlocked.    *)
Idling(t) ==
  /\ t = "peripheral" /\ AutoDetect /\ "idle" \in Inputs
  /\ Apart => source = "hdzero"

Unheld(t) ==
  \/ Free(todo[t], 1)
  \/ At(t, "avOff") /\ Free(todo[t], 2) /\ Idling(t)
  \/ At(t, "lock") /\ \E n \in 2 .. Len(todo[t]) :
                        Section(todo[t], 2, n) /\ SelfContained(todo[t], 2, n)

Held(t) ==
  \/ \E n \in 1 .. Len(todo[t]) : Section(todo[t], 1, n) /\ Keeps(todo[t], n)
  \/ /\ At(t, "unlock") /\ Lit /\ Len(todo[t]) > 1 /\ todo[t][2] = "lock"
     /\ \E n \in 3 .. Len(todo[t]) : Section(todo[t], 3, n) /\ SelfContained(todo[t], 3, n)

Control == \A t \in Threads : IF lvgl = t THEN Held(t) ELSE Unheld(t)

(* A bandwidth is adopted only when one was found.                         *)
Found ==
  \A j \in 1 .. Len(todo["peripheral"]) : todo["peripheral"][j] = "adopt" =>
    found # "none" /\ (j = 1 \/ (j = 2 /\ At("peripheral", "lock")))

(* Without channel commands only the crossover changes the source.         *)
Sources ==
  "retune" \notin Inputs =>
    \A t \in Threads \ {"peripheral"} : \A j \in 1 .. Len(todo[t]) : todo[t][j] \notin Receivers

TypeInv == TypeOK /\ Found
TunerInv == TypeInv /\ Control /\ Sources /\ (lvgl = "none" => Lit)
-----------------------------------------------------------------------------
(* Programs as sequences.                                                  *)
LEMMA Pop ==
  ASSUME NEW s \in Seq(Steps), s # <<>>
  PROVE  /\ Tail(s) \in Seq(Steps) /\ Len(s) \in Nat \ {0} /\ Len(Tail(s)) = Len(s) - 1
         /\ Head(s) = s[1] /\ s[1] \in Steps
         /\ \A i \in 1 .. Len(s) - 1 : Tail(s)[i] = s[i + 1]
<1>1. Len(s) \in Nat \ {0} /\ Tail(s) \in Seq(Steps) /\ Len(Tail(s)) = Len(s) - 1
  BY HeadTailProperties, EmptySeq, LenProperties
<1>2. \A i \in 1 .. Len(s) - 1 : Tail(s)[i] = s[i + 1]
  BY <1>1
<1>3. Head(s) = s[1] /\ s[1] \in Steps
  BY <1>1, HeadTailProperties
<1> QED
  BY <1>1, <1>2, <1>3

LEMMA Put ==
  ASSUME NEW a \in Seq(Steps), NEW b \in Seq(Steps)
  PROVE  /\ a \o b \in Seq(Steps) /\ Len(a \o b) = Len(a) + Len(b)
         /\ Len(a) \in Nat /\ Len(b) \in Nat
         /\ \A i \in 1 .. Len(a) : (a \o b)[i] = a[i]
         /\ \A i \in 1 .. Len(b) : (a \o b)[Len(a) + i] = b[i]
BY ConcatProperties, LenProperties

LEMMA StepKinds ==
  /\ Outside \subseteq Steps /\ Inside \subseteq Steps /\ Closers \subseteq Steps
  /\ "lock" \in Steps /\ "nothing" \notin Steps
  /\ Outside \cap Closers = {} /\ Inside \cap Closers = {}
  /\ "lock" \notin Outside \cup Inside \cup Closers
BY DEF Outside, Inside, Closers, Steps, States, Receivers, Bandwidths

LEMMA AtHead ==
  ASSUME TypeOK, NEW t \in Threads, NEW x \in Steps, At(t, x)
  PROVE  /\ todo[t] \in Seq(Steps) /\ todo[t] # <<>> /\ Head(todo[t]) = x /\ todo[t][1] = x
         /\ Len(todo[t]) \in Nat \ {0}
<1>1. todo[t] \in Seq(Steps) /\ todo[t] # <<>> /\ Head(todo[t]) = x
  BY StepKinds DEF TypeOK, At, doing
<1> QED
  BY <1>1, Pop

(* A switch between what precedes it and the end of its section, with what *)
(* the thread does afterwards.                                             *)
LEMMA Framed ==
  ASSUME NEW a \in Seq(Steps), NEW b \in Seq(Steps), NEW c \in Seq(Steps),
         NEW u, u = <<"unlock">>,
         NEW p, p = a \o b \o u \o c, NEW n, n = Len(a) + Len(b) + 1
  PROVE  /\ p \in Seq(Steps)
         /\ n \in Nat \ {0} /\ n <= Len(p) /\ Len(p) \in Nat /\ p[n] = "unlock"
         /\ \A i \in 1 .. Len(a) : p[i] = a[i]
         /\ \A i \in Len(a) + 1 .. n - 1 : i - Len(a) \in 1 .. Len(b) /\ p[i] = b[i - Len(a)]
         /\ \A i \in n + 1 .. Len(p) : i - n \in 1 .. Len(c) /\ p[i] = c[i - n]
<1> DEFINE ab == a \o b
           abu == ab \o u
<1>0. p = abu \o c
  OBVIOUS
<1>1. u \in Seq(Steps) /\ Len(u) = 1 /\ u[1] = "unlock"
  BY DEF Steps
<1>2. /\ ab \in Seq(Steps) /\ Len(ab) = Len(a) + Len(b) /\ Len(a) \in Nat /\ Len(b) \in Nat
      /\ \A i \in 1 .. Len(a) : ab[i] = a[i]
      /\ \A i \in 1 .. Len(b) : ab[Len(a) + i] = b[i]
  BY Put
<1> HIDE DEF ab
<1>3. /\ abu \in Seq(Steps) /\ Len(abu) = Len(ab) + 1
      /\ \A i \in 1 .. Len(ab) : abu[i] = ab[i]
      /\ abu[Len(ab) + 1] = "unlock"
  <2>1. /\ abu \in Seq(Steps) /\ Len(abu) = Len(ab) + Len(u)
        /\ \A i \in 1 .. Len(ab) : abu[i] = ab[i]
        /\ \A i \in 1 .. Len(u) : abu[Len(ab) + i] = u[i]
    <3>1. ab \in Seq(Steps) /\ u \in Seq(Steps)
      BY <1>1, <1>2
    <3> QED
      BY <3>1, Put
  <2> QED
    BY <1>1, <2>1
<1> HIDE DEF abu
<1>4. /\ p \in Seq(Steps) /\ Len(p) = Len(abu) + Len(c) /\ Len(c) \in Nat
      /\ \A i \in 1 .. Len(abu) : p[i] = abu[i]
      /\ \A i \in 1 .. Len(c) : p[Len(abu) + i] = c[i]
  <2>1. abu \in Seq(Steps) /\ c \in Seq(Steps)
    BY <1>3
  <2>2. /\ abu \o c \in Seq(Steps) /\ Len(abu \o c) = Len(abu) + Len(c) /\ Len(c) \in Nat
        /\ \A i \in 1 .. Len(abu) : (abu \o c)[i] = abu[i]
        /\ \A i \in 1 .. Len(c) : (abu \o c)[Len(abu) + i] = c[i]
    BY <2>1, Put
  <2> QED
    BY <1>0, <2>2
<1>5. n \in Nat \ {0} /\ n <= Len(p) /\ Len(p) \in Nat /\ p[n] = "unlock"
  <2>1. n \in Nat \ {0} /\ n = Len(ab) + 1 /\ n = Len(abu)
    BY <1>2, <1>3
  <2>2. p[n] = abu[n] /\ abu[n] = "unlock"
    BY <1>3, <1>4, <2>1
  <2> QED
    BY <1>4, <2>1, <2>2
<1>6. \A i \in 1 .. Len(a) : p[i] = a[i]
  BY <1>2, <1>3, <1>4
<1>7. ASSUME NEW i \in Len(a) + 1 .. n - 1
      PROVE  i - Len(a) \in 1 .. Len(b) /\ p[i] = b[i - Len(a)]
  <2>1. /\ i - Len(a) \in 1 .. Len(b) /\ i = Len(a) + (i - Len(a))
        /\ i \in 1 .. Len(ab) /\ i \in 1 .. Len(abu)
    BY <1>2, <1>3
  <2> QED
    BY <1>2, <1>3, <1>4, <2>1
<1>8. ASSUME NEW i \in n + 1 .. Len(p)
      PROVE  i - n \in 1 .. Len(c) /\ p[i] = c[i - n]
  <2>1. i - n \in 1 .. Len(c) /\ i = Len(abu) + (i - n)
    BY <1>2, <1>3, <1>4
  <2> QED
    BY <1>4, <2>1
<1> QED
  BY <1>3, <1>4, <1>5, <1>6, <1>7, <1>8 DEF abu, ab

(* What Then, Done and Begin do to the threads.                            *)
LEMMA ThenMoves ==
  ASSUME TypeOK, NEW t \in Threads, todo[t] # <<>>, NEW steps \in Seq(Steps), Then(t, steps)
  PROVE  /\ todo' \in [Threads -> Seq(Steps)]
         /\ todo'[t] = steps \o Tail(todo[t])
         /\ \A u \in Threads \ {t} : todo'[u] = todo[u]
<1>1. Tail(todo[t]) \in Seq(Steps)
  BY Pop DEF TypeOK
<1> DEFINE new == steps \o Tail(todo[t])
<1>2. new \in Seq(Steps)
  BY <1>1, Put
<1>3. todo' = [todo EXCEPT ![t] = new]
  BY DEF Then
<1> HIDE DEF new
<1>4. todo' \in [Threads -> Seq(Steps)] /\ todo'[t] = new
      /\ \A u \in Threads \ {t} : todo'[u] = todo[u]
  BY <1>2, <1>3 DEF TypeOK
<1> QED
  BY <1>4 DEF new

LEMMA DoneMoves ==
  ASSUME TypeOK, NEW t \in Threads, todo[t] # <<>>, Done(t)
  PROVE  /\ todo' \in [Threads -> Seq(Steps)]
         /\ todo'[t] = Tail(todo[t])
         /\ \A u \in Threads \ {t} : todo'[u] = todo[u]
<1>1. <<>> \in Seq(Steps) /\ Tail(todo[t]) \in Seq(Steps)
  BY Pop DEF TypeOK
<1>2. <<>> \o Tail(todo[t]) = Tail(todo[t])
  BY <1>1, ConcatEmptySeq
<1> QED
  BY <1>1, <1>2, ThenMoves DEF Done

LEMMA BeginMoves ==
  ASSUME TypeOK, NEW t \in Threads, NEW steps \in Seq(Steps), Begin(t, steps)
  PROVE  /\ todo' \in [Threads -> Seq(Steps)] /\ todo'[t] = steps
         /\ \A u \in Threads \ {t} : todo'[u] = todo[u]
BY DEF Begin, TypeOK
-----------------------------------------------------------------------------
(* The programs, step by step.                                             *)
LEMMA Switches ==
  /\ switchTo("hdzero") = <<"avOff", "noteOff", "open", "video", "hdzero">>
  /\ switchTo("analog") = <<"close", "avOn", "noteOn", "video", "analog">>
<1>1. ASSUME NEW a1 \in Steps, NEW a2 \in Steps, NEW a3 \in Steps,
             NEW b1 \in Steps, NEW b2 \in Steps
      PROVE  <<a1, a2, a3>> \o <<b1, b2>> = <<a1, a2, a3, b1, b2>>
  <2> DEFINE a == <<a1, a2, a3>>
             b == <<b1, b2>>
             c == <<a1, a2, a3, b1, b2>>
  <2>1. a \in Seq(Steps) /\ b \in Seq(Steps) /\ c \in Seq(Steps)
    OBVIOUS
  <2>2. Len(a) = 3 /\ Len(b) = 2 /\ Len(c) = 5
    OBVIOUS
  <2>3. a \o b \in Seq(Steps) /\ Len(a \o b) = 5
    BY <2>1, <2>2, Put
  <2>4. \A i \in 1 .. 5 : (a \o b)[i] = c[i]
    OBVIOUS
  <2> QED
    BY <2>1, <2>2, <2>3, <2>4, SeqEqual
<1> QED
  BY <1>1 DEF switchTo, app_switch_to_hdzero, app_switch_to_analog, Steps, States, Receivers

LEMMA Widen ==
  /\ Seq(Inside) \subseteq Seq(Steps) /\ Seq(Inside \ Receivers) \subseteq Seq(Inside)
  /\ Seq(Steps \ {"adopt"}) \subseteq Seq(Steps)
BY StepKinds, SeqMonotonic

LEMMA Pressed ==
  ASSUME TypeOK
  PROVE  pressed \subseteq Seq(Inside \ Receivers)
<1> DEFINE S == Inside \ Receivers
<1>1. S = States \cup Bandwidths \cup {"close", "open", "avOn", "avOff", "noteOn", "noteOff",
                                       "clear", "hop", "adopt", "doze", "wake"}
  BY DEF Inside, States, Receivers, Bandwidths
<1>2. /\ app_switch_to_menu \in Seq(S) /\ app_exit_menu \in Seq(S) /\ go_sleep \in Seq(S)
      /\ <<"video">> \in Seq(S) /\ <<>> \in Seq(S) /\ <<"wake", previous>> \in Seq(S)
  <2>1. {"menu", "close", "avOff", "noteOff", "open", "avOn", "noteOn", "doze", "video", "wake"}
          \cup {previous} \subseteq S
    BY <1>1 DEF States, TypeOK
  <2> HIDE DEF S
  <2>2. app_switch_to_menu \in Seq(S) /\ go_sleep \in Seq(S)
    BY <2>1 DEF app_switch_to_menu, go_sleep
  <2>3. app_exit_menu \in Seq(S)
    BY <2>1 DEF app_exit_menu, app_switch_to_hdzero, app_switch_to_analog
  <2>4. <<"video">> \in Seq(S) /\ <<>> \in Seq(S) /\ <<"wake", previous>> \in Seq(S)
    BY <2>1
  <2> QED
    BY <2>2, <2>3, <2>4
<1>3. \A a, b \in Seq(S) : a \o b \in Seq(S)
  BY ConcatProperties
<1> HIDE DEF S
<1>4. btn_press \in Seq(S)
  BY <1>2, <1>3 DEF btn_press
<1>5. wake_up \in Seq(S)
  BY <1>2, <1>3 DEF wake_up
<1> QED
  BY <1>2, <1>4, <1>5 DEF pressed, S

LEMMA Commanded ==
  /\ commanded \subseteq Seq(Inside)
  /\ "retune" \notin Inputs => commanded = {}
  /\ \A s \in Receivers : switchTo(s) \in Seq(Inside)
<1>1. {"avOff", "noteOff", "open", "video", "hdzero", "close", "avOn", "noteOn", "analog"}
        \subseteq Inside
  BY DEF Inside, States, Receivers
<1>2. switchTo("hdzero") \in Seq(Inside) /\ switchTo("analog") \in Seq(Inside)
  <2>1. /\ <<"avOff", "noteOff", "open", "video", "hdzero">> \in Seq(Inside)
        /\ <<"close", "avOn", "noteOn", "video", "analog">> \in Seq(Inside)
    BY <1>1
  <2> QED
    BY <2>1, Switches
<1>3. \A s \in Receivers : switchTo(s) \in Seq(Inside)
  BY <1>2 DEF Receivers
<1> QED
  BY <1>3 DEF commanded

(* What the peripheral thread goes on with.                                *)
LEMMA Continuations ==
  ASSUME TypeOK
  PROVE  LET Seqs == Seq(Steps \ {"adopt"})
         IN  /\ <<>> \in Seqs /\ <<"bwTick", "idle", "cross">> \in Seqs
             /\ <<"lock", "recheck">> \in Seqs /\ <<"unlock">> \in Seqs
             /\ <<other(detected), "hop", "unlock">> \in Seqs
             /\ <<"close", "open", "unlock">> \in Seqs /\ <<detected>> \in Seqs
             /\ <<"avOff", "noteOff">> \o <<"forget">> \in Seqs
             /\ <<>> \o <<"forget">> \in Seqs /\ <<"forget">> \in Seqs
             /\ <<"probe">> \o <<"compare">> \in Seqs
             /\ <<"probe">> \o (sweep \o <<"verdict">>) \in Seqs
             /\ <<"avOn", "clear">> \in Seqs /\ <<"close">> \in Seqs
             /\ <<"lock", other(bw), "try">> \in Seqs
             /\ <<"lock">> \o switchTo("analog") \o <<"unlock">> \in Seqs
             /\ <<"unlock", "lock">> \o switchTo("analog") \o <<"unlock">> \in Seqs
<1> DEFINE S == Steps \ {"adopt"}
<1>1. detected \in S /\ other(detected) \in S /\ other(bw) \in S
  BY DEF TypeOK, other, Steps, Bandwidths
<1>2. {"bwTick", "idle", "cross", "lock", "unlock", "recheck", "hop", "close", "open", "avOff",
       "noteOff", "forget", "probe", "compare", "verdict", "avOn", "noteOn", "clear", "try",
       "wide", "narrow", "look", "video", "analog"} \subseteq S
  BY DEF Steps, Bandwidths, States, Receivers
<1>3. \A a, b \in Seq(S) : a \o b \in Seq(S)
  BY ConcatProperties
<1> HIDE DEF S
<1>4. \A x \in S : <<x>> \in Seq(S)
  OBVIOUS
<1>5. \A x, y \in S : <<x, y>> \in Seq(S)
  OBVIOUS
<1>6. \A x, y, z \in S : <<x, y, z>> \in Seq(S)
  OBVIOUS
<1>7. switchTo("analog") \in Seq(S) /\ <<>> \in Seq(S)
  <2>1. <<"close", "avOn", "noteOn", "video", "analog">> \in Seq(S) /\ <<>> \in Seq(S)
    BY <1>2
  <2> QED
    BY <2>1, Switches
<1>8. sweep \in Seq(S)
  BY <1>2, <1>3, <1>5, <1>7 DEF sweep
<1>9. /\ <<>> \in Seq(S) /\ <<"bwTick", "idle", "cross">> \in Seq(S)
      /\ <<"lock", "recheck">> \in Seq(S) /\ <<"unlock">> \in Seq(S)
      /\ <<other(detected), "hop", "unlock">> \in Seq(S)
      /\ <<"close", "open", "unlock">> \in Seq(S) /\ <<detected>> \in Seq(S)
      /\ <<"avOff", "noteOff">> \in Seq(S) /\ <<"forget">> \in Seq(S)
      /\ <<"probe">> \in Seq(S) /\ <<"compare">> \in Seq(S) /\ <<"verdict">> \in Seq(S)
      /\ <<"avOn", "clear">> \in Seq(S) /\ <<"close">> \in Seq(S)
      /\ <<"lock", other(bw), "try">> \in Seq(S)
      /\ <<"lock">> \in Seq(S) /\ <<"unlock", "lock">> \in Seq(S)
  BY <1>1, <1>2, <1>4, <1>5, <1>6, <1>7
<1> QED
  BY <1>3, <1>7, <1>8, <1>9 DEF S

LEMMA NoAdopt ==
  ASSUME TypeInv, todo["peripheral"] # <<>>, Head(todo["peripheral"]) # "lock"
  PROVE  LET s == todo["peripheral"] IN \A j \in 1 .. Len(s) - 1 : Tail(s)[j] # "adopt"
<1> DEFINE s == todo["peripheral"]
<1>1. s \in Seq(Steps) /\ s # <<>> /\ Head(s) # "lock"
  BY DEF TypeInv, TypeOK, Threads
<1>2. \A j \in 1 .. Len(s) : s[j] = "adopt" => j = 1 \/ (j = 2 /\ s[1] = "lock")
  BY <1>1, Pop DEF TypeInv, Found, At, doing
<1>3. \A j \in 1 .. Len(s) : s[j] = "adopt" => j = 1
  BY <1>1, <1>2, Pop
<1>4. Len(s) \in Nat /\ \A j \in 1 .. Len(s) - 1 : Tail(s)[j] = s[j + 1]
  BY <1>1, Pop
<1> HIDE DEF s
<1>5. ASSUME NEW j \in 1 .. Len(s) - 1
      PROVE  Tail(s)[j] # "adopt"
  BY <1>3, <1>4, j + 1 \in 1 .. Len(s), j + 1 # 1
<1> QED
  BY <1>5 DEF s

(* A thread does its next step, and the peripheral thread goes on with     *)
(* something else; where nothing is adopted.                               *)
LEMMA FoundDone ==
  ASSUME TypeInv, NEW t \in Threads, todo[t] # <<>>, Done(t),
         Head(todo[t]) # "lock" \/ t # "peripheral",
         found' = found \/ t = "peripheral"
  PROVE  Found'
<1>1. /\ todo' \in [Threads -> Seq(Steps)]
      /\ todo'[t] = Tail(todo[t])
      /\ \A u \in Threads \ {t} : todo'[u] = todo[u]
  BY DoneMoves DEF TypeInv
<1>2. CASE t = "peripheral"
  BY <1>1, <1>2, NoAdopt, Pop DEF Found, TypeInv, TypeOK
<1>3. CASE t # "peripheral"
  BY <1>1, <1>3 DEF Found, TypeInv, Threads, At, doing
<1> QED
  BY <1>2, <1>3

LEMMA FoundThen ==
  ASSUME TypeInv, todo["peripheral"] # <<>>, Head(todo["peripheral"]) # "lock",
         NEW steps \in Seq(Steps \ {"adopt"}), Then("peripheral", steps)
  PROVE  Found'
<1> DEFINE s == todo["peripheral"]
<1>1. s \in Seq(Steps) /\ s # <<>> /\ steps \in Seq(Steps) /\ "peripheral" \in Threads
  BY Widen DEF TypeInv, TypeOK, Threads
<1>2. todo'["peripheral"] = steps \o Tail(s)
  BY <1>1, ThenMoves DEF TypeInv
<1>3. Tail(s) \in Seq(Steps) /\ Len(Tail(s)) = Len(s) - 1 /\ Len(s) \in Nat
  BY <1>1, Pop
<1>4. \A j \in 1 .. Len(Tail(s)) : Tail(s)[j] # "adopt"
  BY <1>3, NoAdopt
<1>5. \A j \in 1 .. Len(steps) : steps[j] # "adopt"
  BY LenProperties
<1>6. \A j \in 1 .. Len(steps \o Tail(s)) : (steps \o Tail(s))[j] # "adopt"
  <2> SUFFICES ASSUME NEW j \in 1 .. Len(steps \o Tail(s))
               PROVE  (steps \o Tail(s))[j] # "adopt"
    OBVIOUS
  <2>1. /\ Len(steps) \in Nat /\ Len(Tail(s)) \in Nat
        /\ (steps \o Tail(s))[j] = IF j <= Len(steps) THEN steps[j] ELSE Tail(s)[j - Len(steps)]
        /\ j <= Len(steps) \/ j - Len(steps) \in 1 .. Len(Tail(s))
    BY <1>1, <1>3, ConcatProperties, LenProperties
  <2>2. CASE j <= Len(steps)
    BY <1>5, <2>1, <2>2
  <2>3. CASE ~(j <= Len(steps))
    BY <1>4, <2>1, <2>3
  <2> QED
    BY <2>2, <2>3
<1> QED
  BY <1>2, <1>6 DEF Found

LEMMA FoundLock ==
  ASSUME TypeInv, At("peripheral", "lock"), Done("peripheral"), UNCHANGED found
  PROVE  Found'
<1> DEFINE s == todo["peripheral"]
<1>1. "peripheral" \in Threads /\ s # <<>> /\ s[1] = "lock" /\ s \in Seq(Steps)
  BY AtHead, StepKinds DEF Threads, TypeInv
<1>2. todo'["peripheral"] = Tail(s)
  BY <1>1, DoneMoves DEF TypeInv
<1>3. /\ Len(s) \in Nat /\ Len(Tail(s)) = Len(s) - 1
      /\ \A j \in 1 .. Len(s) - 1 : Tail(s)[j] = s[j + 1]
  BY <1>1, Pop
<1>4. \A j \in 1 .. Len(s) : s[j] = "adopt" => found # "none" /\ (j = 1 \/ j = 2)
  BY DEF TypeInv, Found
<1> HIDE DEF s
<1>5. ASSUME NEW j \in 1 .. Len(Tail(s)), Tail(s)[j] = "adopt"
      PROVE  found # "none" /\ j = 1
  BY <1>3, <1>4, <1>5, j + 1 \in 1 .. Len(s), s[j + 1] = "adopt"
<1> QED
  BY <1>2, <1>5 DEF Found

LEMMA VerdictProgram ==
  ASSUME NEW c \in Seq(Steps), \A j \in 1 .. Len(c) : c[j] # "adopt"
  PROVE  LET a == <<"lock", "adopt">> \o switchTo("hdzero") \o <<"unlock">>
             p == a \o c
         IN  /\ a \in Seq(Steps) /\ p \in Seq(Steps) /\ p # <<>> /\ Head(p) = "lock"
             /\ \A j \in 1 .. Len(p) : p[j] = "adopt" => j = 2
<1> DEFINE a == <<"lock", "adopt">>
           b == switchTo("hdzero")
           u == <<"unlock">>
           p == a \o b \o u \o c
           n == Len(a) + Len(b) + 1
<1>1. a \in Seq(Steps) /\ Len(a) = 2 /\ a[1] = "lock"
  BY DEF Steps
<1>2. b \in Seq(Steps) /\ Len(b) = 5 /\ \A i \in 1 .. 5 : b[i] # "adopt"
  BY Switches, Widen, Commanded DEF Receivers
<1>3. u = <<"unlock">> /\ p = a \o b \o u \o c /\ n = Len(a) + Len(b) + 1
  OBVIOUS
<1> HIDE DEF a, b, u, p, n
<1>4. /\ a \o b \o u \in Seq(Steps) /\ p \in Seq(Steps)
      /\ n \in Nat \ {0} /\ n <= Len(p) /\ Len(p) \in Nat /\ p[n] = "unlock"
      /\ \A i \in 1 .. Len(a) : p[i] = a[i]
      /\ \A i \in Len(a) + 1 .. n - 1 : i - Len(a) \in 1 .. Len(b) /\ p[i] = b[i - Len(a)]
      /\ \A i \in n + 1 .. Len(p) : i - n \in 1 .. Len(c) /\ p[i] = c[i - n]
  <2>1. a \in Seq(Steps) /\ b \in Seq(Steps) /\ u \in Seq(Steps)
    BY <1>1, <1>2 DEF u, Steps
  <2>2. p \in Seq(Steps) /\ a \o b \o u \in Seq(Steps)
    <3>1. a \o b \in Seq(Steps)
      BY <2>1, Put
    <3>2. a \o b \o u \in Seq(Steps)
      BY <2>1, <3>1, Put
    <3> QED
      BY <1>3, <2>1, <3>2, Put
  <2>3. n \in Nat \ {0} /\ n <= Len(p) /\ Len(p) \in Nat /\ p[n] = "unlock"
    BY <1>3, <2>1, Framed
  <2>4. \A i \in 1 .. Len(a) : p[i] = a[i]
    BY <1>3, <2>1, Framed
  <2>5. \A i \in Len(a) + 1 .. n - 1 : i - Len(a) \in 1 .. Len(b) /\ p[i] = b[i - Len(a)]
    BY <1>3, <2>1, Framed
  <2>6. \A i \in n + 1 .. Len(p) : i - n \in 1 .. Len(c) /\ p[i] = c[i - n]
    BY <1>3, <2>1, Framed
  <2> QED
    BY <2>2, <2>3, <2>4, <2>5, <2>6
<1>5. n = 8 /\ p[1] = "lock"
  BY <1>1, <1>2, <1>3, <1>4
<1>6. ASSUME NEW j \in 1 .. Len(p), p[j] = "adopt"
      PROVE  j = 2
  <2>1. j = 1 \/ j = 2 \/ j \in 3 .. 7 \/ j = 8 \/ j \in 9 .. Len(p)
    BY <1>4
  <2>2. ~(j = 1) /\ ~(j = 8)
    BY <1>4, <1>5, <1>6
  <2>3. ASSUME j \in 3 .. 7
        PROVE  FALSE
    <3>1. j \in Len(a) + 1 .. n - 1 /\ j - Len(a) \in 1 .. 5
      BY <1>1, <1>5, <2>3
    <3>2. p[j] = b[j - Len(a)]
      BY <1>4, <3>1
    <3> QED
      BY <1>2, <1>6, <3>1, <3>2
  <2>4. ASSUME j \in 9 .. Len(p)
        PROVE  FALSE
    <3>1. j \in n + 1 .. Len(p)
      BY <1>5, <2>4
    <3>2. j - n \in 1 .. Len(c) /\ p[j] = c[j - n]
      BY <1>4, <3>1
    <3> QED
      BY <1>6, <3>2
  <2> QED
    BY <2>1, <2>2, <2>3, <2>4
<1>7. p # <<>> /\ Head(p) = "lock"
  BY <1>4, <1>5, Pop
<1> QED
  BY <1>4, <1>6, <1>7 DEF p, a, b, u

LEMMA VerdictThen ==
  ASSUME TypeInv, At("peripheral", "verdict"), found # "none", UNCHANGED found,
         Then("peripheral", <<"lock", "adopt">> \o switchTo("hdzero") \o <<"unlock">>)
  PROVE  Found' /\ todo' \in [Threads -> Seq(Steps)]
<1> DEFINE s == todo["peripheral"]
           a == <<"lock", "adopt">> \o switchTo("hdzero") \o <<"unlock">>
           p == a \o Tail(s)
<1>1. /\ "peripheral" \in Threads /\ s # <<>> /\ Head(s) = "verdict" /\ s \in Seq(Steps)
      /\ Then("peripheral", a)
  BY AtHead, StepKinds DEF Threads, TypeInv, Outside
<1>2. /\ Tail(s) \in Seq(Steps)
      /\ \A j \in 1 .. Len(Tail(s)) : Tail(s)[j] # "adopt"
  BY <1>1, Pop, NoAdopt
<1>3. /\ a \in Seq(Steps) /\ p \in Seq(Steps) /\ p # <<>> /\ Head(p) = "lock"
      /\ \A j \in 1 .. Len(p) : p[j] = "adopt" => j = 2
  BY <1>2, VerdictProgram
<1> HIDE DEF a
<1>4. todo' \in [Threads -> Seq(Steps)] /\ todo'["peripheral"] = p
  BY <1>1, <1>3, ThenMoves DEF TypeInv
<1> HIDE DEF p
<1>5. At("peripheral", "lock")'
  BY <1>3, <1>4 DEF At, doing
<1> QED
  BY <1>3, <1>4, <1>5 DEF Found

(* The step of a thread that is at x.                                      *)
LEMMA DoneKeeps ==
  ASSUME TypeInv, NEW t \in Threads, NEW x \in Steps, At(t, x), Done(t),
         found' = found \/ (t = "peripheral" /\ x # "lock")
  PROVE  todo' \in [Threads -> Seq(Steps)] /\ Found'
<1>1. todo[t] # <<>> /\ Head(todo[t]) = x
  BY AtHead DEF TypeInv
<1>2. todo' \in [Threads -> Seq(Steps)]
  BY <1>1, DoneMoves DEF TypeInv
<1>3. CASE x = "lock" /\ t = "peripheral"
  BY <1>2, <1>3, FoundLock
<1>4. CASE ~(x = "lock" /\ t = "peripheral")
  BY <1>1, <1>2, <1>4, FoundDone
<1> QED
  BY <1>2, <1>3, <1>4

LEMMA ThenKeeps ==
  ASSUME TypeInv, NEW x \in Steps \ {"lock"}, At("peripheral", x),
         NEW steps \in Seq(Steps \ {"adopt"}), Then("peripheral", steps)
  PROVE  todo' \in [Threads -> Seq(Steps)] /\ Found'
<1>1. "peripheral" \in Threads /\ steps \in Seq(Steps)
  BY Widen DEF Threads
<1>2. todo["peripheral"] # <<>> /\ Head(todo["peripheral"]) = x
  BY <1>1, AtHead DEF TypeInv
<1> QED
  BY <1>1, <1>2, ThenMoves, FoundThen DEF TypeInv

LEMMA StepTypes ==
  ASSUME TypeInv, NEW t \in Threads, Step(t)
  PROVE  TypeInv'
<1> USE DEF TypeInv
<1>1. \E x \in Steps : At(t, x)
  BY DEF Step, Lock, Unlock, Open, HDZero_Close, rtc6715_init, Notify, app_state_push, SetSource,
         Steps, States, Receivers, Bandwidths
<1>2. PICK x \in Steps : At(t, x)
  BY <1>1
<1>3. Done(t) /\ found' = found
  BY DEF Step, Lock, Unlock, Open, HDZero_Close, rtc6715_init, Notify, app_state_push, SetSource,
         receiver, state, analog
<1>4. todo' \in [Threads -> Seq(Steps)] /\ Found'
  BY <1>2, <1>3, DoneKeeps
<1>5. hdzero_effective_bw \in Bandwidths
  BY DEF hdzero_effective_bw, TypeOK, Bandwidths
<1>6. TypeOK'
  <2>1. CASE Lock(t) \/ Unlock(t)
    BY <1>4, <2>1 DEF Lock, Unlock, TypeOK, state, receiver, analog
  <2>2. CASE Open(t)
    <3>1. PICK b \in Bandwidths : HDZero_open(b)
      BY <1>5, <2>2 DEF Open
    <3>2. open' = TRUE /\ bw' \in Bandwidths
      BY <3>1 DEF HDZero_open, TypeOK
    <3>3. garbage' \in BOOLEAN
      <4>1. (garbage /\ open /\ bw = b) \in BOOLEAN
        OBVIOUS
      <4> QED
        BY <3>1, <4>1 DEF HDZero_open
    <3> QED
      BY <1>4, <2>2, <3>2, <3>3 DEF Open, TypeOK, state, analog
  <2>3. CASE HDZero_Close(t)
    BY <1>4, <2>3 DEF HDZero_Close, TypeOK, state, analog
  <2>4. CASE rtc6715_init(t)
    <3>1. avOn' \in BOOLEAN
      BY <2>4 DEF rtc6715_init
    <3> QED
      BY <1>4, <2>4, <3>1 DEF rtc6715_init, TypeOK, state, receiver
  <2>5. CASE Notify(t)
    <3>1. avDown' \in BOOLEAN /\ probed' \in BOOLEAN
      BY <2>5 DEF Notify, TypeOK
    <3> QED
      BY <1>4, <2>5, <3>1 DEF Notify, TypeOK, state, receiver
  <2>6. CASE app_state_push(t)
    BY <1>4, <2>6 DEF app_state_push, TypeOK, receiver, analog
  <2>7. CASE SetSource(t)
    BY <1>4, <2>7 DEF SetSource, TypeOK, receiver, analog
  <2> QED
    BY <2>1, <2>2, <2>3, <2>4, <2>5, <2>6, <2>7 DEF Step
<1> QED
  BY <1>4, <1>6

(* ... and the peripheral thread's own.                                    *)
LEMMA PeripheralTypes ==
  ASSUME TypeInv, Peripheral
  PROVE  TypeInv'
<1> USE DEF TypeInv
<1>0. "peripheral" \in Threads
  BY DEF Threads
<1>1. CASE Tick
  <2>1. todo' \in [Threads -> Seq(Steps)] /\ todo'["peripheral"] = <<"bwTick", "idle", "cross">>
    BY <1>0, <1>1, Continuations, Widen, BeginMoves DEF Tick
  <2> QED
    BY <1>1, <2>1 DEF Tick, TypeOK, Found, state, receiver, analog
<1>2. ASSUME NEW attempt \in BOOLEAN, BwTick(attempt)
      PROVE  TypeInv'
  <2>1. (IF attempt THEN <<"lock", "recheck">> ELSE <<>>) \in Seq(Steps \ {"adopt"})
    BY Continuations
  <2>2. todo' \in [Threads -> Seq(Steps)] /\ Found'
    BY <1>2, <2>1, ThenKeeps DEF BwTick, Steps
  <2>3. detected' \in Bandwidths
    BY <1>2 DEF BwTick, TypeOK
  <2> QED
    BY <1>2, <2>2, <2>3 DEF BwTick, TypeOK, state, receiver, analog
<1>3. CASE Recheck
  <2>1. (IF ~watchesHDZero \/ rx_valid THEN <<"unlock">>
         ELSE IF setting = "both" THEN <<other(detected), "hop", "unlock">>
         ELSE <<"close", "open", "unlock">>) \in Seq(Steps \ {"adopt"})
    BY Continuations
  <2>2. todo' \in [Threads -> Seq(Steps)] /\ Found'
    BY <1>3, <2>1, ThenKeeps DEF Recheck, Steps
  <2> QED
    BY <1>3, <2>2 DEF Recheck, TypeOK, state, receiver, analog
<1>4. CASE Hop
  <2>1. todo' \in [Threads -> Seq(Steps)] /\ Found'
    <3>1. CASE rx_valid
      BY <1>0, <1>4, <3>1, DoneKeeps DEF Hop, Steps
    <3>2. CASE ~rx_valid
      BY <1>4, <3>2, Continuations, ThenKeeps DEF Hop, Steps
    <3> QED
      BY <3>1, <3>2
  <2>2. detected' \in Bandwidths /\ probed' \in BOOLEAN
    BY <1>4 DEF Hop, TypeOK
  <2> QED
    BY <1>4, <2>1, <2>2 DEF Hop, TypeOK, state, receiver, analog
<1>5. CASE IdleTick
  <2>1. todo' \in [Threads -> Seq(Steps)] /\ Found'
    <3>1. CASE Done("peripheral")
      BY <1>0, <1>5, <3>1, DoneKeeps DEF IdleTick, Steps
    <3>2. CASE ~Done("peripheral")
      <4> DEFINE steps == (IF source = "hdzero" THEN <<"avOff", "noteOff">> ELSE <<>>)
                            \o <<"forget">>
      <4>1. steps \in Seq(Steps \ {"adopt"})
        BY Continuations
      <4>2. At("peripheral", "idle") /\ Then("peripheral", steps)
        BY <1>5, <3>2 DEF IdleTick
      <4> HIDE DEF steps
      <4> QED
        BY <4>1, <4>2, ThenKeeps DEF Steps
    <3> QED
      BY <3>1, <3>2
  <2> QED
    BY <1>5, <2>1 DEF IdleTick, TypeOK, state, receiver, analog
<1>6. CASE Forget
  <2>1. todo' \in [Threads -> Seq(Steps)] /\ Found'
    BY <1>0, <1>6, DoneKeeps DEF Forget, Steps
  <2> QED
    BY <1>6, <2>1 DEF Forget, TypeOK, state, receiver, analog
<1>7. ASSUME NEW attempt \in BOOLEAN, CrossTick(attempt)
      PROVE  TypeInv'
  <2> DEFINE steps == IF ~attempt THEN <<>>
          ELSE <<"probe">> \o (IF source = "hdzero" THEN <<"compare">> ELSE sweep \o <<"verdict">>)
  <2>1. steps \in Seq(Steps \ {"adopt"})
    BY Continuations
  <2>2. At("peripheral", "cross") /\ Then("peripheral", steps)
    BY <1>7 DEF CrossTick
  <2> HIDE DEF steps
  <2>3. todo' \in [Threads -> Seq(Steps)] /\ Found'
    BY <2>1, <2>2, ThenKeeps DEF Steps
  <2> QED
    BY <1>7, <2>3 DEF CrossTick, TypeOK, state, receiver, analog
<1>8. CASE ProbeAnalog
  <2>1. (IF avDown THEN <<"avOn", "clear">> ELSE <<>>) \in Seq(Steps \ {"adopt"})
    BY Continuations
  <2>2. todo' \in [Threads -> Seq(Steps)] /\ Found'
    BY <1>8, <2>1, ThenKeeps DEF ProbeAnalog, Steps
  <2>3. garbage' \in BOOLEAN
    <3>1. (garbage \/ open) \in BOOLEAN /\ garbage \in BOOLEAN
      BY DEF TypeOK
    <3> QED
      BY <1>8, <3>1 DEF ProbeAnalog
  <2> QED
    BY <1>8, <2>2, <2>3 DEF ProbeAnalog, TypeOK, state, analog
<1>9. CASE Compare
  <2> DEFINE steps == IF ~rssi THEN <<>>
          ELSE IF setting = "both" THEN <<"lock", other(bw), "try">>
          ELSE <<"lock">> \o switchTo("analog") \o <<"unlock">>
  <2>1. steps \in Seq(Steps \ {"adopt"})
    BY Continuations
  <2>2. At("peripheral", "compare") /\ Then("peripheral", steps)
    BY <1>9 DEF Compare
  <2> HIDE DEF steps
  <2>3. todo' \in [Threads -> Seq(Steps)] /\ Found'
    BY <2>1, <2>2, ThenKeeps DEF Steps
  <2> QED
    BY <1>9, <2>3 DEF Compare, TypeOK, state, receiver, analog
<1>10. CASE TryOther
  <2>1. todo' \in [Threads -> Seq(Steps)] /\ Found'
    BY <1>10, Continuations, ThenKeeps DEF TryOther, Steps
  <2>2. detected' \in Bandwidths /\ probed' \in BOOLEAN
    BY <1>10 DEF TryOther, TypeOK
  <2> QED
    BY <1>10, <2>1, <2>2 DEF TryOther, TypeOK, state, receiver, analog
<1>11. CASE Look
  <2>1. todo' \in [Threads -> Seq(Steps)] /\ Found'
    BY <1>0, <1>11, DoneKeeps DEF Look, Steps
  <2>2. found' \in Bandwidths \cup {"none"} /\ probed' \in BOOLEAN
    BY <1>11 DEF Look, TypeOK
  <2> QED
    BY <1>11, <2>1, <2>2 DEF Look, TypeOK, state, receiver, analog
<1>12. CASE Verdict
  <2>1. todo' \in [Threads -> Seq(Steps)] /\ Found'
    <3>1. CASE found = "none"
      BY <1>12, <3>1, Continuations, ThenKeeps DEF Verdict, Steps
    <3>2. CASE found # "none"
      BY <1>12, <3>2, VerdictThen DEF Verdict
    <3> QED
      BY <3>1, <3>2
  <2> QED
    BY <1>12, <2>1 DEF Verdict, TypeOK, state, receiver, analog
<1>13. CASE Adopt
  <2>1. todo' \in [Threads -> Seq(Steps)] /\ Found'
    BY <1>0, <1>13, DoneKeeps DEF Adopt, Steps
  <2>2. found \in Bandwidths
    <3>1. todo["peripheral"][1] = "adopt" /\ Len(todo["peripheral"]) \in Nat \ {0}
      BY <1>0, <1>13, AtHead DEF Adopt, Steps
    <3> QED
      BY <3>1 DEF Found, TypeOK
  <2> QED
    BY <1>13, <2>1, <2>2 DEF Adopt, TypeOK, state, receiver, analog
<1> QED
  BY <1>1, <1>2, <1>3, <1>4, <1>5, <1>6, <1>7, <1>8, <1>9, <1>10, <1>11, <1>12, <1>13
  DEF Peripheral

LEMMA Types == TypeInv /\ [Next]_vars => TypeInv'
<1> SUFFICES ASSUME TypeInv, [Next]_vars
             PROVE  TypeInv'
  OBVIOUS
<1> USE DEF TypeInv
<1>1. ASSUME NEW t \in Threads, Step(t)
      PROVE  TypeInv'
  BY <1>1, StepTypes
<1>2. CASE Peripheral
  BY <1>2, PeripheralTypes
<1>3. CASE Request
  <2>1. PICK t \in {"input", "backpack"}, steps \in Seq(Inside) :
          lvgl' = t /\ Begin(t, steps \o <<"unlock">>)
    BY <1>3, Pressed, Commanded, Widen DEF Request
  <2>2. <<"unlock">> \in Seq(Steps) /\ steps \in Seq(Steps)
    BY Widen DEF Steps
  <2>3. steps \o <<"unlock">> \in Seq(Steps) /\ t \in Threads /\ t # "peripheral"
        /\ "peripheral" \in Threads
    BY <2>2, Put DEF Threads
  <2>4. todo' \in [Threads -> Seq(Steps)] /\ todo'["peripheral"] = todo["peripheral"]
    BY <2>1, <2>3, BeginMoves
  <2> QED
    BY <1>3, <2>1, <2>3, <2>4 DEF Request, TypeOK, Found, At, doing, state, receiver, analog
<1>4. CASE Sleeping
  <2>1. \E x \in Steps \ {"lock"} : At("input", x)
    BY <1>4 DEF Sleeping, Steps
  <2>2. "input" \in Threads /\ Done("input") /\ found' = found
    BY <1>4 DEF Sleeping, Threads
  <2>3. todo' \in [Threads -> Seq(Steps)] /\ Found'
    BY <2>1, <2>2, DoneKeeps
  <2>4. app' \in States /\ previous' \in States /\ isSleeping' \in BOOLEAN
    BY <1>4 DEF Sleeping, TypeOK, States
  <2> QED
    BY <1>4, <2>3, <2>4 DEF Sleeping, TypeOK, receiver, analog
<1>5. CASE detect_motion
  <2>1. hdzero_effective_bw \in Bandwidths
    BY DEF hdzero_effective_bw, TypeOK, Bandwidths
  <2>2. saving' \in BOOLEAN
    <3>1. (~saving) \in BOOLEAN
      OBVIOUS
    <3> QED
      BY <1>5, <3>1 DEF detect_motion
  <2>3. avOn' \in BOOLEAN /\ open' \in BOOLEAN /\ bw' \in Bandwidths /\ garbage' \in BOOLEAN
    <3>1. CASE app = "video" /\ source = "hdzero" /\ saving
      <4>1. HDZero_open(hdzero_effective_bw) /\ avOn' = avOn
        BY <1>5, <3>1 DEF detect_motion
      <4>2. (garbage /\ open /\ bw = hdzero_effective_bw) \in BOOLEAN
        OBVIOUS
      <4> QED
        BY <2>1, <4>1, <4>2 DEF HDZero_open, TypeOK
    <3>2. CASE app = "video" /\ source = "hdzero" /\ ~saving
      BY <1>5, <3>2 DEF detect_motion, TypeOK
    <3>3. CASE ~(app = "video" /\ source = "hdzero")
      BY <1>5, <3>3 DEF detect_motion, TypeOK, receiver
    <3> QED
      BY <3>1, <3>2, <3>3
  <2> QED
    BY <1>5, <2>2, <2>3 DEF detect_motion, TypeOK, Found, At, doing, state
<1>6. CASE Transmitter
  BY <1>6 DEF Transmitter, TypeOK, Found, At, doing, state, receiver, analog
<1>7. CASE UNCHANGED vars
  BY <1>7 DEF vars, TypeOK, Found, At, doing, state, receiver, analog
<1> QED
  BY <1>1, <1>2, <1>3, <1>4, <1>5, <1>6, <1>7 DEF Next

LEMMA InitialTypes == Init => TypeInv
<1> SUFFICES ASSUME Init
           PROVE  TypeInv
  OBVIOUS
<1>1. (source = "hdzero") \in BOOLEAN /\ (~open) \in BOOLEAN
  OBVIOUS
<1>2. open \in BOOLEAN /\ avOn \in BOOLEAN /\ avDown \in BOOLEAN /\ probed \in BOOLEAN
  BY <1>1 DEF Init
<1>3. todo \in [Threads -> Seq(Steps)] /\ todo["peripheral"] = <<>>
  BY DEF Init, Threads
<1>4. /\ lvgl \in Threads \cup {"none"} /\ app \in States /\ previous \in States
      /\ source \in Receivers /\ setting \in {"wide", "both"} /\ detected \in Bandwidths
      /\ bw \in Bandwidths /\ found \in Bandwidths \cup {"none"}
      /\ vtx \in Bandwidths \cup {"analog", "none"}
  BY DEF Init, States, Bandwidths
<1>5. isSleeping \in BOOLEAN /\ garbage \in BOOLEAN /\ saving \in BOOLEAN
  BY DEF Init
<1>6. Found
  BY <1>3 DEF Found
<1> QED
  BY <1>2, <1>3, <1>4, <1>5, <1>6 DEF TypeInv, TypeOK

LEMMA TypesInvariant == Spec => []TypeInv
BY InitialTypes, Types, PTL DEF Spec
-----------------------------------------------------------------------------
(* A program without its first step: everything moves up by one.           *)
LEMMA TailFree ==
  ASSUME NEW s \in Seq(Steps), s # <<>>, NEW m \in Nat \ {0}, Free(s, m + 1)
  PROVE  Free(Tail(s), m)
<1> SUFFICES ASSUME NEW i \in m .. Len(Tail(s))
             PROVE  Tail(s)[i] \in Outside
  BY DEF Free
<1>1. i \in 1 .. Len(s) - 1 /\ i + 1 \in m + 1 .. Len(s)
  BY Pop
<1> QED
  BY <1>1, Pop DEF Free

LEMMA TailSection ==
  ASSUME NEW s \in Seq(Steps), s # <<>>, NEW m \in Nat \ {0}, NEW n \in Nat,
         Section(s, m + 1, n + 1)
  PROVE  Section(Tail(s), m, n)
<1>1. n \in m .. Len(s) - 1 /\ Len(s) - 1 = Len(Tail(s)) /\ Tail(s)[n] = s[n + 1]
  BY Pop DEF Section
<1>2. ASSUME NEW i \in m .. n - 1
      PROVE  Tail(s)[i] \in Inside
  <2>1. i \in 1 .. Len(s) - 1 /\ i + 1 \in m + 1 .. (n + 1) - 1
    BY <1>1, Pop
  <2> QED
    BY <2>1, Pop DEF Section
<1>3. Free(Tail(s), n + 1)
  BY TailFree, n + 1 \in Nat \ {0} DEF Section
<1> QED
  BY <1>1, <1>2, <1>3 DEF Section

LEMMA TailLast ==
  ASSUME NEW s \in Seq(Steps), s # <<>>, NEW m \in Nat \ {0}, NEW n \in Nat,
         n + 1 <= Len(s), NEW on, NEW offs, Last(s, m + 1, n + 1, on, offs)
  PROVE  Last(Tail(s), m, n, on, offs)
<1>1. PICK i \in m + 1 .. (n + 1) - 1 :
        s[i] \in on /\ \A j \in i + 1 .. (n + 1) - 1 : s[j] \notin offs
  BY DEF Last
<1>2. i - 1 \in m .. n - 1 /\ i - 1 \in 1 .. Len(s) - 1 /\ Tail(s)[i - 1] = s[(i - 1) + 1]
  BY Pop
<1>3. ASSUME NEW j \in (i - 1) + 1 .. n - 1
      PROVE  Tail(s)[j] \notin offs
  <2>1. j \in 1 .. Len(s) - 1 /\ j + 1 \in i + 1 .. (n + 1) - 1
    BY Pop
  <2> QED
    BY <1>1, <2>1, Pop
<1>4. (i - 1) + 1 = i
  OBVIOUS
<1> QED
  BY <1>1, <1>2, <1>3, <1>4 DEF Last

LEMMA TailSelfContained ==
  ASSUME NEW s \in Seq(Steps), s # <<>>, NEW m \in Nat \ {0}, NEW n \in Nat,
         n + 1 <= Len(s), SelfContained(s, m + 1, n + 1)
  PROVE  SelfContained(Tail(s), m, n)
<1>1. CASE \A i \in m + 1 .. (n + 1) - 1 : s[i] \in Outside
  <2>1. ASSUME NEW i \in m .. n - 1
        PROVE  Tail(s)[i] \in Outside
    <3>1. i \in 1 .. Len(s) - 1 /\ i + 1 \in m + 1 .. (n + 1) - 1
      BY Pop
    <3> QED
      BY <1>1, <3>1, Pop
  <2> QED
    BY <2>1 DEF SelfContained
<1>2. CASE Last(s, m + 1, n + 1, {"hdzero"}, {"analog"})
  BY <1>2, TailLast DEF SelfContained
<1>3. CASE Last(s, m + 1, n + 1, {"avOn"}, {"avOff"})
  BY <1>3, TailLast DEF SelfContained
<1> QED
  BY <1>1, <1>2, <1>3 DEF SelfContained

(* What holds at the end holds at the end of the rest, if the first step   *)
(* does what its name says.                                                *)
LEMMA TailEnds ==
  ASSUME NEW s \in Seq(Steps), s # <<>>, NEW n \in Nat \ {0}, n + 1 <= Len(s),
         NEW on, NEW offs, NEW now \in BOOLEAN, NEW later \in BOOLEAN,
         Ends(s, n + 1, on, offs, now),
         s[1] \in on => later, now /\ s[1] \notin offs => later
  PROVE  Ends(Tail(s), n, on, offs, later)
<1>1. ASSUME \A j \in 2 .. n : s[j] \notin offs
      PROVE  Never(Tail(s), 1, n, offs)
  <2> SUFFICES ASSUME NEW i \in 1 .. n - 1
               PROVE  Tail(s)[i] \notin offs
    BY DEF Never
  <2>1. i \in 1 .. Len(s) - 1 /\ i + 1 \in 2 .. n
    BY Pop
  <2> QED
    BY <1>1, <2>1, Pop
<1>2. CASE Last(s, 1, n + 1, on, offs)
  <2>1. PICK i \in 1 .. (n + 1) - 1 :
          s[i] \in on /\ \A j \in i + 1 .. (n + 1) - 1 : s[j] \notin offs
    BY <1>2 DEF Last
  <2>2. CASE i = 1
    <3>1. later /\ \A j \in 2 .. n : s[j] \notin offs
      BY <2>1, <2>2
    <3> QED
      BY <1>1, <3>1 DEF Ends
  <2>3. CASE i # 1
    <3>1. i \in 2 .. (n + 1) - 1 /\ 1 \in Nat \ {0} /\ 1 + 1 = 2
      BY <2>3
    <3>2. Last(s, 1 + 1, n + 1, on, offs)
      BY <2>1, <3>1 DEF Last
    <3> QED
      BY <3>1, <3>2, TailLast DEF Ends
  <2> QED
    BY <2>2, <2>3
<1>3. CASE now /\ Never(s, 1, n + 1, offs)
  <2>1. s[1] \notin offs /\ \A j \in 2 .. n : s[j] \notin offs
    BY <1>3 DEF Never
  <2> QED
    BY <1>1, <1>3, <2>1 DEF Ends
<1> QED
  BY <1>2, <1>3 DEF Ends
-----------------------------------------------------------------------------
(* The lock is given back when there is no dark analog picture.            *)
LEMMA KeepsAtOnce ==
  ASSUME TypeOK, NEW s
  PROVE  Keeps(s, 1) <=> Lit
<1>1. \A on, offs : ~Last(s, 1, 1, on, offs) /\ Never(s, 1, 1, offs)
  BY DEF Last, Never
<1>2. source \in {"hdzero", "analog"}
  BY DEF TypeOK, Receivers
<1> QED
  BY <1>1, <1>2 DEF Keeps, Lit, Ends

LEMMA KeepsQuiet ==
  ASSUME TypeOK, Lit, NEW s, NEW n, \A i \in 1 .. n - 1 : s[i] \notin {"video", "analog", "avOff"}
  PROVE  Keeps(s, n)
<1>1. source \in {"hdzero", "analog"}
  BY DEF TypeOK, Receivers
<1>2. Never(s, 1, n, {"video"}) /\ Never(s, 1, n, {"analog"}) /\ Never(s, 1, n, {"avOff"})
  BY DEF Never
<1> QED
  BY <1>1, <1>2 DEF Keeps, Lit, Ends

LEMMA KeepsStarted ==
  ASSUME TypeOK, Lit, NEW s, NEW n, SelfContained(s, 1, n)
  PROVE  Keeps(s, n)
<1>1. CASE \A i \in 1 .. n - 1 : s[i] \in Outside
  <2>1. \A i \in 1 .. n - 1 : s[i] \notin {"video", "analog", "avOff"}
    BY <1>1 DEF Outside, Bandwidths
  <2> QED
    BY <2>1, KeepsQuiet
<1>2. CASE Last(s, 1, n, {"hdzero"}, {"analog"}) \/ Last(s, 1, n, {"avOn"}, {"avOff"})
  BY <1>2 DEF Keeps, Ends
<1> QED
  BY <1>1, <1>2 DEF SelfContained

(* A step does to what is on the screen what its name says, and no more.   *)
Obeys(x) ==
  /\ saving' = saving
  /\ x \in {"menu", "sleep", "doze"} => app' # "video"
  /\ app # "video" /\ x # "video" => app' # "video"
  /\ x = "hdzero" => source' = "hdzero"
  /\ source = "hdzero" /\ x # "analog" => source' = "hdzero"
  /\ x = "avOn" => avOn'
  /\ avOn /\ x # "avOff" => avOn'

LEMMA HeldTail ==
  ASSUME TypeOK, TypeOK', NEW t \in Threads, NEW n \in Nat \ {0}, n + 1 <= Len(todo[t]),
         Section(todo[t], 1, n + 1), Keeps(todo[t], n + 1),
         todo[t] # <<>>, todo'[t] = Tail(todo[t]), Obeys(todo[t][1])
  PROVE  Held(t)'
<1>1. todo[t] \in Seq(Steps) /\ todo[t] # <<>>
  BY DEF TypeOK
<1>2. Section(todo'[t], 1, n) /\ n \in 1 .. Len(todo'[t])
  <2>1. Section(todo[t], 1 + 1, n + 1)
    BY DEF Section
  <2>2. Section(Tail(todo[t]), 1, n)
    BY <1>1, <2>1, TailSection, 1 \in Nat \ {0}
  <2> QED
    BY <2>2 DEF Section
<1>3. Keeps(todo[t], n)'
  <2> DEFINE s == todo[t]
             u == Tail(s)
  <2> SUFFICES ASSUME Apart
               PROVE  \/ saving'
                      \/ Ends(u, n, {"menu", "sleep", "doze"}, {"video"}, app' # "video")
                      \/ Ends(u, n, {"hdzero"}, {"analog"}, source' = "hdzero")
                      \/ Ends(u, n, {"avOn"}, {"avOff"}, avOn')
    BY DEF Keeps, Apart
  <2>1. /\ (app # "video") \in BOOLEAN /\ (app' # "video") \in BOOLEAN
        /\ (source = "hdzero") \in BOOLEAN /\ (source' = "hdzero") \in BOOLEAN
    OBVIOUS
  <2>2. avOn \in BOOLEAN /\ avOn' \in BOOLEAN
    BY DEF TypeOK
  <2>3. CASE saving
    BY <2>3 DEF Obeys
  <2>4. CASE Ends(s, n + 1, {"menu", "sleep", "doze"}, {"video"}, app # "video")
    <3>1. /\ s[1] \in {"menu", "sleep", "doze"} => app' # "video"
          /\ app # "video" /\ s[1] \notin {"video"} => app' # "video"
      BY DEF Obeys
    <3> HIDE DEF s, u
    <3>2. Ends(Tail(s), n, {"menu", "sleep", "doze"}, {"video"}, app' # "video")
      BY <1>1, <2>1, <2>4, <3>1, TailEnds DEF s
    <3> QED
      BY <3>2 DEF u
  <2>5. CASE Ends(s, n + 1, {"hdzero"}, {"analog"}, source = "hdzero")
    <3>1. /\ s[1] \in {"hdzero"} => source' = "hdzero"
          /\ source = "hdzero" /\ s[1] \notin {"analog"} => source' = "hdzero"
      BY DEF Obeys
    <3> HIDE DEF s, u
    <3>2. Ends(Tail(s), n, {"hdzero"}, {"analog"}, source' = "hdzero")
      BY <1>1, <2>1, <2>5, <3>1, TailEnds DEF s
    <3> QED
      BY <3>2 DEF u
  <2>6. CASE Ends(s, n + 1, {"avOn"}, {"avOff"}, avOn)
    <3>1. /\ s[1] \in {"avOn"} => avOn'
          /\ avOn /\ s[1] \notin {"avOff"} => avOn'
      BY DEF Obeys
    <3> HIDE DEF s, u
    <3>2. Ends(Tail(s), n, {"avOn"}, {"avOff"}, avOn')
      BY <1>1, <2>2, <2>6, <3>1, TailEnds DEF s
    <3> QED
      BY <3>2 DEF u
  <2> QED
    BY <2>3, <2>4, <2>5, <2>6 DEF Keeps
<1> QED
  BY <1>2, <1>3 DEF Held
-----------------------------------------------------------------------------
(* A thread without the lock moves: whoever holds it is not disturbed.     *)
LEMMA UnheldMoves ==
  ASSUME TunerInv, TypeOK', NEW t \in Threads, lvgl # t,
         UNCHANGED <<lvgl, app, source, saving>>,
         \A u \in Threads \ {t} : todo'[u] = todo[u],
         Unheld(t)', (avOn => avOn') \/ Idling(t)
  PROVE  Control' /\ (lvgl = "none" => Lit)'
<1>1. (Lit => Lit')
  BY DEF Lit, Idling, Apart
<1>2. ASSUME NEW u \in Threads \ {t}, lvgl = u
      PROVE  Held(u)'
  <2> DEFINE s == todo[u]
  <2>1. todo'[u] = s /\ (At(u, "unlock") <=> At(u, "unlock")')
    BY DEF At, doing
  <2>2. ASSUME NEW n \in 1 .. Len(s), Section(s, 1, n), Keeps(s, n)
        PROVE  Keeps(s, n)'
    <3>1. CASE avOn => avOn'
      BY <2>1, <2>2, <3>1 DEF Keeps, Ends, Apart
    <3>2. CASE Idling(t)
      <4>1. Apart => source' = "hdzero" /\ "retune" \notin Inputs
        BY <3>2 DEF Idling, Apart
      <4>2. "retune" \notin Inputs => Never(s, 1, n, {"analog"})
        <5>1. u # "peripheral" /\ Len(s) \in Nat
          BY <3>2, LenProperties DEF Idling, TunerInv, TypeInv, TypeOK
        <5> QED
          BY <5>1 DEF Never, TunerInv, Sources, Receivers
      <4> QED
        BY <2>1, <4>1, <4>2 DEF Keeps, Ends, Apart
    <3> QED
      BY <3>1, <3>2
  <2>3. Held(u)
    BY <1>2 DEF TunerInv, Control
  <2> QED
    BY <1>1, <2>1, <2>2, <2>3 DEF Held
<1>3. ASSUME NEW u \in Threads \ {t}, lvgl # u
      PROVE  Unheld(u)'
  <2>1. Unheld(u) /\ todo'[u] = todo[u]
    BY <1>3 DEF TunerInv, Control
  <2> QED
    BY <2>1 DEF Unheld, Idling, Apart, At, doing
<1> QED
  BY <1>1, <1>2, <1>3 DEF TunerInv, Control

(* The holder moves, takes the lock or gives it back: the others wait.     *)
LEMMA HeldMoves ==
  ASSUME TunerInv, NEW t \in Threads, lvgl \in {t, "none"},
         \A u \in Threads \ {t} : todo'[u] = todo[u],
         \/ lvgl' = t /\ Held(t)'
         \/ lvgl' = "none" /\ Unheld(t)' /\ Lit',
         source' = source \/ t = "peripheral" \/ "retune" \in Inputs
  PROVE  Control' /\ (lvgl = "none" => Lit)'
<1>0. "none" \notin Threads
  BY DEF Threads
<1>1. ASSUME NEW u \in Threads \ {t}
      PROVE  Unheld(u)' /\ lvgl' # u
  <2>1. Unheld(u) /\ todo'[u] = todo[u] /\ lvgl' # u
    BY <1>0 DEF TunerInv, Control
  <2>2. Idling(u) => Idling(u)'
    BY DEF Idling, Apart
  <2> QED
    BY <2>1, <2>2 DEF Unheld, At, doing
<1> QED
  BY <1>0, <1>1 DEF Control

(* What a thread may be at, with the lock and without it.                  *)
LEMMA HeldHead ==
  ASSUME TunerInv, NEW t \in Threads, lvgl = t
  PROVE  /\ todo[t] # <<>>
         /\ \/ todo[t][1] \in Closers /\ Lit
               /\ \/ Free(todo[t], 2)
                  \/ /\ At(t, "unlock") /\ Len(todo[t]) > 1 /\ todo[t][2] = "lock"
                     /\ \E n \in 3 .. Len(todo[t]) :
                          Section(todo[t], 3, n) /\ SelfContained(todo[t], 3, n)
            \/ /\ todo[t][1] \in Inside
               /\ \E n \in 2 .. Len(todo[t]) : Section(todo[t], 1, n) /\ Keeps(todo[t], n)
<1> DEFINE s == todo[t]
<1>1. s \in Seq(Steps) /\ Len(s) \in Nat /\ TypeOK
  BY LenProperties DEF TunerInv, TypeInv, TypeOK
<1>2. Held(t)
  BY DEF TunerInv, Control
<1>3. CASE \E n \in 1 .. Len(s) : Section(s, 1, n) /\ Keeps(s, n)
  <2>1. PICK n \in 1 .. Len(s) : Section(s, 1, n) /\ Keeps(s, n)
    BY <1>3
  <2>2. s # <<>>
    BY <1>1, <2>1
  <2>3. CASE n = 1
    <3>1. s[1] \in Closers /\ Free(s, 2) /\ Lit
      BY <1>1, <2>1, <2>3, KeepsAtOnce DEF Section
    <3> QED
      BY <2>2, <3>1
  <2>4. CASE n # 1
    <3>1. n \in 2 .. Len(s) /\ s[1] \in Inside
      BY <1>1, <2>1, <2>4 DEF Section
    <3> QED
      BY <2>1, <2>2, <3>1
  <2> QED
    BY <2>3, <2>4
<1>4. CASE /\ At(t, "unlock") /\ Lit /\ Len(s) > 1 /\ s[2] = "lock"
           /\ \E n \in 3 .. Len(s) : Section(s, 3, n) /\ SelfContained(s, 3, n)
  <2>1. s # <<>> /\ s[1] = "unlock" /\ "unlock" \in Closers
    BY <1>1, <1>4, AtHead, StepKinds DEF Closers
  <2> QED
    BY <1>4, <2>1
<1> QED
  BY <1>2, <1>3, <1>4 DEF Held

LEMMA UnheldHead ==
  ASSUME TunerInv, NEW t \in Threads, lvgl # t, todo[t] # <<>>
  PROVE  \/ Free(todo[t], 1) /\ todo[t][1] \in Outside
         \/ Free(todo[t], 2) /\ todo[t][1] = "avOff" /\ Idling(t)
         \/ /\ todo[t][1] = "lock"
            /\ \E n \in 2 .. Len(todo[t]) : Section(todo[t], 2, n) /\ SelfContained(todo[t], 2, n)
<1>1. todo[t] \in Seq(Steps) /\ Len(todo[t]) \in Nat \ {0} /\ Head(todo[t]) = todo[t][1]
  BY Pop DEF TunerInv, TypeInv, TypeOK
<1>2. Unheld(t)
  BY DEF TunerInv, Control
<1> QED
  BY <1>1, <1>2 DEF Unheld, Free, At, doing

LEMMA UnheldStep ==
  ASSUME TunerInv, TypeOK', NEW t \in Threads, NEW x \in Steps \ {"lock"},
         At(t, x), lvgl # t, Done(t)
  PROVE  /\ Unheld(t)'
         /\ x \in Outside \/ (x = "avOff" /\ Idling(t))
<1>1. todo[t] \in Seq(Steps) /\ todo[t] # <<>> /\ todo[t][1] = x
  BY AtHead DEF TunerInv, TypeInv
<1>2. todo'[t] = Tail(todo[t])
  BY <1>1, DoneMoves DEF TunerInv, TypeInv
<1>3. Free(todo[t], 1) => Free(todo[t], 2)
  BY DEF Free
<1>4. /\ Free(todo[t], 1 + 1)
      /\ x \in Outside \/ (x = "avOff" /\ Idling(t))
  BY <1>1, <1>3, UnheldHead
<1>5. Free(todo'[t], 1)
  BY <1>1, <1>2, <1>4, TailFree
<1> QED
  BY <1>4, <1>5 DEF Unheld

LEMMA HeldStep ==
  ASSUME TunerInv, TypeOK', NEW t \in Threads, NEW x \in Inside,
         At(t, x), lvgl = t, Done(t), Obeys(x)
  PROVE  Held(t)'
<1>1. todo[t] \in Seq(Steps) /\ todo[t] # <<>> /\ todo[t][1] = x
  BY AtHead, StepKinds DEF TunerInv, TypeInv
<1>2. todo'[t] = Tail(todo[t])
  BY <1>1, DoneMoves DEF TunerInv, TypeInv
<1>3. PICK n \in 2 .. Len(todo[t]) : Section(todo[t], 1, n) /\ Keeps(todo[t], n)
  BY <1>1, HeldHead, StepKinds
<1>4. n - 1 \in Nat \ {0} /\ (n - 1) + 1 = n /\ n <= Len(todo[t])
  BY <1>1, LenProperties
<1> QED
  BY <1>1, <1>2, <1>3, <1>4, HeldTail DEF TunerInv, TypeInv

LEMMA LockControl ==
  ASSUME TunerInv, TypeOK', NEW t \in Threads, Lock(t)
  PROVE  Control' /\ (lvgl = "none" => Lit)'
<1> DEFINE s == todo[t]
<1>0. TypeOK /\ "none" \notin Threads /\ "lock" \in Steps
  BY StepKinds DEF TunerInv, TypeInv, Threads
<1>1. s \in Seq(Steps) /\ s # <<>> /\ s[1] = "lock" /\ lvgl = "none" /\ lvgl # t
  BY <1>0, AtHead DEF Lock
<1>2. todo'[t] = Tail(s) /\ \A u \in Threads \ {t} : todo'[u] = todo[u]
  BY <1>0, <1>1, DoneMoves DEF Lock
<1>3. PICK n \in 2 .. Len(s) : Section(s, 2, n) /\ SelfContained(s, 2, n)
  BY <1>1, UnheldHead, StepKinds
<1>4. n - 1 \in Nat /\ (n - 1) + 1 = n /\ n <= Len(s) /\ 1 + 1 = 2 /\ 1 \in Nat \ {0}
  BY <1>1, LenProperties
<1>5. Section(Tail(s), 1, n - 1) /\ SelfContained(Tail(s), 1, n - 1)
  BY <1>1, <1>3, <1>4, TailSection, TailSelfContained
<1>6. Lit
  BY <1>1 DEF TunerInv
<1>7. Keeps(Tail(s), n - 1)
  BY <1>0, <1>5, <1>6, KeepsStarted
<1>8. Keeps(s, n - 1)'
  BY <1>2, <1>7 DEF Keeps, Lock, state, analog, Apart
<1>9. n - 1 \in 1 .. Len(Tail(s))
  BY <1>5 DEF Section
<1>10. Held(t)'
  BY <1>2, <1>5, <1>8, <1>9 DEF Held
<1>11. source' = source /\ lvgl' = t
  BY DEF Lock, state
<1> QED
  BY <1>1, <1>2, <1>10, <1>11, HeldMoves

LEMMA UnlockControl ==
  ASSUME TunerInv, TypeOK', NEW t \in Threads, Unlock(t)
  PROVE  Control' /\ (lvgl = "none" => Lit)'
<1> DEFINE s == todo[t]
<1>0. TypeOK /\ "unlock" \in Steps /\ "unlock" \in Closers /\ "unlock" \notin Inside
      /\ "unlock" \notin Outside
  BY StepKinds DEF TunerInv, TypeInv, Closers
<1>1. s \in Seq(Steps) /\ s # <<>> /\ s[1] = "unlock"
  BY <1>0, AtHead DEF Unlock
<1>2. todo'[t] = Tail(s) /\ \A u \in Threads \ {t} : todo'[u] = todo[u]
  BY <1>0, <1>1, DoneMoves DEF Unlock
<1>3. lvgl = t
  BY <1>0, <1>1, UnheldHead
<1>4. Lit'
  BY <1>0, <1>1, <1>3, HeldHead DEF Lit, Unlock, state, analog, Apart
<1>5. CASE Free(s, 2)
  <2>1. Free(Tail(s), 1)
    BY <1>1, <1>5, TailFree, 1 + 1 = 2, 1 \in Nat \ {0}
  <2> QED
    BY <1>2, <1>3, <1>4, <2>1, HeldMoves DEF Unheld, Unlock, state
<1>6. CASE ~Free(s, 2)
  <2>1. /\ Len(s) > 1 /\ s[2] = "lock"
        /\ \E n \in 3 .. Len(s) : Section(s, 3, n) /\ SelfContained(s, 3, n)
    BY <1>0, <1>1, <1>3, <1>6, HeldHead
  <2>2. PICK n \in 3 .. Len(s) : Section(s, 3, n) /\ SelfContained(s, 3, n)
    BY <2>1
  <2>3. n - 1 \in Nat /\ (n - 1) + 1 = n /\ n <= Len(s) /\ 2 + 1 = 3 /\ 2 \in Nat \ {0}
    BY <1>1, LenProperties
  <2>4. Section(Tail(s), 2, n - 1) /\ SelfContained(Tail(s), 2, n - 1)
    BY <1>1, <2>2, <2>3, TailSection, TailSelfContained
  <2>5. Tail(s) \in Seq(Steps) /\ Tail(s) # <<>> /\ Tail(s)[1] = "lock"
    <3>1. /\ Tail(s) \in Seq(Steps) /\ Len(Tail(s)) = Len(s) - 1 /\ Len(s) \in Nat
          /\ 1 \in 1 .. Len(s) - 1
          /\ \A i \in 1 .. Len(s) - 1 : Tail(s)[i] = s[i + 1]
      BY <1>1, <2>1, Pop
    <3>2. Tail(s)[1] = s[1 + 1] /\ 1 + 1 = 2
      BY <3>1
    <3>3. Tail(s) # <<>>
      <4> HIDE DEF s
      <4>1. Len(s) \in Nat /\ Len(s) > 1 /\ Len(Tail(s)) = Len(s) - 1
        BY <2>1, <3>1
      <4>2. Len(Tail(s)) # 0
        BY <4>1
      <4>3. Len(<<>>) = 0
        OBVIOUS
      <4> QED
        BY <4>2, <4>3
    <3> QED
      BY <2>1, <3>1, <3>2, <3>3
  <2>6. Head(Tail(s)) = "lock"
    BY <2>5, Pop
  <2>7. At(t, "lock")' /\ n - 1 \in 2 .. Len(Tail(s))
    BY <1>2, <2>4, <2>5, <2>6 DEF At, doing, Section
  <2>8. Unheld(t)'
    BY <1>2, <2>4, <2>7 DEF Unheld
  <2> QED
    BY <1>2, <1>3, <1>4, <2>8, HeldMoves DEF Unlock, state
<1> QED
  BY <1>5, <1>6

(* Open, Close, power, notes, pushes and sources: one step of a switch.    *)
LEMMA PlainControl ==
  ASSUME TunerInv, TypeOK', NEW t \in Threads, NEW x \in Inside, At(t, x), Done(t),
         lvgl' = lvgl, Obeys(x),
         x \notin States \cup Receivers \cup {"doze"} => UNCHANGED <<app, source>>,
         source' = source \/ t = "peripheral" \/ "retune" \in Inputs
  PROVE  Control' /\ (lvgl = "none" => Lit)'
<1>1. x \in Steps \ {"lock"} /\ TypeOK /\ todo[t] # <<>> /\ "none" \notin Threads
  BY AtHead, StepKinds DEF TunerInv, TypeInv, Threads
<1>2. \A u \in Threads \ {t} : todo'[u] = todo[u]
  BY <1>1, DoneMoves
<1>3. CASE lvgl = t
  BY <1>2, <1>3, HeldStep, HeldMoves
<1>4. CASE lvgl # t
  <2>1. Unheld(t)' /\ (x \in Outside \/ (x = "avOff" /\ Idling(t)))
    BY <1>1, <1>4, UnheldStep
  <2>2. x \notin States \cup Receivers \cup {"doze"}
    BY <2>1 DEF Outside, States, Receivers, Bandwidths
  <2>3. (avOn => avOn') \/ Idling(t)
    BY <2>1 DEF Obeys, Outside, Bandwidths
  <2> QED
    BY <1>2, <1>4, <2>1, <2>2, <2>3, UnheldMoves DEF Obeys
<1> QED
  BY <1>3, <1>4

LEMMA StepControl ==
  ASSUME TunerInv, TypeOK', NEW t \in Threads, Step(t)
  PROVE  Control' /\ (lvgl = "none" => Lit)'
<1>1. CASE Lock(t)
  BY <1>1, LockControl
<1>2. CASE Unlock(t)
  BY <1>2, UnlockControl
<1>3. CASE Open(t)
  <2>1. PICK x \in Bandwidths \cup {"open"} : At(t, x)
    BY <1>3 DEF Open
  <2>2. x \in Inside /\ x \notin States \cup Receivers \cup {"doze", "avOn", "avOff"}
    BY DEF Inside, Bandwidths, States, Receivers
  <2>3. Done(t) /\ UNCHANGED <<lvgl, app, source, saving, avOn>>
    BY <1>3 DEF Open, state, analog
  <2>4. Obeys(x)
    BY <2>2, <2>3 DEF Obeys, States, Receivers
  <2> QED
    BY <2>1, <2>2, <2>3, <2>4, PlainControl
<1>4. CASE HDZero_Close(t)
  <2>1. "close" \in Inside /\ "close" \notin States \cup Receivers \cup {"doze", "avOn", "avOff"}
    BY DEF Inside, States, Receivers
  <2>2. At(t, "close") /\ Done(t) /\ UNCHANGED <<lvgl, app, source, saving, avOn>>
    BY <1>4 DEF HDZero_Close, state, analog
  <2>3. Obeys("close")
    BY <2>1, <2>2 DEF Obeys, States, Receivers
  <2> QED
    BY <2>1, <2>2, <2>3, PlainControl
<1>5. CASE rtc6715_init(t)
  <2>1. PICK x \in {"avOn", "avOff"} : At(t, x) /\ avOn' = (x = "avOn")
    BY <1>5 DEF rtc6715_init
  <2>2. x \in Inside /\ x \notin States \cup Receivers \cup {"doze"}
    BY DEF Inside, States, Receivers
  <2>3. Done(t) /\ UNCHANGED <<lvgl, app, source, saving>>
    BY <1>5 DEF rtc6715_init, state
  <2>4. Obeys(x)
    BY <2>1, <2>2, <2>3 DEF Obeys, States, Receivers
  <2> QED
    BY <2>1, <2>2, <2>3, <2>4, PlainControl
<1>6. CASE Notify(t)
  <2>1. PICK x \in {"noteOn", "noteOff", "clear"} : At(t, x)
    BY <1>6 DEF Notify
  <2>2. x \in Inside /\ x \notin States \cup Receivers \cup {"doze", "avOn", "avOff"}
    BY DEF Inside, States, Receivers
  <2>3. Done(t) /\ UNCHANGED <<lvgl, app, source, saving, avOn>>
    BY <1>6 DEF Notify, state
  <2>4. Obeys(x)
    BY <2>2, <2>3 DEF Obeys, States, Receivers
  <2> QED
    BY <2>1, <2>2, <2>3, <2>4, PlainControl
<1>7. CASE app_state_push(t)
  <2>1. PICK x \in States : At(t, x) /\ app' = x
    BY <1>7 DEF app_state_push
  <2>2. x \in Inside /\ x \notin Receivers \cup {"doze", "avOn", "avOff"}
    BY DEF Inside, States, Receivers
  <2>3. Done(t) /\ UNCHANGED <<lvgl, source, saving, avOn>>
    BY <1>7 DEF app_state_push, analog
  <2>4. Obeys(x)
    BY <2>1, <2>2, <2>3 DEF Obeys, States, Receivers
  <2> QED
    BY <2>1, <2>2, <2>3, <2>4, PlainControl
<1>8. CASE SetSource(t)
  <2>1. PICK x \in Receivers : At(t, x) /\ source' = x
    BY <1>8 DEF SetSource
  <2>2. x \in Inside /\ x \notin States \cup {"doze", "avOn", "avOff"}
    BY DEF Inside, States, Receivers
  <2>3. Done(t) /\ UNCHANGED <<lvgl, app, saving, avOn>>
    BY <1>8 DEF SetSource, analog
  <2>4. Obeys(x)
    BY <2>1, <2>2, <2>3 DEF Obeys, States, Receivers
  <2>5. t = "peripheral" \/ "retune" \in Inputs
    <3>1. TypeOK /\ x \in Steps
      BY <2>2, StepKinds DEF TunerInv, TypeInv
    <3>2. todo[t][1] = x /\ 1 \in 1 .. Len(todo[t])
      BY <2>1, <3>1, AtHead
    <3> QED
      BY <3>2 DEF TunerInv, Sources
  <2> QED
    BY <2>1, <2>2, <2>3, <2>4, <2>5, PlainControl
<1> QED
  BY <1>1, <1>2, <1>3, <1>4, <1>5, <1>6, <1>7, <1>8 DEF Step
-----------------------------------------------------------------------------
(* The peripheral thread's own steps, first those without the lock.        *)
Alone == {"bwTick", "idle", "forget", "cross", "probe", "compare", "look", "verdict"}

LEMMA AloneHead ==
  ASSUME TunerInv, NEW x \in Alone, At("peripheral", x)
  PROVE  LET s == todo["peripheral"]
         IN  /\ lvgl # "peripheral" /\ s # <<>> /\ s \in Seq(Steps) /\ Head(s) = x
             /\ Tail(s) \in Seq(Steps) /\ Free(Tail(s), 1)
<1> DEFINE s == todo["peripheral"]
<1>1. x \in Steps /\ x \notin Inside \cup Closers \cup {"lock", "avOff"}
  BY DEF Alone, Steps, Inside, Closers, States, Receivers, Bandwidths
<1>2. /\ s \in Seq(Steps) /\ s # <<>> /\ s[1] = x /\ Head(s) = x
      /\ "peripheral" \in Threads
  BY <1>1, AtHead DEF TunerInv, TypeInv, Threads
<1>3. lvgl # "peripheral"
  BY <1>1, <1>2, HeldHead
<1>4. Free(s, 1)
  BY <1>1, <1>2, <1>3, UnheldHead
<1>5. Free(s, 1 + 1)
  BY <1>4 DEF Free
<1>6. Free(Tail(s), 1) /\ Tail(s) \in Seq(Steps)
  BY <1>2, <1>5, TailFree, Pop
<1> QED
  BY <1>2, <1>3, <1>6

LEMMA FreeJoin ==
  ASSUME NEW a \in Seq(Steps), Free(a, 1), NEW b \in Seq(Steps), Free(b, 1)
  PROVE  a \o b \in Seq(Steps) /\ Free(a \o b, 1)
<1>1. /\ a \o b \in Seq(Steps) /\ Len(a \o b) = Len(a) + Len(b)
      /\ Len(a) \in Nat /\ Len(b) \in Nat
      /\ \A i \in 1 .. Len(a) : (a \o b)[i] = a[i]
      /\ \A i \in 1 .. Len(b) : (a \o b)[Len(a) + i] = b[i]
  BY Put
<1>2. ASSUME NEW i \in 1 .. Len(a \o b)
      PROVE  (a \o b)[i] \in Outside
  <2>1. CASE i \in 1 .. Len(a)
    BY <1>1, <2>1 DEF Free
  <2>2. CASE i \notin 1 .. Len(a)
    <3>1. i - Len(a) \in 1 .. Len(b) /\ i = Len(a) + (i - Len(a))
      BY <1>1, <2>2
    <3> QED
      BY <1>1, <3>1 DEF Free
  <2> QED
    BY <2>1, <2>2
<1> QED
  BY <1>1, <1>2 DEF Free

(* It goes on with more of the same.                                       *)
LEMMA AloneThen ==
  ASSUME TunerInv, TypeOK', NEW x \in Alone, At("peripheral", x),
         NEW steps \in Seq(Steps), Free(steps, 1), Then("peripheral", steps),
         UNCHANGED <<lvgl, app, source, saving, avOn>>
  PROVE  Control' /\ (lvgl = "none" => Lit)'
<1> DEFINE s == todo["peripheral"]
<1>1. /\ lvgl # "peripheral" /\ s # <<>> /\ Tail(s) \in Seq(Steps) /\ Free(Tail(s), 1)
      /\ "peripheral" \in Threads /\ TypeOK
  BY AloneHead DEF Threads, TunerInv, TypeInv
<1>2. /\ todo'["peripheral"] = steps \o Tail(s)
      /\ \A u \in Threads \ {"peripheral"} : todo'[u] = todo[u]
  BY <1>1, ThenMoves
<1>3. Unheld("peripheral")'
  BY <1>1, <1>2, FreeJoin DEF Unheld
<1> QED
  BY <1>1, <1>2, <1>3, UnheldMoves

LEMMA SectionJoin ==
  ASSUME NEW a \in Seq(Steps), NEW b \in Seq(Steps), Free(b, 1), NEW m \in 1 .. Len(a),
         a[Len(a)] \in Closers, \A i \in m .. Len(a) - 1 : a[i] \in Inside
  PROVE  /\ a \o b \in Seq(Steps) /\ Len(a) \in m .. Len(a \o b)
         /\ Section(a \o b, m, Len(a))
         /\ SelfContained(a, m, Len(a)) => SelfContained(a \o b, m, Len(a))
         /\ \A i \in 1 .. Len(a) : (a \o b)[i] = a[i]
<1>1. /\ a \o b \in Seq(Steps) /\ Len(a \o b) = Len(a) + Len(b)
      /\ Len(a) \in Nat /\ Len(b) \in Nat
      /\ \A i \in 1 .. Len(a) : (a \o b)[i] = a[i]
      /\ \A i \in 1 .. Len(b) : (a \o b)[Len(a) + i] = b[i]
  BY Put
<1>2. Free(a \o b, Len(a) + 1)
  <2> SUFFICES ASSUME NEW i \in Len(a) + 1 .. Len(a \o b)
               PROVE  (a \o b)[i] \in Outside
    BY DEF Free
  <2>1. i - Len(a) \in 1 .. Len(b) /\ i = Len(a) + (i - Len(a))
    BY <1>1
  <2> QED
    BY <1>1, <2>1 DEF Free
<1>3. Section(a \o b, m, Len(a))
  BY <1>1, <1>2 DEF Section
<1>4. \A on, offs : Last(a, m, Len(a), on, offs) => Last(a \o b, m, Len(a), on, offs)
  <2> SUFFICES ASSUME NEW on, NEW offs, Last(a, m, Len(a), on, offs)
               PROVE  Last(a \o b, m, Len(a), on, offs)
    OBVIOUS
  <2>1. PICK i \in m .. Len(a) - 1 :
          a[i] \in on /\ \A j \in i + 1 .. Len(a) - 1 : a[j] \notin offs
    BY DEF Last
  <2>2. (a \o b)[i] \in on /\ \A j \in i + 1 .. Len(a) - 1 : (a \o b)[j] \notin offs
    BY <1>1, <2>1
  <2> QED
    BY <2>2 DEF Last
<1>5. SelfContained(a, m, Len(a)) => SelfContained(a \o b, m, Len(a))
  BY <1>1, <1>4 DEF SelfContained
<1> QED
  BY <1>1, <1>3, <1>5

(* It wants the lock, for a section that can stand for itself.             *)
LEMMA AloneLocks ==
  ASSUME TunerInv, TypeOK', NEW x \in Alone, At("peripheral", x),
         NEW a \in Seq(Steps), Then("peripheral", a),
         2 <= Len(a), a[1] = "lock", a[Len(a)] \in Closers,
         \A i \in 2 .. Len(a) - 1 : a[i] \in Inside,
         SelfContained(a, 2, Len(a)),
         UNCHANGED <<lvgl, app, source, saving, avOn>>
  PROVE  Control' /\ (lvgl = "none" => Lit)'
<1> DEFINE s == todo["peripheral"]
           p == a \o Tail(s)
<1>1. /\ lvgl # "peripheral" /\ s # <<>> /\ Tail(s) \in Seq(Steps) /\ Free(Tail(s), 1)
      /\ "peripheral" \in Threads /\ TypeOK
  BY AloneHead DEF Threads, TunerInv, TypeInv
<1>2. /\ todo'["peripheral"] = p
      /\ \A u \in Threads \ {"peripheral"} : todo'[u] = todo[u]
  BY <1>1, ThenMoves
<1>3. Len(a) \in Nat /\ 2 \in 1 .. Len(a) /\ 1 \in 1 .. Len(a)
  BY LenProperties
<1>4. /\ p \in Seq(Steps) /\ Section(p, 2, Len(a)) /\ SelfContained(p, 2, Len(a))
      /\ Len(a) \in 2 .. Len(p) /\ p[1] = "lock"
  BY <1>1, <1>3, SectionJoin
<1> HIDE DEF p
<1>5. p # <<>> /\ Head(p) = "lock"
  <2>1. Len(p) # 0 /\ Len(<<>>) = 0
    BY <1>3, <1>4, LenProperties
  <2>2. p # <<>>
    BY <2>1
  <2> QED
    BY <1>4, <2>2, Pop
<1>6. At("peripheral", "lock")'
  BY <1>2, <1>5 DEF At, doing
<1>7. Unheld("peripheral")'
  BY <1>2, <1>4, <1>6 DEF Unheld
<1> QED
  BY <1>1, <1>2, <1>7, UnheldMoves

(* A switch with what the crossover puts around it.                        *)
LEMMA SwitchSection ==
  ASSUME NEW a \in Seq(Steps), NEW to \in Receivers, NEW m \in 1 .. Len(a) + 1
  PROVE  LET p == a \o switchTo(to) \o <<"unlock">>
             n == Len(a) + 6
         IN  /\ p \in Seq(Steps) /\ Len(p) = n /\ p[n] = "unlock"
             /\ \A i \in 1 .. Len(a) : p[i] = a[i]
             /\ \A i \in Len(a) + 1 .. n - 1 : p[i] \in Inside
             /\ SelfContained(p, m, n)
<1> DEFINE b == switchTo(to)
           u == <<"unlock">>
           p == a \o b \o u
           n == Len(a) + Len(b) + 1
           c == <<>>
<1>1. /\ b \in Seq(Steps) /\ Len(b) = 5 /\ \A i \in 1 .. 5 : b[i] \in Inside
      /\ to = "hdzero" => b[5] = "hdzero"
      /\ to = "analog" => b[2] = "avOn" /\ b[3] # "avOff" /\ b[4] # "avOff" /\ b[5] # "avOff"
      /\ to = "hdzero" \/ to = "analog"
  BY Switches, Commanded, Widen DEF Receivers
<1> HIDE DEF b
<1>2. c \in Seq(Steps) /\ u \in Seq(Steps) /\ u = <<"unlock">> /\ Len(u) = 1
  BY DEF Steps
<1> HIDE DEF u
<1>3. /\ p \in Seq(Steps) /\ p \o c = p /\ Len(a) \in Nat /\ Len(p) = n
  <2>1. /\ a \o b \in Seq(Steps) /\ Len(a \o b) = Len(a) + Len(b)
        /\ Len(a) \in Nat
    BY <1>1, Put
  <2>2. p \in Seq(Steps) /\ Len(p) = Len(a \o b) + Len(u)
    BY <1>2, <2>1, Put
  <2> QED
    BY <1>1, <1>2, <2>1, <2>2, ConcatEmptySeq
<1> HIDE DEF c
<1>4. /\ p[n] = "unlock"
      /\ \A i \in 1 .. Len(a) : p[i] = a[i]
      /\ \A i \in Len(a) + 1 .. n - 1 : i - Len(a) \in 1 .. Len(b) /\ p[i] = b[i - Len(a)]
  <2>1. /\ (p \o c)[n] = "unlock"
        /\ \A i \in 1 .. Len(a) : (p \o c)[i] = a[i]
        /\ \A i \in Len(a) + 1 .. n - 1 :
             i - Len(a) \in 1 .. Len(b) /\ (p \o c)[i] = b[i - Len(a)]
    <3> DEFINE q == p \o c
    <3>1. /\ b \in Seq(Steps) /\ c \in Seq(Steps)
          /\ u = <<"unlock">> /\ q = a \o b \o u \o c /\ n = Len(a) + Len(b) + 1
      BY <1>1, <1>2
    <3> HIDE DEF n, q
    <3>2. /\ q[n] = "unlock"
          /\ \A i \in 1 .. Len(a) : q[i] = a[i]
          /\ \A i \in Len(a) + 1 .. n - 1 : i - Len(a) \in 1 .. Len(b) /\ q[i] = b[i - Len(a)]
      BY <3>1, Framed
    <3> QED
      BY <3>2 DEF q
  <2> QED
    BY <1>3, <2>1
<1> HIDE DEF p
<1>5. ASSUME NEW i \in Len(a) + 1 .. n - 1
      PROVE  p[i] \in Inside
  <2>1. i - Len(a) \in 1 .. Len(b) /\ p[i] = b[i - Len(a)]
    BY <1>4
  <2> QED
    BY <1>1, <2>1
<1>6. n = Len(a) + 6 /\ n - 1 = Len(a) + 5 /\ m \in Nat
  BY <1>1, <1>3
<1> HIDE DEF n
<1>7. CASE to = "hdzero"
  <2>1. Len(a) + 5 \in m .. n - 1 /\ p[Len(a) + 5] = "hdzero"
    <3>1. Len(a) + 5 \in Len(a) + 1 .. n - 1 /\ (Len(a) + 5) - Len(a) = 5
      BY <1>3, <1>6
    <3>2. p[Len(a) + 5] = b[5]
      BY <1>4, <3>1
    <3>3. Len(a) + 5 \in m .. n - 1
      BY <1>3, <1>6
    <3> QED
      BY <1>1, <1>7, <3>2, <3>3
  <2>2. \A j \in Len(a) + 5 + 1 .. n - 1 : FALSE
    BY <1>3, <1>6
  <2>3. Last(p, m, n, {"hdzero"}, {"analog"})
    BY <2>1, <2>2 DEF Last
  <2> QED
    BY <1>3, <1>4, <1>5, <1>6, <2>3 DEF SelfContained, p, b, u
<1>8. CASE to = "analog"
  <2>1. Len(a) + 2 \in m .. n - 1 /\ p[Len(a) + 2] = "avOn"
    <3>1. Len(a) + 2 \in Len(a) + 1 .. n - 1 /\ (Len(a) + 2) - Len(a) = 2
      BY <1>3, <1>6
    <3>2. p[Len(a) + 2] = b[2]
      BY <1>4, <3>1
    <3> QED
      BY <1>1, <1>3, <1>6, <1>8, <3>2
  <2>2. ASSUME NEW j \in Len(a) + 2 + 1 .. n - 1
        PROVE  p[j] \notin {"avOff"}
    <3>1. j \in Len(a) + 1 .. n - 1 /\ j - Len(a) \in {3, 4, 5}
      BY <1>3, <1>6
    <3> QED
      BY <1>1, <1>4, <1>8, <3>1
  <2>3. Last(p, m, n, {"avOn"}, {"avOff"})
    BY <2>1, <2>2 DEF Last
  <2> QED
    BY <1>3, <1>4, <1>5, <1>6, <2>3 DEF SelfContained, p, b, u
<1> QED
  BY <1>1, <1>7, <1>8

LEMMA TickControl ==
  ASSUME TunerInv, TypeOK', Tick
  PROVE  Control' /\ (lvgl = "none" => Lit)'
<1> DEFINE round == <<"bwTick", "idle", "cross">>
<1>1. "peripheral" \in Threads /\ todo["peripheral"] = <<>> /\ TypeOK
  BY DEF Tick, Begin, Threads, TunerInv, TypeInv
<1>2. lvgl # "peripheral"
  BY <1>1, HeldHead
<1>3. round \in Seq(Steps)
  BY Continuations, Widen, <1>1
<1>4. Free(round, 1)
  BY DEF Free, Outside
<1>5. Begin("peripheral", round) /\ UNCHANGED <<lvgl, app, source, saving, avOn>>
  BY DEF Tick, state, analog
<1> HIDE DEF round
<1>6. /\ todo'["peripheral"] = round
      /\ \A u \in Threads \ {"peripheral"} : todo'[u] = todo[u]
  BY <1>1, <1>3, <1>5, BeginMoves
<1>7. Unheld("peripheral")'
  BY <1>4, <1>6 DEF Unheld
<1> QED
  BY <1>1, <1>2, <1>5, <1>6, <1>7, UnheldMoves

LEMMA FreeSteps ==
  /\ <<>> \in Seq(Steps) /\ Free(<<>>, 1)
  /\ \A x \in Outside : <<x>> \in Seq(Steps) /\ Free(<<x>>, 1)
  /\ \A x, y \in Outside : <<x, y>> \in Seq(Steps) /\ Free(<<x, y>>, 1)
<1>1. ASSUME NEW x \in Outside, NEW y \in Outside
      PROVE  /\ <<x>> \in Seq(Steps) /\ Free(<<x>>, 1)
             /\ <<x, y>> \in Seq(Steps) /\ Free(<<x, y>>, 1)
  BY StepKinds DEF Free
<1>2. <<>> \in Seq(Steps) /\ Free(<<>>, 1)
  BY DEF Free
<1> QED
  BY <1>1, <1>2

LEMMA IdleControl ==
  ASSUME TunerInv, TypeOK', IdleTick
  PROVE  Control' /\ (lvgl = "none" => Lit)'
<1>1. /\ At("peripheral", "idle") /\ "idle" \in Alone /\ "peripheral" \in Threads
      /\ UNCHANGED <<lvgl, app, source, saving, avOn>> /\ TypeOK
  BY DEF IdleTick, Alone, Threads, state, analog, TunerInv, TypeInv
<1>2. CASE Done("peripheral")
  BY <1>1, <1>2, AloneThen, FreeSteps DEF Done
<1>3. CASE ~Done("peripheral") /\ source # "hdzero"
  <2> DEFINE a == <<>>
             b == <<"forget">>
  <2>1. Then("peripheral", a \o b)
    BY <1>3 DEF IdleTick
  <2>2. a \in Seq(Steps) /\ Free(a, 1) /\ b \in Seq(Steps) /\ Free(b, 1)
    BY FreeSteps DEF Outside
  <2> HIDE DEF a, b
  <2> QED
    BY <1>1, <2>1, <2>2, FreeJoin, AloneThen
<1>4. CASE ~Done("peripheral") /\ source = "hdzero"
  <2> DEFINE a == <<"avOff", "noteOff">>
             b == <<"forget">>
             c == Tail(todo["peripheral"])
             p == a \o b \o c
  <2>1. Then("peripheral", a \o b) /\ Idling("peripheral")
    BY <1>4 DEF IdleTick, Idling
  <2>2. /\ a \in Seq(Steps) /\ Len(a) = 2 /\ a[1] = "avOff" /\ a[2] \in Outside
        /\ b \in Seq(Steps) /\ Len(b) = 1 /\ Free(b, 1)
    BY FreeSteps DEF Outside, Steps
  <2>3. /\ lvgl # "peripheral" /\ todo["peripheral"] # <<>> /\ c \in Seq(Steps) /\ Free(c, 1)
    BY <1>1, AloneHead
  <2> HIDE DEF a, b, c
  <2>4. /\ a \o b \in Seq(Steps) /\ Len(a \o b) = 3 /\ (a \o b)[1] = "avOff"
        /\ (a \o b)[2] \in Outside /\ (a \o b)[3] \in Outside
    <3>1. /\ a \o b \in Seq(Steps) /\ Len(a \o b) = Len(a) + Len(b)
          /\ \A i \in 1 .. Len(a) : (a \o b)[i] = a[i]
          /\ \A i \in 1 .. Len(b) : (a \o b)[Len(a) + i] = b[i]
      BY <2>2, Put
    <3>2. (a \o b)[1] = a[1] /\ (a \o b)[2] = a[2] /\ (a \o b)[2 + 1] = b[1] /\ 2 + 1 = 3
      BY <2>2, <3>1
    <3> QED
      BY <2>2, <3>1, <3>2 DEF Free
  <2> DEFINE ab == a \o b
  <2>5. Then("peripheral", ab) /\ ab \in Seq(Steps) /\ Len(ab) = 3 /\ ab[1] = "avOff"
        /\ ab[2] \in Outside /\ ab[3] \in Outside /\ p = ab \o c
    BY <2>1, <2>4
  <2> HIDE DEF ab, p
  <2>6. /\ todo'["peripheral"] = p
        /\ \A u \in Threads \ {"peripheral"} : todo'[u] = todo[u]
    BY <1>1, <2>3, <2>5, ThenMoves DEF c
  <2>7. /\ p \in Seq(Steps) /\ Len(p) = 3 + Len(c) /\ Len(c) \in Nat
        /\ \A i \in 1 .. 3 : p[i] = ab[i]
        /\ \A i \in 1 .. Len(c) : p[3 + i] = c[i]
    <3>1. /\ ab \o c \in Seq(Steps) /\ Len(ab \o c) = Len(ab) + Len(c) /\ Len(c) \in Nat
          /\ \A i \in 1 .. Len(ab) : (ab \o c)[i] = ab[i]
          /\ \A i \in 1 .. Len(c) : (ab \o c)[Len(ab) + i] = c[i]
      BY <2>3, <2>5, Put
    <3> QED
      BY <2>5, <3>1
  <2>8. Free(p, 2)
    <3> SUFFICES ASSUME NEW i \in 2 .. Len(p)
                 PROVE  p[i] \in Outside
      BY DEF Free
    <3>1. CASE i \in {2, 3}
      BY <2>5, <2>7, <3>1
    <3>2. CASE i \notin {2, 3}
      <4>1. i - 3 \in 1 .. Len(c) /\ i = 3 + (i - 3)
        BY <2>7, <3>2
      <4> QED
        BY <2>3, <2>7, <4>1 DEF Free
    <3> QED
      BY <3>1, <3>2
  <2>9. p # <<>> /\ Head(p) = "avOff"
    <3>1. p # <<>>
      <4>1. Len(p) # 0 /\ Len(<<>>) = 0
        BY <2>7
      <4> QED
        BY <4>1
    <3>2. 1 \in 1 .. 3 /\ p[1] = "avOff"
      BY <2>5, <2>7
    <3> QED
      BY <2>7, <3>1, <3>2, Pop
  <2>10. At("peripheral", "avOff")' /\ Idling("peripheral")'
    BY <1>1, <2>1, <2>6, <2>9 DEF At, doing, Idling, Apart
  <2>11. Unheld("peripheral")'
    BY <2>6, <2>8, <2>10 DEF Unheld
  <2> QED
    BY <1>1, <2>1, <2>3, <2>6, <2>11, UnheldMoves
<1> QED
  BY <1>2, <1>3, <1>4

LEMMA WatchControl ==
  ASSUME TunerInv, TypeOK',
         \/ Forget \/ ProbeAnalog \/ Look
         \/ \E attempt \in BOOLEAN : BwTick(attempt) \/ CrossTick(attempt)
  PROVE  Control' /\ (lvgl = "none" => Lit)'
<1>1. CASE Forget \/ Look
  <2>1. PICK x \in {"forget", "look"} : At("peripheral", x)
    BY <1>1 DEF Forget, Look
  <2>2. /\ x \in Alone /\ Then("peripheral", <<>>)
        /\ UNCHANGED <<lvgl, app, source, saving, avOn>>
    BY <1>1 DEF Forget, Look, Done, Alone, state, analog
  <2> QED
    BY <2>1, <2>2, FreeSteps, AloneThen
<1>2. CASE ProbeAnalog
  <2> DEFINE a == IF avDown THEN <<"avOn", "clear">> ELSE <<>>
  <2>1. /\ At("peripheral", "probe") /\ "probe" \in Alone /\ Then("peripheral", a)
        /\ UNCHANGED <<lvgl, app, source, saving, avOn>>
    BY <1>2 DEF ProbeAnalog, Alone, state, analog
  <2>2. a \in Seq(Steps) /\ Free(a, 1)
    BY FreeSteps, {"avOn", "clear"} \subseteq Outside DEF Outside
  <2> HIDE DEF a
  <2> QED
    BY <2>1, <2>2, AloneThen
<1>3. ASSUME NEW attempt \in BOOLEAN, BwTick(attempt)
      PROVE  Control' /\ (lvgl = "none" => Lit)'
  <2>1. /\ At("peripheral", "bwTick") /\ "bwTick" \in Alone
        /\ UNCHANGED <<lvgl, app, source, saving, avOn>>
    BY <1>3 DEF BwTick, Alone, state, analog
  <2>2. CASE attempt
    <3> DEFINE a == <<"lock", "recheck">>
    <3>1. Then("peripheral", a)
      BY <1>3, <2>2 DEF BwTick
    <3>2. /\ a \in Seq(Steps) /\ 2 <= Len(a) /\ a[1] = "lock" /\ a[Len(a)] \in Closers
          /\ \A i \in 2 .. Len(a) - 1 : a[i] \in Inside
          /\ \A i \in 2 .. Len(a) - 1 : a[i] \in Outside
      BY DEF Steps, Closers
    <3>3. SelfContained(a, 2, Len(a))
      BY <3>2 DEF SelfContained
    <3> HIDE DEF a
    <3> QED
      BY <2>1, <3>1, <3>2, <3>3, AloneLocks
  <2>3. CASE ~attempt
    <3>1. Then("peripheral", <<>>)
      BY <1>3, <2>3 DEF BwTick
    <3> QED
      BY <2>1, <3>1, FreeSteps, AloneThen
  <2> QED
    BY <2>2, <2>3
<1>4. ASSUME NEW attempt \in BOOLEAN, CrossTick(attempt)
      PROVE  Control' /\ (lvgl = "none" => Lit)'
  <2> DEFINE a == IF ~attempt THEN <<>>
          ELSE <<"probe">> \o (IF source = "hdzero" THEN <<"compare">> ELSE sweep \o <<"verdict">>)
  <2>1. /\ At("peripheral", "cross") /\ "cross" \in Alone /\ Then("peripheral", a)
        /\ UNCHANGED <<lvgl, app, source, saving, avOn>>
    BY <1>4 DEF CrossTick, Alone, state, analog
  <2>2. a \in Seq(Steps) /\ Free(a, 1)
    <3>1. {"probe", "compare", "verdict", "wide", "narrow", "look"} \subseteq Outside
      BY DEF Outside, Bandwidths
    <3>2. /\ <<"probe">> \in Seq(Steps) /\ Free(<<"probe">>, 1)
          /\ <<"compare">> \in Seq(Steps) /\ Free(<<"compare">>, 1)
          /\ <<"verdict">> \in Seq(Steps) /\ Free(<<"verdict">>, 1)
          /\ <<"wide", "look">> \in Seq(Steps) /\ Free(<<"wide", "look">>, 1)
          /\ <<"narrow", "look">> \in Seq(Steps) /\ Free(<<"narrow", "look">>, 1)
      BY <3>1, FreeSteps
    <3>3. sweep \in Seq(Steps) /\ Free(sweep, 1)
      BY <3>2, FreeSteps, FreeJoin DEF sweep
    <3>4. /\ sweep \o <<"verdict">> \in Seq(Steps) /\ Free(sweep \o <<"verdict">>, 1)
      BY <3>2, <3>3, FreeJoin
    <3>5. /\ <<"probe">> \o (sweep \o <<"verdict">>) \in Seq(Steps)
          /\ Free(<<"probe">> \o (sweep \o <<"verdict">>), 1)
          /\ <<"probe">> \o <<"compare">> \in Seq(Steps)
          /\ Free(<<"probe">> \o <<"compare">>, 1)
      BY <3>2, <3>4, FreeJoin
    <3> QED
      BY <3>5, FreeSteps
  <2> HIDE DEF a
  <2> QED
    BY <2>1, <2>2, AloneThen
<1> QED
  BY <1>1, <1>2, <1>3, <1>4

LEMMA CrossoverControl ==
  ASSUME TunerInv, TypeOK', Compare \/ Verdict
  PROVE  Control' /\ (lvgl = "none" => Lit)'
<1>1. PICK x \in {"compare", "verdict"} : At("peripheral", x)
  BY DEF Compare, Verdict
<1>2. x \in Alone /\ UNCHANGED <<lvgl, app, source, saving, avOn>>
  BY DEF Compare, Verdict, Alone, state, analog
<1>3. CASE \/ Compare /\ ~rssi
           \/ Verdict /\ found = "none"
  <2>1. Then("peripheral", <<>>) \/ Then("peripheral", <<"close">>)
    BY <1>3 DEF Compare, Verdict
  <2>2. <<"close">> \in Seq(Steps) /\ Free(<<"close">>, 1)
    BY FreeSteps DEF Outside
  <2> QED
    BY <1>1, <1>2, <2>1, <2>2, FreeSteps, AloneThen
<1>4. CASE Compare /\ rssi /\ setting = "both"
  <2> DEFINE a == <<"lock", other(bw), "try">>
  <2>1. Then("peripheral", a)
    BY <1>4 DEF Compare
  <2>2. other(bw) \in Steps /\ other(bw) \in Inside /\ other(bw) \in Outside
    BY DEF other, Bandwidths, Steps, Inside, Outside
  <2>3. /\ a \in Seq(Steps) /\ Len(a) = 3 /\ a[1] = "lock" /\ a[3] \in Closers
        /\ a[2] \in Inside /\ a[2] \in Outside
    BY <2>2 DEF Steps, Closers
  <2> HIDE DEF a
  <2>4. /\ 2 <= Len(a) /\ a[Len(a)] \in Closers
        /\ \A i \in 2 .. Len(a) - 1 : a[i] \in Inside
        /\ \A i \in 2 .. Len(a) - 1 : a[i] \in Outside
    BY <2>3
  <2>5. SelfContained(a, 2, Len(a))
    BY <2>4 DEF SelfContained
  <2> QED
    BY <1>1, <1>2, <2>1, <2>3, <2>4, <2>5, AloneLocks
<1>5. CASE Compare /\ rssi /\ setting # "both"
  <2> DEFINE a == <<"lock">>
             p == a \o switchTo("analog") \o <<"unlock">>
  <2>1. Then("peripheral", p)
    BY <1>5 DEF Compare
  <2>2. a \in Seq(Steps) /\ Len(a) = 1 /\ a[1] = "lock" /\ "analog" \in Receivers
    BY DEF Steps, Receivers
  <2> HIDE DEF a
  <2>3. /\ p \in Seq(Steps) /\ Len(p) = Len(a) + 6 /\ p[Len(a) + 6] = "unlock"
        /\ \A i \in 1 .. Len(a) : p[i] = a[i]
        /\ \A i \in Len(a) + 1 .. Len(a) + 6 - 1 : p[i] \in Inside
        /\ SelfContained(p, 2, Len(a) + 6)
    <3>1. 2 \in 1 .. Len(a) + 1
      BY <2>2
    <3>2. a \in Seq(Steps) /\ "analog" \in Receivers
      BY <2>2
    <3> QED
      BY <3>1, <3>2, SwitchSection
  <2> HIDE DEF p
  <2>4. /\ 2 <= Len(p) /\ p[1] = "lock" /\ p[Len(p)] \in Closers
        /\ \A i \in 2 .. Len(p) - 1 : p[i] \in Inside
        /\ SelfContained(p, 2, Len(p))
    BY <2>2, <2>3 DEF Closers
  <2> QED
    BY <1>1, <1>2, <2>1, <2>3, <2>4, AloneLocks
<1>6. CASE Verdict /\ found # "none"
  <2> DEFINE a == <<"lock", "adopt">>
             p == a \o switchTo("hdzero") \o <<"unlock">>
  <2>1. Then("peripheral", p)
    BY <1>6 DEF Verdict
  <2>2. /\ a \in Seq(Steps) /\ Len(a) = 2 /\ a[1] = "lock" /\ a[2] \in Inside
        /\ "hdzero" \in Receivers
    BY DEF Steps, Receivers, Inside
  <2> HIDE DEF a
  <2>3. /\ p \in Seq(Steps) /\ Len(p) = Len(a) + 6 /\ p[Len(a) + 6] = "unlock"
        /\ \A i \in 1 .. Len(a) : p[i] = a[i]
        /\ \A i \in Len(a) + 1 .. Len(a) + 6 - 1 : p[i] \in Inside
        /\ SelfContained(p, 2, Len(a) + 6)
    <3>1. 2 \in 1 .. Len(a) + 1
      BY <2>2
    <3>2. a \in Seq(Steps) /\ "hdzero" \in Receivers
      BY <2>2
    <3> QED
      BY <3>1, <3>2, SwitchSection
  <2> HIDE DEF p
  <2>4. /\ 2 <= Len(p) /\ p[1] = "lock" /\ p[Len(p)] \in Closers
        /\ \A i \in 2 .. Len(p) - 1 : p[i] \in Inside
        /\ SelfContained(p, 2, Len(p))
    BY <2>2, <2>3 DEF Closers
  <2> QED
    BY <1>1, <1>2, <2>1, <2>3, <2>4, AloneLocks
<1> QED
  BY <1>3, <1>4, <1>5, <1>6

(* Under the lock.                                                         *)
LEMMA CloserHead ==
  ASSUME TunerInv, NEW x \in {"try", "recheck"}, At("peripheral", x)
  PROVE  LET s == todo["peripheral"]
         IN  /\ lvgl = "peripheral" /\ Lit /\ s # <<>> /\ s \in Seq(Steps)
             /\ Tail(s) \in Seq(Steps) /\ Free(Tail(s), 1)
<1> DEFINE s == todo["peripheral"]
<1>1. x \in Steps /\ x \notin Inside \cup Outside \cup {"lock", "avOff", "unlock"}
  BY DEF Steps, Inside, Outside, States, Receivers, Bandwidths
<1>2. /\ s \in Seq(Steps) /\ s # <<>> /\ s[1] = x /\ "peripheral" \in Threads
  BY <1>1, AtHead DEF TunerInv, TypeInv, Threads
<1>3. lvgl = "peripheral"
  BY <1>1, <1>2, UnheldHead
<1>4. ~At("peripheral", "unlock")
  BY <1>1 DEF At
<1>5. Lit /\ Free(s, 1 + 1)
  BY <1>1, <1>2, <1>3, <1>4, HeldHead
<1>6. Free(Tail(s), 1) /\ Tail(s) \in Seq(Steps)
  BY <1>2, <1>5, TailFree, Pop
<1> QED
  BY <1>2, <1>3, <1>5, <1>6

LEMMA CloserThen ==
  ASSUME TunerInv, TypeOK', NEW x \in {"try", "recheck"}, At("peripheral", x),
         NEW a \in Seq(Steps), Then("peripheral", a),
         1 <= Len(a), a[Len(a)] \in Closers,
         \A i \in 1 .. Len(a) - 1 : a[i] \in Inside /\ a[i] \notin {"video", "analog", "avOff"},
         UNCHANGED <<lvgl, app, source, saving, avOn>>
  PROVE  Control' /\ (lvgl = "none" => Lit)'
<1> DEFINE s == todo["peripheral"]
           p == a \o Tail(s)
<1>1. /\ lvgl = "peripheral" /\ Lit /\ s # <<>> /\ Tail(s) \in Seq(Steps) /\ Free(Tail(s), 1)
      /\ "peripheral" \in Threads /\ TypeOK
  BY CloserHead DEF Threads, TunerInv, TypeInv
<1>2. /\ todo'["peripheral"] = p
      /\ \A u \in Threads \ {"peripheral"} : todo'[u] = todo[u]
  BY <1>1, ThenMoves
<1>3. Len(a) \in Nat /\ 1 \in 1 .. Len(a)
  BY LenProperties
<1>4. /\ p \in Seq(Steps) /\ Section(p, 1, Len(a)) /\ Len(a) \in 1 .. Len(p)
      /\ \A i \in 1 .. Len(a) : p[i] = a[i]
  BY <1>1, <1>3, SectionJoin
<1> HIDE DEF p
<1>5. \A i \in 1 .. Len(a) - 1 : p[i] \notin {"video", "analog", "avOff"}
  BY <1>3, <1>4
<1>6. Keeps(p, Len(a))
  BY <1>1, <1>5, KeepsQuiet
<1>7. Keeps(todo["peripheral"], Len(a))'
  BY <1>2, <1>6 DEF Keeps, Ends, Apart
<1>8. Held("peripheral")'
  BY <1>2, <1>4, <1>7 DEF Held
<1> QED
  BY <1>1, <1>2, <1>8, HeldMoves

LEMMA RecheckControl ==
  ASSUME TunerInv, TypeOK', Recheck
  PROVE  Control' /\ (lvgl = "none" => Lit)'
<1> DEFINE a == IF ~watchesHDZero \/ rx_valid THEN <<"unlock">>
                ELSE IF setting = "both" THEN <<other(detected), "hop", "unlock">>
                ELSE <<"close", "open", "unlock">>
<1>1. /\ At("peripheral", "recheck") /\ Then("peripheral", a)
      /\ UNCHANGED <<lvgl, app, source, saving, avOn>>
  BY DEF Recheck, state, analog
<1>2. /\ a \in Seq(Steps) /\ 1 <= Len(a) /\ a[Len(a)] \in Closers
      /\ \A i \in 1 .. Len(a) - 1 : a[i] \in Inside /\ a[i] \notin {"video", "analog", "avOff"}
  <2>1. other(detected) \in Bandwidths
    BY DEF other, Bandwidths
  <2>2. \A x \in Bandwidths \cup {"hop", "close", "open"} :
          x \in Steps /\ x \in Inside /\ x \notin {"video", "analog", "avOff"}
    BY DEF Steps, Inside, Bandwidths
  <2>3. "unlock" \in Steps /\ "unlock" \in Closers
    BY DEF Steps, Closers
  <2> QED
    BY <2>1, <2>2, <2>3
<1> HIDE DEF a
<1> QED
  BY <1>1, <1>2, CloserThen

LEMMA TryControl ==
  ASSUME TunerInv, TypeOK', TryOther
  PROVE  Control' /\ (lvgl = "none" => Lit)'
<1>1. At("peripheral", "try") /\ UNCHANGED <<lvgl, app, source, saving, avOn>>
  BY DEF TryOther, state, analog
<1>2. CASE rx_valid
  <2> DEFINE a == <<"unlock">>
  <2>1. Then("peripheral", a)
    BY <1>2 DEF TryOther
  <2>2. /\ a \in Seq(Steps) /\ 1 <= Len(a) /\ a[Len(a)] \in Closers
        /\ \A i \in 1 .. Len(a) - 1 : a[i] \in Inside /\ a[i] \notin {"video", "analog", "avOff"}
    BY DEF Steps, Closers
  <2> HIDE DEF a
  <2> QED
    BY <1>1, <2>1, <2>2, CloserThen
<1>3. CASE ~rx_valid
  <2> DEFINE a == <<"unlock", "lock">>
             p == a \o switchTo("analog") \o <<"unlock">>
             s == todo["peripheral"]
             q == p \o Tail(s)
  <2>1. Then("peripheral", p)
    BY <1>3 DEF TryOther
  <2>2. /\ a \in Seq(Steps) /\ Len(a) = 2 /\ a[1] = "unlock" /\ a[2] = "lock"
    BY DEF Steps
  <2> HIDE DEF a
  <2>3. /\ p \in Seq(Steps) /\ Len(p) = Len(a) + 6 /\ p[Len(a) + 6] = "unlock"
        /\ \A i \in 1 .. Len(a) : p[i] = a[i]
        /\ \A i \in Len(a) + 1 .. Len(a) + 6 - 1 : p[i] \in Inside
        /\ SelfContained(p, 3, Len(a) + 6)
    <3>1. 3 \in 1 .. Len(a) + 1
      BY <2>2
    <3>2. a \in Seq(Steps) /\ "analog" \in Receivers
      BY <2>2 DEF Receivers
    <3> QED
      BY <3>1, <3>2, SwitchSection
  <2> HIDE DEF p
  <2>4. /\ Len(p) = 8 /\ p[1] = "unlock" /\ p[2] = "lock" /\ p[Len(p)] \in Closers
        /\ \A i \in 3 .. Len(p) - 1 : p[i] \in Inside
        /\ SelfContained(p, 3, Len(p))
    BY <2>2, <2>3 DEF Closers
  <2>5. /\ lvgl = "peripheral" /\ Lit /\ s # <<>> /\ Tail(s) \in Seq(Steps) /\ Free(Tail(s), 1)
        /\ "peripheral" \in Threads /\ TypeOK
    BY <1>1, CloserHead DEF Threads, TunerInv, TypeInv
  <2>6. /\ q \in Seq(Steps) /\ Section(q, 3, Len(p)) /\ SelfContained(q, 3, Len(p))
        /\ Len(p) \in 3 .. Len(q) /\ \A i \in 1 .. Len(p) : q[i] = p[i]
    <3>1. 3 \in 1 .. Len(p)
      BY <2>4
    <3> QED
      BY <2>3, <2>4, <2>5, <3>1, SectionJoin
  <2>7. /\ todo'["peripheral"] = q
        /\ \A u \in Threads \ {"peripheral"} : todo'[u] = todo[u]
    BY <2>1, <2>3, <2>5, ThenMoves
  <2> HIDE DEF q
  <2>8. q[1] = "unlock" /\ q[2] = "lock" /\ Len(q) > 1 /\ Len(p) \in 3 .. Len(q)
    <3>1. 1 \in 1 .. Len(p) /\ 2 \in 1 .. Len(p)
      BY <2>4
    <3> QED
      BY <2>4, <2>6, <3>1, LenProperties
  <2>9. q # <<>> /\ Head(q) = "unlock"
    <3>1. Len(q) # 0 /\ Len(<<>>) = 0
      BY <2>6, <2>8, LenProperties
    <3>2. q # <<>>
      BY <3>1
    <3> QED
      BY <2>6, <2>8, <3>2, Pop
  <2>10. At("peripheral", "unlock")' /\ Lit'
    BY <1>1, <2>5, <2>7, <2>9 DEF At, doing, Lit, Apart
  <2>11. Held("peripheral")'
    BY <2>6, <2>7, <2>8, <2>10 DEF Held
  <2> QED
    BY <1>1, <2>5, <2>7, <2>11, HeldMoves
<1> QED
  BY <1>2, <1>3

LEMMA AdoptControl ==
  ASSUME TunerInv, TypeOK', \/ Adopt
                            \/ Hop /\ rx_valid
  PROVE  Control' /\ (lvgl = "none" => Lit)'
<1>1. PICK x \in {"adopt", "hop"} : At("peripheral", x)
  BY DEF Adopt, Hop
<1>2. x \in Inside /\ x \notin States \cup Receivers \cup {"doze", "avOn", "avOff"}
  BY DEF Inside, States, Receivers
<1>3. /\ Done("peripheral") /\ UNCHANGED <<lvgl, app, source, saving, avOn>>
      /\ "peripheral" \in Threads
  BY DEF Adopt, Hop, state, analog, Threads
<1>4. Obeys(x)
  BY <1>2, <1>3 DEF Obeys, States, Receivers
<1> QED
  BY <1>1, <1>2, <1>3, <1>4, PlainControl

LEMMA HopControl ==
  ASSUME TunerInv, TypeOK', Hop, ~rx_valid
  PROVE  Control' /\ (lvgl = "none" => Lit)'
<1> DEFINE s == todo["peripheral"]
           a == <<detected>>
           p == a \o Tail(s)
<1>1. /\ At("peripheral", "hop") /\ Then("peripheral", a) /\ TypeOK
      /\ UNCHANGED <<lvgl, app, source, saving, avOn>> /\ "peripheral" \in Threads
  BY DEF Hop, state, analog, Threads, TunerInv, TypeInv
<1>2. /\ "hop" \in Steps /\ "hop" \notin Outside \cup Closers \cup {"lock", "avOff"}
  BY DEF Steps, Outside, Closers, Bandwidths
<1>3. s \in Seq(Steps) /\ s # <<>> /\ s[1] = "hop"
  BY <1>1, <1>2, AtHead
<1>4. lvgl = "peripheral"
  BY <1>1, <1>2, <1>3, UnheldHead
<1>5. PICK n \in 2 .. Len(s) : Section(s, 1, n) /\ Keeps(s, n)
  BY <1>1, <1>2, <1>3, <1>4, HeldHead
<1>6. /\ detected \in Inside
      /\ detected \notin {"video", "analog", "avOff"}
      /\ a \in Seq(Steps) /\ Len(a) = 1 /\ a[1] = detected
  BY <1>1 DEF TypeOK, Bandwidths, Inside, Steps
<1>7. /\ todo'["peripheral"] = p
      /\ \A u \in Threads \ {"peripheral"} : todo'[u] = todo[u]
  BY <1>1, <1>3, <1>6, ThenMoves
<1> HIDE DEF a
<1>8. /\ p \in Seq(Steps) /\ Len(p) = Len(s) /\ Len(s) \in Nat /\ p[1] = detected
      /\ \A i \in 2 .. Len(s) : p[i] = s[i]
  <2>1. /\ Tail(s) \in Seq(Steps) /\ Len(s) \in Nat \ {0} /\ Len(Tail(s)) = Len(s) - 1
        /\ \A i \in 1 .. Len(s) - 1 : Tail(s)[i] = s[i + 1]
    BY <1>3, Pop
  <2>2. /\ p \in Seq(Steps) /\ Len(p) = Len(a) + Len(Tail(s))
        /\ \A i \in 1 .. Len(a) : p[i] = a[i]
        /\ \A i \in 1 .. Len(Tail(s)) : p[Len(a) + i] = Tail(s)[i]
    BY <1>6, <2>1, Put
  <2>3. ASSUME NEW i \in 2 .. Len(s)
        PROVE  p[i] = s[i]
    <3>1. i - 1 \in 1 .. Len(Tail(s)) /\ i = Len(a) + (i - 1) /\ i = (i - 1) + 1
      BY <1>6, <2>1
    <3>2. p[Len(a) + (i - 1)] = Tail(s)[i - 1] /\ Tail(s)[i - 1] = s[(i - 1) + 1]
      BY <2>1, <2>2, <3>1
    <3> QED
      BY <3>1, <3>2
  <2> QED
    BY <1>6, <2>1, <2>2, <2>3
<1> HIDE DEF p
<1>9. Section(p, 1, n)
  BY <1>5, <1>6, <1>8 DEF Section, Free
<1>10. ASSUME NEW on, NEW offs, NEW now \in BOOLEAN, "hop" \notin on, detected \notin offs,
              Ends(s, n, on, offs, now)
       PROVE  Ends(p, n, on, offs, now)
  <2>1. CASE Last(s, 1, n, on, offs)
    <3>1. PICK i \in 1 .. n - 1 : s[i] \in on /\ \A j \in i + 1 .. n - 1 : s[j] \notin offs
      BY <2>1 DEF Last
    <3>2. i \in 2 .. Len(s) /\ p[i] \in on
      BY <1>3, <1>5, <1>8, <1>10, <3>1
    <3>3. \A j \in i + 1 .. n - 1 : p[j] \notin offs
      BY <1>5, <1>8, <3>1, <3>2
    <3> QED
      BY <3>1, <3>2, <3>3 DEF Last, Ends
  <2>2. CASE now /\ Never(s, 1, n, offs)
    <3>1. \A i \in 1 .. n - 1 : p[i] \notin offs
      BY <1>5, <1>8, <1>10, <2>2 DEF Never
    <3> QED
      BY <2>2, <3>1 DEF Never, Ends
  <2> QED
    BY <1>10, <2>1, <2>2 DEF Ends
<1>11. Keeps(p, n)
  <2>1. /\ (app # "video") \in BOOLEAN /\ (source = "hdzero") \in BOOLEAN /\ avOn \in BOOLEAN
        /\ detected \notin {"video"} /\ detected \notin {"analog"} /\ detected \notin {"avOff"}
    BY <1>1, <1>6 DEF TypeOK
  <2>2. Ends(s, n, {"menu", "sleep", "doze"}, {"video"}, app # "video")
          => Ends(p, n, {"menu", "sleep", "doze"}, {"video"}, app # "video")
    BY <1>10, <2>1
  <2>3. Ends(s, n, {"hdzero"}, {"analog"}, source = "hdzero")
          => Ends(p, n, {"hdzero"}, {"analog"}, source = "hdzero")
    BY <1>10, <2>1
  <2>4. Ends(s, n, {"avOn"}, {"avOff"}, avOn) => Ends(p, n, {"avOn"}, {"avOff"}, avOn)
    BY <1>10, <2>1
  <2> QED
    BY <1>5, <2>2, <2>3, <2>4 DEF Keeps
<1>12. Keeps(todo["peripheral"], n)'
  BY <1>1, <1>7, <1>11 DEF Keeps, Ends, Apart
<1>13. Held("peripheral")'
  BY <1>5, <1>7, <1>8, <1>9, <1>12 DEF Held
<1> QED
  BY <1>1, <1>4, <1>7, <1>13, HeldMoves

LEMMA PeripheralControl ==
  ASSUME TunerInv, TypeOK', Peripheral
  PROVE  Control' /\ (lvgl = "none" => Lit)'
BY TickControl, RecheckControl, AdoptControl, HopControl, IdleControl, WatchControl,
   CrossoverControl, TryControl DEF Peripheral
-----------------------------------------------------------------------------
(* The requests: how the programs of the buttons and of the backpack end.  *)
LEMMA JoinEnds ==
  ASSUME NEW a \in Seq(Steps), NEW b \in Seq(Steps), NEW on, NEW offs
  PROVE  /\ a \o b \in Seq(Steps)
         /\ Last(b, 1, Len(b) + 1, on, offs) => Last(a \o b, 1, Len(a \o b) + 1, on, offs)
         /\ Last(a, 1, Len(a) + 1, on, offs) /\ Never(b, 1, Len(b) + 1, offs)
              => Last(a \o b, 1, Len(a \o b) + 1, on, offs)
         /\ Never(a, 1, Len(a) + 1, offs) /\ Never(b, 1, Len(b) + 1, offs)
              => Never(a \o b, 1, Len(a \o b) + 1, offs)
<1> DEFINE p == a \o b
<1>1. /\ p \in Seq(Steps) /\ Len(p) = Len(a) + Len(b) /\ Len(a) \in Nat /\ Len(b) \in Nat
      /\ \A i \in 1 .. Len(a) : p[i] = a[i]
      /\ \A i \in 1 .. Len(b) : p[Len(a) + i] = b[i]
  BY Put
<1> HIDE DEF p
<1>2. \A i \in Len(a) + 1 .. Len(p) : i - Len(a) \in 1 .. Len(b) /\ p[i] = b[i - Len(a)]
  <2> SUFFICES ASSUME NEW i \in Len(a) + 1 .. Len(p)
               PROVE  i - Len(a) \in 1 .. Len(b) /\ p[i] = b[i - Len(a)]
    OBVIOUS
  <2>1. i - Len(a) \in 1 .. Len(b) /\ i = Len(a) + (i - Len(a))
    BY <1>1
  <2> QED
    BY <1>1, <2>1
<1>3. ASSUME Never(b, 1, Len(b) + 1, offs)
      PROVE  \A i \in Len(a) + 1 .. Len(p) : p[i] \notin offs
  <2>1. \A i \in 1 .. Len(b) : b[i] \notin offs
    BY <1>1, <1>3 DEF Never
  <2> QED
    BY <1>2, <2>1
<1>4. ASSUME Last(b, 1, Len(b) + 1, on, offs)
      PROVE  Last(p, 1, Len(p) + 1, on, offs)
  <2>1. PICK i \in 1 .. Len(b) : b[i] \in on /\ \A j \in i + 1 .. Len(b) : b[j] \notin offs
    BY <1>1, <1>4 DEF Last
  <2>2. Len(a) + i \in 1 .. Len(p) /\ p[Len(a) + i] \in on
    BY <1>1, <2>1
  <2>3. ASSUME NEW j \in Len(a) + i + 1 .. Len(p)
        PROVE  p[j] \notin offs
    <3>1. j \in Len(a) + 1 .. Len(p) /\ j - Len(a) \in i + 1 .. Len(b)
      BY <1>1
    <3> QED
      BY <1>2, <2>1, <3>1
  <2>4. Len(p) + 1 - 1 = Len(p)
    BY <1>1
  <2> QED
    BY <2>2, <2>3, <2>4 DEF Last
<1>5. ASSUME Last(a, 1, Len(a) + 1, on, offs), Never(b, 1, Len(b) + 1, offs)
      PROVE  Last(p, 1, Len(p) + 1, on, offs)
  <2>1. PICK i \in 1 .. Len(a) : a[i] \in on /\ \A j \in i + 1 .. Len(a) : a[j] \notin offs
    BY <1>1, <1>5 DEF Last
  <2>2. i \in 1 .. Len(p) /\ p[i] \in on
    BY <1>1, <2>1
  <2>3. ASSUME NEW j \in i + 1 .. Len(p)
        PROVE  p[j] \notin offs
    <3>1. j \in i + 1 .. Len(a) \/ j \in Len(a) + 1 .. Len(p)
      BY <1>1
    <3> QED
      BY <1>1, <1>3, <1>5, <2>1, <3>1
  <2>4. Len(p) + 1 - 1 = Len(p)
    BY <1>1
  <2> QED
    BY <2>2, <2>3, <2>4 DEF Last
<1>6. ASSUME Never(a, 1, Len(a) + 1, offs), Never(b, 1, Len(b) + 1, offs)
      PROVE  Never(p, 1, Len(p) + 1, offs)
  <2> SUFFICES ASSUME NEW i \in 1 .. Len(p)
               PROVE  p[i] \notin offs
    BY <1>1 DEF Never
  <2>1. i \in 1 .. Len(a) \/ i \in Len(a) + 1 .. Len(p)
    BY <1>1
  <2>2. \A k \in 1 .. Len(a) : a[k] \notin offs
    BY <1>1, <1>6 DEF Never
  <2>3. CASE i \in 1 .. Len(a)
    BY <1>1, <2>2, <2>3
  <2>4. CASE i \in Len(a) + 1 .. Len(p)
    BY <1>3, <1>6, <2>4
  <2> QED
    BY <2>1, <2>3, <2>4
<1> QED
  BY <1>1, <1>4, <1>5, <1>6 DEF p

(* ... with the lock given back at the end.                                *)
LEMMA Closed ==
  ASSUME NEW a \in Seq(Inside)
  PROVE  LET p == a \o <<"unlock">>
             n == Len(a) + 1
         IN  /\ p \in Seq(Steps) /\ n \in 1 .. Len(p) /\ Section(p, 1, n)
             /\ Keeps(a, n) => Keeps(p, n)
<1> DEFINE u == <<"unlock">>
           p == a \o u
           n == Len(a) + 1
<1>1. a \in Seq(Steps) /\ u \in Seq(Steps) /\ Len(u) = 1 /\ u[1] = "unlock"
      /\ \A i \in 1 .. Len(a) : a[i] \in Inside
  BY Widen, LenProperties DEF Steps
<1> HIDE DEF u
<1>2. /\ p \in Seq(Steps) /\ Len(p) = n /\ Len(a) \in Nat
      /\ \A i \in 1 .. Len(a) : p[i] = a[i]
      /\ p[n] = "unlock"
  <2>1. /\ p \in Seq(Steps) /\ Len(p) = Len(a) + Len(u) /\ Len(a) \in Nat
        /\ \A i \in 1 .. Len(a) : p[i] = a[i]
        /\ \A i \in 1 .. Len(u) : p[Len(a) + i] = u[i]
    BY <1>1, Put
  <2> QED
    BY <1>1, <2>1
<1> HIDE DEF p
<1>3. n \in 1 .. Len(p) /\ Section(p, 1, n)
  BY <1>1, <1>2 DEF Section, Free, Closers
<1>4. \A on, offs : /\ Last(a, 1, n, on, offs) => Last(p, 1, n, on, offs)
                    /\ Never(a, 1, n, offs) => Never(p, 1, n, offs)
  <2> TAKE on, offs
  <2>1. ASSUME Last(a, 1, n, on, offs)
        PROVE  Last(p, 1, n, on, offs)
    <3>1. PICK i \in 1 .. n - 1 : a[i] \in on /\ \A j \in i + 1 .. n - 1 : a[j] \notin offs
      BY <2>1 DEF Last
    <3>2. p[i] \in on /\ \A j \in i + 1 .. n - 1 : p[j] \notin offs
      BY <1>2, <3>1
    <3> QED
      BY <3>2 DEF Last
  <2>2. ASSUME Never(a, 1, n, offs)
        PROVE  Never(p, 1, n, offs)
    BY <1>2, <2>2 DEF Never
  <2> QED
    BY <2>1, <2>2
<1>5. Keeps(a, n) => Keeps(p, n)
  BY <1>4 DEF Keeps, Ends
<1> QED
  BY <1>2, <1>3, <1>5 DEF p, u

(* A request that is made while the picture is lit leaves none dark.       *)
LEMMA RequestKeeps ==
  ASSUME TypeOK, Lit, NEW a \in pressed \cup commanded
  PROVE  a \in Seq(Inside) /\ Keeps(a, Len(a) + 1)
<1> DEFINE Off == {"menu", "sleep", "doze"}
           Away(s) == Last(s, 1, Len(s) + 1, Off, {"video"})
           NoVideo(s) == Never(s, 1, Len(s) + 1, {"video"})
           Digital(s) == Last(s, 1, Len(s) + 1, {"hdzero"}, {"analog"})
           NoAnalog(s) == Never(s, 1, Len(s) + 1, {"analog"})
           Analog(s) == Last(s, 1, Len(s) + 1, {"avOn"}, {"avOff"})
           NoOff(s) == Never(s, 1, Len(s) + 1, {"avOff"})
<1>1. a \in Seq(Inside)
  BY Pressed, Commanded, Widen
<1>2. source \in {"hdzero", "analog"} /\ app \in States /\ previous \in States
  BY DEF TypeOK, Receivers
<1>3. /\ app_switch_to_menu \in Seq(Steps) /\ app_switch_to_hdzero \in Seq(Steps)
      /\ app_switch_to_analog \in Seq(Steps) /\ go_sleep \in Seq(Steps)
      /\ <<"video">> \in Seq(Steps) /\ <<"wake", previous>> \in Seq(Steps) /\ <<>> \in Seq(Steps)
  BY <1>2 DEF app_switch_to_menu, app_switch_to_hdzero, app_switch_to_analog, go_sleep, Steps,
              States
<1>4. Away(app_switch_to_menu) /\ NoAnalog(app_switch_to_menu)
  <2>1. app_switch_to_menu[1] = "menu" /\ Len(app_switch_to_menu) = 4
        /\ \A i \in 1 .. 4 : app_switch_to_menu[i] \notin {"video", "analog"}
    BY DEF app_switch_to_menu
  <2> QED
    BY <2>1 DEF Last, Never
<1>5. Away(go_sleep)
  <2>1. go_sleep[1] = "doze" /\ Len(go_sleep) = 3
        /\ \A i \in 1 .. 3 : go_sleep[i] # "video"
    BY DEF go_sleep
  <2> QED
    BY <2>1 DEF Last
<1>6. NoAnalog(app_switch_to_hdzero)
  BY DEF app_switch_to_hdzero, Never
<1>7. Analog(app_switch_to_analog)
  <2>1. app_switch_to_analog[2] = "avOn" /\ Len(app_switch_to_analog) = 3
        /\ app_switch_to_analog[3] # "avOff"
    BY DEF app_switch_to_analog
  <2> QED
    BY <2>1 DEF Last
<1>8. NoAnalog(<<"video">>) /\ NoOff(<<"video">>) /\ NoAnalog(<<"wake", previous>>)
      /\ (previous # "video" => NoVideo(<<"wake", previous>>))
  BY <1>2 DEF Never, States
<1> DEFINE leave == app_exit_menu
           wake == <<"wake", previous>>
           video == <<"video">>
<1>9. /\ leave \in Seq(Steps)
      /\ source = "hdzero" => NoAnalog(leave)
      /\ source = "analog" => Analog(leave)
  BY <1>3, <1>6, <1>7 DEF app_exit_menu
<1> HIDE DEF leave, wake, video
<1>10. CASE app # "sleep" /\ a = btn_press
  <2>1. CASE app = "video"
    BY <1>1, <1>4, <1>10, <2>1 DEF btn_press, Keeps, Ends
  <2>2. CASE app # "video"
    <3>1. a = leave \o video /\ video \in Seq(Steps) /\ NoAnalog(video) /\ NoOff(video)
      BY <1>3, <1>8, <1>10, <2>2 DEF btn_press, leave, video
    <3>2. source = "hdzero" => NoAnalog(a)
      BY <1>9, <3>1, JoinEnds
    <3>3. source = "analog" => Analog(a)
      BY <1>9, <3>1, JoinEnds
    <3> QED
      BY <1>1, <1>2, <3>2, <3>3 DEF Keeps, Ends
  <2> QED
    BY <2>1, <2>2
<1>11. CASE a = go_sleep
  BY <1>1, <1>5, <1>11 DEF Keeps, Ends
<1>12. CASE app = "sleep" /\ a = wake_up
  <2>1. CASE previous # "video"
    <3>1. wake \o <<>> = wake
      BY <1>3, ConcatEmptySeq DEF wake
    <3>2. a = wake /\ NoVideo(wake)
      BY <1>8, <1>12, <2>1, <3>1 DEF wake_up, wake
    <3> QED
      BY <1>1, <1>12, <3>2 DEF Keeps, Ends
  <2>2. CASE previous = "video"
    <3> DEFINE menu == app_switch_to_menu
               way == menu \o video
               back == way \o leave
    <3>1. a = wake \o back
      BY <1>12, <2>2 DEF wake_up, wake, video, leave
    <3>2. /\ menu \in Seq(Steps) /\ video \in Seq(Steps) /\ wake \in Seq(Steps)
          /\ NoAnalog(menu) /\ NoAnalog(video) /\ NoAnalog(wake)
      BY <1>3, <1>4, <1>8 DEF video, wake
    <3> HIDE DEF menu
    <3>3. way \in Seq(Steps) /\ NoAnalog(way)
      BY <3>2, JoinEnds
    <3> HIDE DEF way
    <3>4. /\ back \in Seq(Steps)
          /\ source = "hdzero" => NoAnalog(back)
          /\ source = "analog" => Analog(back)
      BY <1>9, <3>3, JoinEnds
    <3> HIDE DEF back
    <3>5. /\ source = "hdzero" => NoAnalog(a)
          /\ source = "analog" => Analog(a)
      BY <3>1, <3>2, <3>4, JoinEnds
    <3> QED
      BY <1>1, <1>2, <3>5 DEF Keeps, Ends
  <2> QED
    BY <2>1, <2>2
<1>13. CASE a \in commanded
  <2>1. a = switchTo("hdzero") \/ a = switchTo("analog")
    BY <1>13 DEF commanded, Receivers
  <2>2. CASE a = switchTo("hdzero")
    <3>1. Len(a) = 5 /\ a[5] = "hdzero"
      BY <2>2, Switches
    <3>2. Digital(a)
      BY <3>1 DEF Last
    <3> QED
      BY <1>1, <3>2 DEF Keeps, Ends
  <2>3. CASE a = switchTo("analog")
    <3>1. Len(a) = 5 /\ a[2] = "avOn" /\ \A i \in 3 .. 5 : a[i] # "avOff"
      BY <2>3, Switches
    <3>2. Analog(a)
      BY <3>1 DEF Last
    <3> QED
      BY <1>1, <3>2 DEF Keeps, Ends
  <2> QED
    BY <2>1, <2>2, <2>3
<1> QED
  BY <1>10, <1>11, <1>12, <1>13 DEF pressed

LEMMA RequestControl ==
  ASSUME TunerInv, Request
  PROVE  Control' /\ (lvgl = "none" => Lit)'
<1>1. PICK t \in {"input", "backpack"}, a \in pressed \cup commanded :
        lvgl' = t /\ Begin(t, a \o <<"unlock">>)
  BY DEF Request
<1>2. lvgl = "none" /\ UNCHANGED <<app, source, saving, avOn>> /\ TypeOK /\ t \in Threads /\ Lit
  BY DEF Request, state, analog, TunerInv, TypeInv, Threads
<1> DEFINE p == a \o <<"unlock">>
           n == Len(a) + 1
<1>3. a \in Seq(Inside) /\ Keeps(a, n)
  BY <1>2, RequestKeeps
<1>4. p \in Seq(Steps) /\ n \in 1 .. Len(p) /\ Section(p, 1, n) /\ Keeps(p, n)
  BY <1>3, Closed
<1>5. todo'[t] = p /\ \A u \in Threads \ {t} : todo'[u] = todo[u]
  BY <1>1, <1>2, <1>4, BeginMoves
<1> HIDE DEF p, n
<1>6. Keeps(todo[t], n)'
  BY <1>2, <1>4, <1>5 DEF Keeps, Ends, Apart
<1>7. Held(t)'
  BY <1>4, <1>5, <1>6 DEF Held
<1> QED
  BY <1>1, <1>2, <1>5, <1>7, HeldMoves

(* Sleep mode, the screen saver, and what the others leave alone.          *)
LEMMA SleepingControl ==
  ASSUME TunerInv, TypeOK', Sleeping
  PROVE  Control' /\ (lvgl = "none" => Lit)'
<1>1. PICK x \in {"doze", "wake"} :
        At("input", x) /\ (x = "doze" => app' = "sleep") /\ (x = "wake" => app' = app)
  BY DEF Sleeping
<1>2. x \in Inside /\ x \notin States \cup Receivers \cup {"avOn", "avOff"}
  BY DEF Inside, States, Receivers
<1>3. Done("input") /\ UNCHANGED <<lvgl, source, saving, avOn>> /\ "input" \in Threads
  BY DEF Sleeping, analog, Threads
<1>4. Obeys(x)
  BY <1>1, <1>2, <1>3 DEF Obeys, States, Receivers
<1> QED
  BY <1>1, <1>2, <1>3, <1>4, PlainControl

LEMMA Unaffected ==
  ASSUME TunerInv, UNCHANGED <<todo, lvgl, source>>,
         lvgl = "none" \/ UNCHANGED <<app, saving, avOn>>, lvgl = "none" => Lit'
  PROVE  Control' /\ (lvgl = "none" => Lit)'
<1>1. ASSUME NEW t \in Threads, lvgl # t
      PROVE  Unheld(t)'
  <2>1. Unheld(t)
    BY <1>1 DEF TunerInv, Control
  <2> QED
    BY <2>1 DEF Unheld, Idling, Apart, At, doing
<1>2. ASSUME NEW t \in Threads, lvgl = t
      PROVE  Held(t)'
  <2>1. Held(t) /\ UNCHANGED <<app, saving, avOn>>
    BY <1>2 DEF TunerInv, Control, Threads
  <2> QED
    BY <2>1 DEF Held, Keeps, Ends, Lit, Apart, At, doing
<1> QED
  BY <1>1, <1>2 DEF Control

LEMMA SaverControl ==
  ASSUME TunerInv, detect_motion
  PROVE  Control' /\ (lvgl = "none" => Lit)'
<1>1. lvgl = "none" /\ UNCHANGED <<todo, lvgl, app, source>> /\ Lit /\ TypeOK
  BY DEF detect_motion, state, TunerInv, TypeInv
<1>2. Lit'
  <2>1. (source = "hdzero" \/ source = "analog") /\ saving \in BOOLEAN
    BY <1>1 DEF TypeOK, Receivers
  <2>2. CASE app = "video" /\ source = "analog" /\ saving
    <3>1. avOn' = saving
      BY <2>2 DEF detect_motion
    <3> QED
      BY <2>2, <3>1 DEF Lit
  <2>3. CASE app = "video" /\ source = "analog" /\ ~saving
    BY <2>3 DEF detect_motion, Lit
  <2>4. CASE ~(app = "video" /\ source = "analog")
    BY <1>1, <2>4 DEF Lit
  <2> QED
    BY <2>2, <2>3, <2>4
<1> QED
  BY <1>1, <1>2, Unaffected

LEMMA ControlKept == TunerInv /\ [Next]_vars => Control' /\ (lvgl = "none" => Lit)'
<1> SUFFICES ASSUME TunerInv, [Next]_vars
             PROVE  Control' /\ (lvgl = "none" => Lit)'
  OBVIOUS
<1>1. TypeOK'
  BY Types DEF TunerInv, TypeInv
<1>2. CASE Transmitter \/ UNCHANGED vars
  <2>1. UNCHANGED <<todo, lvgl, app, source, saving, avOn>>
    BY <1>2 DEF Transmitter, vars, state, analog
  <2>2. lvgl = "none" => Lit'
    BY <2>1 DEF TunerInv, Lit, Apart
  <2> QED
    BY <2>1, <2>2, Unaffected
<1> QED
  BY <1>1, <1>2, StepControl, PeripheralControl, RequestControl, SleepingControl, SaverControl
  DEF Next
-----------------------------------------------------------------------------
LEMMA TailWithout ==
  ASSUME NEW s \in Seq(Steps), s # <<>>, NEW S, \A i \in 1 .. Len(s) : s[i] \notin S
  PROVE  \A i \in 1 .. Len(Tail(s)) : Tail(s)[i] \notin S
<1> SUFFICES ASSUME NEW i \in 1 .. Len(Tail(s))
             PROVE  Tail(s)[i] \notin S
  OBVIOUS
<1>1. i \in 1 .. Len(s) - 1 /\ i + 1 \in 1 .. Len(s)
  BY Pop
<1> QED
  BY <1>1, Pop

LEMMA SourcesKept == TunerInv /\ [Next]_vars => Sources'
<1> SUFFICES ASSUME TunerInv, [Next]_vars, "retune" \notin Inputs,
                    NEW t \in Threads \ {"peripheral"}, NEW j \in 1 .. Len(todo'[t])
             PROVE  todo'[t][j] \notin Receivers
  BY DEF Sources
<1>1. TypeOK /\ todo[t] \in Seq(Steps) /\ Len(todo[t]) \in Nat
      /\ \A i \in 1 .. Len(todo[t]) : todo[t][i] \notin Receivers
  BY LenProperties DEF TunerInv, TypeInv, TypeOK, Sources
<1>2. CASE todo'[t] = todo[t]
  BY <1>1, <1>2
<1>3. ASSUME NEW u \in Threads, Done(u), NEW x \in Steps, At(u, x)
      PROVE  todo'[t][j] \notin Receivers
  <2>1. todo[u] # <<>> /\ todo'[u] = Tail(todo[u]) /\ (u # t => todo'[t] = todo[t])
    BY <1>1, <1>3, AtHead, DoneMoves
  <2>2. CASE u = t
    <3>1. todo[t] \in Seq(Steps) /\ todo[t] # <<>>
      BY <1>1, <2>1, <2>2
    <3>2. \A i \in 1 .. Len(Tail(todo[t])) : Tail(todo[t])[i] \notin Receivers
      BY <1>1, <3>1, TailWithout
    <3> QED
      BY <2>1, <2>2, <3>2
  <2> QED
    BY <1>2, <2>1, <2>2
<1>4. ASSUME NEW u \in Threads, Step(u)
      PROVE  todo'[t][j] \notin Receivers
  <2>1. Done(u) /\ \E x \in Steps : At(u, x)
    BY <1>4 DEF Step, Lock, Unlock, Open, HDZero_Close, rtc6715_init, Notify, app_state_push,
                SetSource, Steps, States, Receivers, Bandwidths
  <2> QED
    BY <1>3, <2>1
<1>5. CASE Peripheral
  <2>1. \E p : todo' = [todo EXCEPT !["peripheral"] = p]
    <3>1. \/ \E a : Then("peripheral", a)
          \/ \E a : Begin("peripheral", a)
      BY <1>5 DEF Peripheral, Tick, BwTick, Recheck, Hop, IdleTick, Forget, CrossTick, ProbeAnalog,
                  Compare, TryOther, Look, Verdict, Adopt, Done
    <3> QED
      BY <3>1 DEF Then, Begin
  <2> QED
    BY <1>1, <1>2, <2>1 DEF TypeOK
<1>6. CASE Request
  <2>1. PICK u \in {"input", "backpack"}, a \in pressed : Begin(u, a \o <<"unlock">>)
    BY <1>6, Commanded DEF Request
  <2>2. a \in Seq(Inside \ Receivers) /\ a \in Seq(Steps) /\ u \in Threads
    BY <1>1, Pressed, Widen DEF Threads
  <2> DEFINE b == <<"unlock">>
             p == a \o b
  <2>3. b \in Seq(Steps) /\ Len(b) = 1 /\ b[1] \notin Receivers
    BY DEF Steps, Receivers
  <2> HIDE DEF b
  <2>4. /\ p \in Seq(Steps) /\ Len(p) = Len(a) + Len(b) /\ Len(a) \in Nat
        /\ \A i \in 1 .. Len(a) : p[i] = a[i]
        /\ \A i \in 1 .. Len(b) : p[Len(a) + i] = b[i]
    BY <2>2, <2>3, Put
  <2>5. todo'[u] = p /\ (u # t => todo'[t] = todo[t])
    BY <1>1, <2>1, <2>2, <2>4, BeginMoves DEF b
  <2> HIDE DEF p
  <2>6. CASE u = t
    <3>1. j \in 1 .. Len(a) \/ j = Len(a) + 1
      BY <2>3, <2>4, <2>5, <2>6
    <3>2. CASE j \in 1 .. Len(a)
      BY <2>2, <2>4, <2>5, <2>6, <3>2, LenProperties
    <3>3. CASE j = Len(a) + 1
      BY <2>3, <2>4, <2>5, <2>6, <3>3
    <3> QED
      BY <3>1, <3>2, <3>3
  <2> QED
    BY <1>2, <2>5, <2>6
<1>7. CASE Sleeping
  <2>1. "input" \in Threads /\ Done("input") /\ \E x \in Steps : At("input", x)
    BY <1>7 DEF Sleeping, Threads, Steps
  <2> QED
    BY <1>3, <2>1
<1>8. CASE detect_motion \/ Transmitter \/ UNCHANGED vars
  BY <1>2, <1>8 DEF detect_motion, Transmitter, vars
<1> QED
  BY <1>4, <1>5, <1>6, <1>7, <1>8 DEF Next

LEMMA Invariance == Spec => []TunerInv
<1>1. Init => TunerInv
  <2> SUFFICES ASSUME Init
               PROVE  TunerInv
    OBVIOUS
  <2>1. \A t \in Threads : todo[t] = <<>>
    BY DEF Init
  <2>2. Control
    <3>1. \A t \in Threads : lvgl # t
      BY DEF Init, Threads
    <3> QED
      BY <2>1, <3>1, FreeSteps DEF Control, Unheld
  <2>3. Sources
    BY <2>1 DEF Sources
  <2>4. Lit
    BY DEF Init, Lit
  <2> QED
    BY <2>2, <2>3, <2>4, InitialTypes DEF TunerInv
<1>2. TunerInv /\ [Next]_vars => TunerInv'
  BY Types, ControlKept, SourcesKept DEF TunerInv
<1> QED
  BY <1>1, <1>2, PTL DEF Spec

(* What is left to do, the app's state and both receivers keep their types *)
(* for every set of inputs: in particular the crossover (scan_core.c) only *)
(* ever adopts a bandwidth on which its sweep has found something.         *)
THEOREM TypeCorrect == Spec => []TypeOK
<1>1. TypeInv => TypeOK
  BY DEF TypeInv
<1> QED
  BY <1>1, TypesInvariant, PTL

(* Whatever the buttons, sleep mode, the screen saver, the crossover and   *)
(* the bandwidth watchdog do, and in whatever order they get the lock, the *)
(* analog receiver is on when analog video is on the screen and nobody is  *)
(* at work: unless scan_core_idle_tick, which reads the source and acts on *)
(* it without the lock, may meet a channel command of the backpack.        *)
THEOREM AnalogStays == Apart => (Spec => []AnalogStaysOn)
<1>1. ASSUME Apart
      PROVE  TunerInv => AnalogStaysOn
  BY <1>1 DEF TunerInv, Lit, AnalogStaysOn, resting
<1>2. SUFFICES ASSUME Apart
               PROVE  Spec => []AnalogStaysOn
  OBVIOUS
<1>3. TunerInv => AnalogStaysOn
  BY <1>1, <1>2
<1> QED
  BY <1>3, Invariance, PTL

(* Nobody who has come to the end of what he does keeps lvgl_mutex, and a  *)
(* round of thread_peripheral begins without it.                           *)
THEOREM LockReturned == Spec => [](\A t \in Threads : todo[t] = <<>> => lvgl # t)
<1>1. TunerInv => \A t \in Threads : todo[t] = <<>> => lvgl # t
  BY HeldHead
<1> QED
  BY <1>1, Invariance, PTL
=============================================================================
