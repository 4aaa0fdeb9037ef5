--------------------------- MODULE BackpackProofs ---------------------------
(***************************************************************************)
(* What the backpack's power, its reader and the pages that use it         *)
(* guarantee, for every set of inputs and every bound.                     *)
(***************************************************************************)
EXTENDS Backpack, SequenceTheorems, FiniteSetTheorems, TLAPS

(* A program is a phase and the end it comes to.  A phase is named after   *)
(* its first step, or after what it does.                                  *)
Calm == {"nothing", "timers", "watch", "drain_STATUS", "STATUS", "drain_VERSION", "VERSION",
         "drain_tell", "tell", "pollSTATUS", "pollVERSION"}
Asking == {"drain_B", "drain_W", "B", "W"}
Watching == {"check", "checking", "miss"}
Opening == {"open", "settle", "open_uid", "settle_uid"}
Cycling == {"cycle", "cycling"}
Timed == Calm \cup Watching \cup Opening \cup Cycling \cup {"repower", "uid"}
Phases == Timed \cup Asking \cup Results \cup {"disable", "join", "started"}

(* The phases that are one step.                                           *)
Singles ==
  {"timers", "watch", "STATUS", "VERSION", "tell", "pollSTATUS", "pollVERSION", "miss", "settle",
   "repower", "uid", "disable", "join", "started"} \cup Results

P(p) ==
  CASE p = "nothing" -> <<>>
    [] p = "drain_STATUS" -> <<"drain", "STATUS">>
    [] p = "drain_VERSION" -> <<"drain", "VERSION">>
    [] p = "drain_tell" -> <<"drain", "tell">>
    [] p = "drain_B" -> <<"drain", "B", "timers">>
    [] p = "drain_W" -> <<"drain", "W", "timers">>
    [] p = "B" -> <<"B", "timers">>
    [] p = "W" -> <<"W", "timers">>
    [] p = "check" -> <<"drain", "VERSION", "miss">>
    [] p = "checking" -> <<"VERSION", "miss">>
    [] p = "cycle" -> <<"disable", "open", "settle">>
    [] p = "cycling" -> <<"join", "open", "settle">>
    [] p = "open" -> <<"open", "settle">>
    [] p = "open_uid" -> <<"open", "settle", "uid">>
    [] p = "settle_uid" -> <<"settle", "uid">>
    [] OTHER -> <<p>>

First(p) ==
  CASE p \in {"drain_STATUS", "drain_VERSION", "drain_tell", "drain_B", "drain_W", "check"}
         -> "drain"
    [] p = "checking" -> "VERSION"
    [] p = "cycle" -> "disable"
    [] p = "cycling" -> "join"
    [] p = "open_uid" -> "open"
    [] p = "settle_uid" -> "settle"
    [] OTHER -> p

Rest(p) ==
  CASE p = "drain_STATUS" -> "STATUS"
    [] p = "drain_VERSION" -> "VERSION"
    [] p = "drain_tell" -> "tell"
    [] p = "drain_B" -> "B"
    [] p = "drain_W" -> "W"
    [] p \in {"B", "W"} -> "timers"
    [] p = "check" -> "checking"
    [] p = "checking" -> "miss"
    [] p \in Cycling -> "open"
    [] p = "open" -> "settle"
    [] p = "open_uid" -> "settle_uid"
    [] p = "settle_uid" -> "uid"
    [] OTHER -> "nothing"

(* The ends of what main's loop does at boot and for a timer, and of what  *)
(* a click does.                                                           *)
Ends == {"arm", "loop", "unlock", "wifi", "bind", "wait"}
K(k) ==
  CASE k = "arm" -> <<"arm">>
    [] k = "wifi" -> <<"awaitP", "unlock">>
    [] k = "bind" -> <<"awaitP", "started", "unlock">>
    [] k = "wait" -> <<"unlock", "listen", "awaitO", "retake", "unlock">>
    [] OTHER -> <<"unlock">>

Program(p, k) == P(p) \o K(k)

(* The wait for a bind, without lvgl_mutex.                                *)
Late(l) ==
  CASE l = "listen" -> <<"listen", "awaitO", "retake", "unlock">>
    [] l = "awaitO" -> <<"awaitO", "retake", "unlock">>
    [] OTHER -> <<"retake", l, "unlock">>

ReaderPrograms ==
  {<<>>, <<"init", "loop">>, <<"loop">>, <<"drain", "tell", "loop">>, <<"tell", "loop">>,
   <<"lock", "unlock", "loop">>, <<"unlock", "loop">>}
-----------------------------------------------------------------------------
(* Nothing is under way: the backpack has power as its switch says, or     *)
(* will get it by the timer of a cancelled bind.                           *)
Rested ==
  /\ fd <=> power
  /\ repower => ~power
  /\ IF enable THEN power \/ repower ELSE ~power

(* The same when a phase is ahead.                                         *)
Powered(p) ==
  /\ p \in Opening =>
       /\ enable /\ ~repower /\ ~power /\ line = <<>>
       /\ fd <=> p \in {"settle", "settle_uid"}
  /\ p \in Cycling => enable /\ ~repower
  /\ p \in {"disable", "join"} => (enable => repower)
  /\ p \in {"cycle", "disable"} => (fd <=> power)
  /\ p \in {"cycling", "join"} => fd /\ ~power
  /\ p \notin Opening \cup Cycling \cup {"disable", "join"} => Rested
  /\ p = "repower" => repower
  /\ p \in Watching => enable /\ ~repower
  /\ p = "pollSTATUS" => polls["STATUS"] > 0
  /\ p = "pollVERSION" => polls["VERSION"] > 0

(* A bind under way that the backpack has acknowledged or may yet: nobody  *)
(* has cut the power since, and nobody will.                               *)
Pairing == busy = "bind" /\ ~repower /\ enable /\ (slot = "O" => bound)

(* No request to bind gets through.                                        *)
NoStart ==
  /\ slot # "P"
  /\ \A i \in 1 .. Len(line) : line[i] # "P"
  /\ \A i \in 1 .. Len(asked) : asked[i] \notin Modes

Waits ==
  /\ \E l \in {"listen", "awaitO"} \cup Results :
       todo["input"] = Late(l) /\ (l = "Success" => bound)
  /\ Pairing

Flow(p, k) ==
  /\ k = "arm" => p \in {"open", "settle", "nothing"} /\ enable /\ todo["input"] = <<>>
  /\ k = "loop" => p \in Timed /\ (todo["input"] = <<>> \/ (Waits /\ p \in Calm))
  /\ k = "unlock" => /\ p \in Results \cup {"started"} => Pairing
                     /\ p = "Success" => bound
  /\ k = "wifi" => p \in Timed \cup Asking
  /\ k = "bind" => \/ p \in {"drain_B", "B"} /\ busy = "bind" /\ enable
                   \/ p \in Calm /\ Pairing
                   \/ p \in Timed /\ NoStart
  /\ k = "wait" => p \in Calm /\ Pairing

Workers == {"main", "input"}
Doing(t, p, k) ==
  /\ booted /\ todo[t] = Program(p, k)
  /\ t = "main" => k \in {"arm", "loop"}
  /\ t = "input" => k \notin {"arm", "loop"} /\ todo["main"] = <<>>
  /\ IF k = "arm" THEN lvgl \notin Workers ELSE lvgl = t
  /\ Powered(p) /\ Flow(p, k)

Resting ==
  /\ lvgl \notin Workers /\ todo["main"] = <<>>
  /\ IF booted THEN Rested /\ (todo["input"] = <<>> \/ Waits)
     ELSE /\ ~fd /\ ~power /\ ~repower /\ ~armed /\ polls["STATUS"] = 0 /\ polls["VERSION"] = 0
          /\ todo["input"] = <<>>

Control == Resting \/ \E t \in Workers, p \in Phases, k \in Ends : Doing(t, p, k)

Reading ==
  /\ \A r \in Readers : /\ todo[r] \in ReaderPrograms
                        /\ todo[r] = <<"unlock", "loop">> <=> lvgl = r
                        /\ todo[r] # <<>> => fd /\ tid = r
  /\ todo["ht"] \in {<<>>, <<"drain", "tell">>, <<"tell">>} /\ lvgl # "ht"

Chip ==
  /\ ~fd => line = <<>>
  /\ fd => tid \in Readers
  /\ ~power => asked = <<>>
  /\ power => \A i \in 1 .. Len(line) : line[i] = "O" => bound
  /\ repower => busy # "no"

BackpackInv == TypeOK /\ Control /\ Reading /\ Chip
-----------------------------------------------------------------------------
(* Programs as sequences.                                                  *)
LEMMA Polls ==
  /\ DOMAIN poll = {"STATUS", "VERSION"}
  /\ poll["STATUS"] = "pollSTATUS" /\ poll["VERSION"] = "pollVERSION"
BY DEF poll

LEMMA Put ==
  ASSUME NEW a \in Seq(Steps), NEW b \in Seq(Steps)
  PROVE  /\ a \o b \in Seq(Steps) /\ Len(a \o b) = Len(a) + Len(b)
         /\ Len(a) \in Nat /\ Len(b) \in Nat
         /\ \A i \in 1 .. Len(a) : (a \o b)[i] = a[i]
         /\ \A i \in 1 .. Len(b) : (a \o b)[Len(a) + i] = b[i]
BY ConcatProperties, LenProperties

Cons(x, s) == <<x>> \o s

LEMMA Prefixed ==
  ASSUME NEW x \in Steps, NEW s \in Seq(Steps)
  PROVE  /\ Cons(x, s) \in Seq(Steps) /\ Cons(x, s) # <<>>
         /\ Head(Cons(x, s)) = x /\ Tail(Cons(x, s)) = s
<1> DEFINE a == <<x>>
           b == a \o s
<1>1. a \in Seq(Steps) /\ Len(a) = 1 /\ a[1] = x
  OBVIOUS
<1> HIDE DEF a
<1>2. /\ b \in Seq(Steps) /\ Len(b) = 1 + Len(s) /\ Len(s) \in Nat
      /\ b[1] = x /\ \A i \in 1 .. Len(s) : b[1 + i] = s[i]
  <2>1. /\ b \in Seq(Steps) /\ Len(b) = Len(a) + Len(s) /\ Len(s) \in Nat
        /\ \A i \in 1 .. Len(a) : b[i] = a[i]
        /\ \A i \in 1 .. Len(s) : b[Len(a) + i] = s[i]
    BY <1>1, Put
  <2> QED
    BY <1>1, <2>1
<1> HIDE DEF b
<1>3. b # <<>> /\ b[1] = x
  <2>1. Len(b) # 0
    BY <1>2
  <2> QED
    BY <1>2, <2>1, EmptySeq
<1>4. Head(b) = x
  BY <1>2, <1>3
<1>5. Tail(b) \in Seq(Steps) /\ Len(Tail(b)) = Len(s)
      /\ \A i \in 1 .. Len(Tail(b)) : Tail(b)[i] = b[i + 1]
  BY <1>2, <1>3, HeadTailProperties
<1>6. \A i \in 1 .. Len(Tail(b)) : Tail(b)[i] = s[i]
  <2> SUFFICES ASSUME NEW i \in 1 .. Len(Tail(b))
               PROVE  Tail(b)[i] = s[i]
    OBVIOUS
  <2>1. i \in 1 .. Len(s) /\ i + 1 = 1 + i
    BY <1>2, <1>5
  <2> QED
    BY <1>2, <1>5, <2>1
<1>7. Tail(b) = s
  BY <1>5, <1>6, SeqEqual
<1> QED
  BY <1>2, <1>3, <1>4, <1>7 DEF a, b, Cons

LEMMA One ==
  ASSUME NEW x \in Steps
  PROVE  /\ <<x>> \in Seq(Steps) /\ <<>> \in Seq(Steps) /\ <<x>> # <<>>
         /\ <<x>> = Cons(x, <<>>) /\ Head(<<x>>) = x /\ Tail(<<x>>) = <<>>
<1>1. <<x>> \in Seq(Steps) /\ <<>> \in Seq(Steps) /\ <<x>> # <<>>
  OBVIOUS
<1>2. <<x>> = Cons(x, <<>>)
  BY ConcatEmptySeq DEF Cons
<1> QED
  BY <1>1, <1>2, Prefixed

LEMMA Two ==
  ASSUME NEW x \in Steps, NEW y \in Steps
  PROVE  /\ <<x, y>> \in Seq(Steps) /\ <<y>> \in Seq(Steps) /\ <<x, y>> # <<>>
         /\ <<x, y>> = Cons(x, <<y>>) /\ Head(<<x, y>>) = x /\ Tail(<<x, y>>) = <<y>>
<1>1. <<x, y>> \in Seq(Steps) /\ <<y>> \in Seq(Steps) /\ <<x, y>> # <<>>
  BY One
<1>2. <<x, y>> = Cons(x, <<y>>)
  <2> DEFINE a == <<x>>
             b == <<y>>
             w == <<x, y>>
             c == a \o b
  <2>1. /\ a \in Seq(Steps) /\ b \in Seq(Steps) /\ Len(a) = 1 /\ Len(b) = 1
        /\ w \in Seq(Steps) /\ Len(w) = 2 /\ w[1] = a[1] /\ w[2] = b[1]
    OBVIOUS
  <2>2. c = Cons(x, b)
    BY DEF Cons
  <2> HIDE DEF a, b, w
  <2>3. c \in Seq(Steps) /\ Len(c) = 2 /\ c[1] = a[1] /\ c[2] = b[1]
    <3>1. /\ c \in Seq(Steps) /\ Len(c) = Len(a) + Len(b)
          /\ \A i \in 1 .. Len(a) : c[i] = a[i]
          /\ \A i \in 1 .. Len(b) : c[Len(a) + i] = b[i]
      BY <2>1, Put
    <3> HIDE DEF c
    <3>2. c[Len(a) + 1] = b[1]
      BY <2>1, <3>1
    <3> QED
      BY <2>1, <3>1, <3>2
  <2> HIDE DEF c
  <2>4. \A i \in 1 .. 2 : w[i] = c[i]
    BY <2>1, <2>3
  <2>5. w = c
    BY <2>1, <2>3, <2>4, SeqEqual
  <2> QED
    BY <2>2, <2>5 DEF b, w
<1> QED
  BY <1>1, <1>2, Prefixed

LEMMA Three ==
  ASSUME NEW x \in Steps, NEW y \in Steps, NEW z \in Steps
  PROVE  /\ <<x, y, z>> \in Seq(Steps) /\ <<y, z>> \in Seq(Steps) /\ <<x, y, z>> # <<>>
         /\ <<x, y, z>> = Cons(x, <<y, z>>) /\ Head(<<x, y, z>>) = x /\ Tail(<<x, y, z>>) = <<y, z>>
<1>1. <<x, y, z>> \in Seq(Steps) /\ <<y, z>> \in Seq(Steps) /\ <<x, y, z>> # <<>>
  OBVIOUS
<1>2. <<x, y, z>> = Cons(x, <<y, z>>)
  BY DEF Cons
<1> QED
  BY <1>1, <1>2, Prefixed

LEMMA Four ==
  ASSUME NEW x \in Steps, NEW y \in Steps, NEW z \in Steps, NEW u \in Steps
  PROVE  /\ <<x, y, z, u>> \in Seq(Steps) /\ <<y, z, u>> \in Seq(Steps) /\ <<x, y, z, u>> # <<>>
         /\ <<x, y, z, u>> = Cons(x, <<y, z, u>>)
         /\ Head(<<x, y, z, u>>) = x /\ Tail(<<x, y, z, u>>) = <<y, z, u>>
<1>1. <<x, y, z, u>> \in Seq(Steps) /\ <<y, z, u>> \in Seq(Steps) /\ <<x, y, z, u>> # <<>>
  OBVIOUS
<1>2. <<x, y, z, u>> = Cons(x, <<y, z, u>>)
  BY DEF Cons
<1> QED
  BY <1>1, <1>2, Prefixed

LEMMA Five ==
  ASSUME NEW x \in Steps, NEW y \in Steps, NEW z \in Steps, NEW u \in Steps, NEW v \in Steps
  PROVE  /\ <<x, y, z, u, v>> \in Seq(Steps) /\ <<y, z, u, v>> \in Seq(Steps)
         /\ <<x, y, z, u, v>> # <<>>
         /\ <<x, y, z, u, v>> = Cons(x, <<y, z, u, v>>)
         /\ Head(<<x, y, z, u, v>>) = x /\ Tail(<<x, y, z, u, v>>) = <<y, z, u, v>>
<1>1. <<x, y, z, u, v>> \in Seq(Steps) /\ <<y, z, u, v>> \in Seq(Steps) /\ <<x, y, z, u, v>> # <<>>
  OBVIOUS
<1>2. <<x, y, z, u, v>> = Cons(x, <<y, z, u, v>>)
  BY DEF Cons
<1> QED
  BY <1>1, <1>2, Prefixed

LEMMA Joined == \A x, y, z \in Steps : <<x, y, z>> = <<x, y>> \o <<z>>
OBVIOUS

LEMMA StepNames ==
  /\ \A x \in {"STATUS", "VERSION", "B", "W", "Success", "Timeout", "Failed", "Cancelled",
               "drain", "tell", "timers", "pollSTATUS", "pollVERSION", "repower", "watch",
               "miss", "arm", "disable", "join", "open", "settle", "init", "loop", "lock",
               "unlock", "listen", "awaitP", "started", "binding", "awaitO", "retake", "uid"}
       : x \in Steps
  /\ "idle" \notin Steps
BY DEF Steps, Requests, Modes, Results

LEMMA Spelling ==
  /\ P("nothing") = <<>>
  /\ \A p \in Singles : P(p) = <<p>> /\ First(p) = p /\ Rest(p) = "nothing"
  /\ P("drain_STATUS") = <<"drain", "STATUS">>
  /\ P("drain_VERSION") = <<"drain", "VERSION">>
  /\ P("drain_tell") = <<"drain", "tell">>
  /\ P("drain_B") = <<"drain", "B", "timers">>
  /\ P("drain_W") = <<"drain", "W", "timers">>
  /\ P("B") = <<"B", "timers">>
  /\ P("W") = <<"W", "timers">>
  /\ P("check") = <<"drain", "VERSION", "miss">>
  /\ P("checking") = <<"VERSION", "miss">>
  /\ P("cycle") = <<"disable", "open", "settle">>
  /\ P("cycling") = <<"join", "open", "settle">>
  /\ P("open") = <<"open", "settle">>
  /\ P("open_uid") = <<"open", "settle", "uid">>
  /\ P("settle_uid") = <<"settle", "uid">>
  /\ First("drain_STATUS") = "drain" /\ Rest("drain_STATUS") = "STATUS"
  /\ First("drain_VERSION") = "drain" /\ Rest("drain_VERSION") = "VERSION"
  /\ First("drain_tell") = "drain" /\ Rest("drain_tell") = "tell"
  /\ First("drain_B") = "drain" /\ Rest("drain_B") = "B"
  /\ First("drain_W") = "drain" /\ Rest("drain_W") = "W"
  /\ First("B") = "B" /\ Rest("B") = "timers"
  /\ First("W") = "W" /\ Rest("W") = "timers"
  /\ First("check") = "drain" /\ Rest("check") = "checking"
  /\ First("checking") = "VERSION" /\ Rest("checking") = "miss"
  /\ First("cycle") = "disable" /\ Rest("cycle") = "open"
  /\ First("cycling") = "join" /\ Rest("cycling") = "open"
  /\ First("open") = "open" /\ Rest("open") = "settle"
  /\ First("open_uid") = "open" /\ Rest("open_uid") = "settle_uid"
  /\ First("settle_uid") = "settle" /\ Rest("settle_uid") = "uid"
BY DEF P, First, Rest, Singles, Results, Cycling

LEMMA Unfold ==
  ASSUME NEW p \in Phases
  PROVE  /\ P(p) \in Seq(Steps)
         /\ p = "nothing" => P(p) = <<>>
         /\ p # "nothing" =>
              /\ First(p) \in Steps /\ Rest(p) \in Phases
              /\ P(Rest(p)) \in Seq(Steps) /\ P(p) = Cons(First(p), P(Rest(p)))
<1>1. <<>> \in Seq(Steps)
  BY EmptySeq
<1>2. CASE p = "nothing"
  BY <1>1, <1>2, Spelling
<1>3. CASE p \in Singles
  <2>1. p \in Steps /\ P(p) = <<p>> /\ First(p) = p /\ Rest(p) = "nothing" /\ p # "nothing"
    BY <1>3, StepNames, Spelling DEF Singles, Results
  <2>2. P("nothing") = <<>> /\ "nothing" \in Phases
    BY Spelling DEF Phases, Timed, Calm
  <2>3. <<p>> \in Seq(Steps) /\ <<p>> = Cons(p, <<>>)
    BY <2>1, One
  <2> QED
    BY <1>1, <2>1, <2>2, <2>3
<1>4. CASE p \in {"drain_STATUS", "drain_VERSION", "drain_tell", "B", "W", "checking", "open",
                  "settle_uid"}
  <2>1. /\ First(p) \in Steps /\ First(Rest(p)) \in Steps /\ p # "nothing" /\ Rest(p) \in Phases
        /\ P(p) = <<First(p), First(Rest(p))>> /\ P(Rest(p)) = <<First(Rest(p))>>
    BY <1>4, Spelling, StepNames DEF Singles, Phases, Timed, Calm, Watching, Opening
  <2> QED
    BY <2>1, Two
<1>5. CASE p \in {"drain_B", "drain_W", "check", "cycle", "cycling", "open_uid"}
  <2>1. /\ First(p) \in Steps /\ First(Rest(p)) \in Steps /\ First(Rest(Rest(p))) \in Steps
        /\ p # "nothing" /\ Rest(p) \in Phases
        /\ P(p) = <<First(p), First(Rest(p)), First(Rest(Rest(p)))>>
        /\ P(Rest(p)) = <<First(Rest(p)), First(Rest(Rest(p)))>>
    BY <1>5, Spelling, StepNames DEF Singles, Phases, Timed, Asking, Watching, Opening
  <2> QED
    BY <2>1, Three
<1> QED
  BY <1>2, <1>3, <1>4, <1>5
  DEF Phases, Timed, Calm, Watching, Opening, Cycling, Asking, Singles

LEMMA Endings ==
  ASSUME NEW k \in Ends
  PROVE  /\ K(k) \in Seq(Steps) /\ K(k) # <<>>
         /\ Head(K(k)) = IF k = "arm" THEN "arm" ELSE IF k \in {"wifi", "bind"} THEN "awaitP"
                         ELSE "unlock"
         /\ k \in {"arm", "loop", "unlock"} => Tail(K(k)) = <<>>
         /\ k = "wifi" => Tail(K(k)) = K("unlock")
         /\ k = "bind" => Tail(K(k)) = Program("started", "unlock")
         /\ k = "wait" => Tail(K(k)) = Late("listen")
<1>1. CASE k \in {"arm", "loop", "unlock"}
  <2>1. PICK x \in Steps : x = IF k = "arm" THEN "arm" ELSE "unlock"
    BY StepNames
  <2>2. K(k) = <<x>>
    BY <1>1, <2>1 DEF K
  <2> QED
    BY <1>1, <2>1, <2>2, One
<1>2. CASE k = "wifi"
  <2>1. PICK x \in Steps, y \in Steps : x = "awaitP" /\ y = "unlock"
    BY StepNames
  <2>2. K(k) = <<x, y>> /\ K("unlock") = <<y>>
    BY <1>2, <2>1 DEF K
  <2>3. K(k) \in Seq(Steps) /\ K(k) # <<>> /\ Head(K(k)) = x /\ Tail(K(k)) = K("unlock")
    BY <2>2, Two
  <2> QED
    BY <1>2, <2>1, <2>3
<1>3. CASE k = "bind"
  <2>1. PICK x \in Steps, y \in Steps, z \in Steps : x = "awaitP" /\ y = "started" /\ z = "unlock"
    BY StepNames
  <2>2. K(k) = <<x, y, z>> /\ K("unlock") = <<z>> /\ P("started") = <<y>>
    BY <1>3, <2>1, Spelling DEF K, Singles
  <2>3. Program("started", "unlock") = <<y, z>>
    BY <2>2, Two DEF Program, Cons
  <2>4. /\ K(k) \in Seq(Steps) /\ K(k) # <<>> /\ Head(K(k)) = x
        /\ Tail(K(k)) = Program("started", "unlock")
    BY <2>2, <2>3, Three
  <2> QED
    BY <1>3, <2>1, <2>4
<1>4. CASE k = "wait"
  <2>1. PICK x \in Steps, y \in Steps, z \in Steps, u \in Steps, v \in Steps :
          x = "unlock" /\ y = "listen" /\ z = "awaitO" /\ u = "retake" /\ v = "unlock"
    BY StepNames
  <2>2. K(k) = <<x, y, z, u, v>> /\ Late("listen") = <<y, z, u, v>>
    BY <1>4, <2>1 DEF K, Late
  <2>3. K(k) \in Seq(Steps) /\ K(k) # <<>> /\ Head(K(k)) = x /\ Tail(K(k)) = Late("listen")
    BY <2>2, Five
  <2> QED
    BY <1>4, <2>1, <2>3
<1> QED
  BY <1>1, <1>2, <1>3, <1>4 DEF Ends

LEMMA Lateness ==
  ASSUME NEW l \in {"listen", "awaitO"} \cup Results
  PROVE  /\ Late(l) \in Seq(Steps) /\ Late(l) # <<>>
         /\ Head(Late(l)) = IF l \in {"listen", "awaitO"} THEN l ELSE "retake"
         /\ l = "listen" => Tail(Late(l)) = Late("awaitO")
         /\ l \in Results => Tail(Late(l)) = Program(l, "unlock")
<1>1. CASE l = "listen"
  <2>1. PICK x \in Steps, y \in Steps, z \in Steps, u \in Steps :
          x = "listen" /\ y = "awaitO" /\ z = "retake" /\ u = "unlock"
    BY StepNames
  <2>2. Late(l) = <<x, y, z, u>> /\ Late("awaitO") = <<y, z, u>> /\ l \notin Results
    BY <1>1, <2>1 DEF Late, Results
  <2>3. /\ Late(l) \in Seq(Steps) /\ Late(l) # <<>> /\ Head(Late(l)) = x
        /\ Tail(Late(l)) = Late("awaitO")
    BY <2>2, Four
  <2> QED
    BY <1>1, <2>1, <2>2, <2>3
<1>2. CASE l = "awaitO"
  <2>1. PICK x \in Steps, y \in Steps, z \in Steps : x = "awaitO" /\ y = "retake" /\ z = "unlock"
    BY StepNames
  <2>2. Late(l) = <<x, y, z>> /\ l \notin Results
    BY <1>2, <2>1 DEF Late, Results
  <2>3. Late(l) \in Seq(Steps) /\ Late(l) # <<>> /\ Head(Late(l)) = x
    BY <2>2, Three
  <2> QED
    BY <1>2, <2>1, <2>2, <2>3
<1>3. CASE l \in Results
  <2>1. PICK x \in Steps, y \in Steps, z \in Steps : x = "retake" /\ y = l /\ z = "unlock"
    BY <1>3, StepNames DEF Results
  <2>2. Late(l) = <<x, y, z>> /\ l \notin {"listen", "awaitO"} /\ P(l) = <<y>>
        /\ K("unlock") = <<z>>
    BY <1>3, <2>1, Spelling DEF Late, Results, K, Singles
  <2>3. Program(l, "unlock") = <<y, z>>
    BY <2>2, Two DEF Program, Cons
  <2> QED
    BY <1>3, <2>1, <2>2, <2>3, Three
<1> QED
  BY <1>1, <1>2, <1>3

(* Where a program of a worker stands.                                     *)
LEMMA Facing ==
  ASSUME NEW p \in Phases, NEW k \in Ends
  PROVE  /\ Program(p, k) \in Seq(Steps) /\ Program(p, k) # <<>>
         /\ Head(Program(p, k)) = IF p = "nothing" THEN Head(K(k)) ELSE First(p)
         /\ p = "nothing" => Program(p, k) = K(k)
         /\ p # "nothing" =>
              /\ Program(p, k) = Cons(First(p), Program(Rest(p), k))
              /\ Tail(Program(p, k)) = Program(Rest(p), k)
<1>1. P(p) \in Seq(Steps) /\ K(k) \in Seq(Steps) /\ K(k) # <<>>
  BY Unfold, Endings
<1>2. CASE p = "nothing"
  <2>1. P(p) = <<>>
    BY <1>2, Unfold
  <2>2. Program(p, k) = K(k)
    BY <1>1, <2>1, ConcatEmptySeq DEF Program
  <2> QED
    BY <1>1, <1>2, <2>2
<1>3. CASE p # "nothing"
  <2> DEFINE x == First(p)
             a == <<x>>
             b == P(Rest(p))
             c == K(k)
             d == b \o c
  <2>1. x \in Steps /\ b \in Seq(Steps) /\ c \in Seq(Steps) /\ P(p) = Cons(x, b)
    BY <1>1, <1>3, Unfold
  <2>2. d = Program(Rest(p), k)
    BY DEF Program
  <2>3. Program(p, k) = (a \o b) \o c
    BY <2>1 DEF Program, Cons
  <2>4. Cons(x, d) = a \o (b \o c)
    BY DEF Cons
  <2> HIDE DEF b, c, x
  <2>5. a \in Seq(Steps)
    BY <2>1
  <2> HIDE DEF a
  <2>6. (a \o b) \o c = a \o (b \o c)
    BY <2>1, <2>5, ConcatAssociative
  <2>7. d \in Seq(Steps)
    BY <2>1, Put
  <2> HIDE DEF d
  <2>8. Program(p, k) = Cons(x, d)
    BY <2>3, <2>4, <2>6
  <2> QED
    BY <1>3, <2>1, <2>2, <2>7, <2>8, Prefixed DEF x
<1> QED
  BY <1>2, <1>3
-----------------------------------------------------------------------------
(* What a worker's program becomes.                                        *)
Moved(t, q, k) == todo'[t] = Program(q, k) /\ \A u \in Workers \ {t} : todo'[u] = todo[u]

LEMMA Goes ==
  ASSUME TypeOK, NEW t \in Workers, NEW p \in Phases \ {"nothing"}, NEW k \in Ends,
         todo[t] = Program(p, k)
  PROVE  /\ doing(t) = First(p)
         /\ Done(t) => Moved(t, Rest(p), k)
         /\ \A q \in Phases : Rest(p) = "nothing" /\ Then(t, P(q)) => Moved(t, q, k)
         /\ \A q \in Phases \ {"nothing"} :
              Rest(q) = Rest(p) /\ Then(t, <<First(q)>>) => Moved(t, q, k)
<1>1. /\ todo[t] # <<>> /\ Head(todo[t]) = First(p) /\ Tail(todo[t]) = Program(Rest(p), k)
      /\ Rest(p) \in Phases /\ Program(Rest(p), k) \in Seq(Steps)
  BY Facing, Unfold
<1>2. doing(t) = First(p)
  BY <1>1 DEF doing
<1>3. Workers \subseteq Threads
  BY DEF Workers, Threads
<1>4. Done(t) => Moved(t, Rest(p), k)
  <2>1. <<>> \o Tail(todo[t]) = Program(Rest(p), k)
    BY <1>1, ConcatEmptySeq
  <2> QED
    BY <1>3, <2>1 DEF Done, Then, TypeOK, Moved
<1>5. ASSUME NEW q \in Phases, Rest(p) = "nothing", Then(t, P(q))
      PROVE  Moved(t, q, k)
  <2>1. Tail(todo[t]) = K(k)
    BY <1>1, <1>5, Facing
  <2>2. P(q) \o Tail(todo[t]) = Program(q, k)
    BY <2>1 DEF Program
  <2> QED
    BY <1>3, <1>5, <2>2 DEF Then, TypeOK, Moved
<1>6. ASSUME NEW q \in Phases \ {"nothing"}, Rest(q) = Rest(p), Then(t, <<First(q)>>)
      PROVE  Moved(t, q, k)
  <2>1. Program(q, k) = Cons(First(q), Program(Rest(q), k))
    BY <1>6, Facing
  <2>2. <<First(q)>> \o Tail(todo[t]) = Program(q, k)
    BY <1>1, <1>6, <2>1 DEF Cons
  <2> QED
    BY <1>3, <1>6, <2>2 DEF Then, TypeOK, Moved
<1> QED
  BY <1>2, <1>4, <1>5, <1>6

(* Which phase, or which end, a worker has come to.                        *)
LEMMA Heads ==
  ASSUME TypeOK, NEW t \in Workers, NEW p \in Phases, NEW k \in Ends, Doing(t, p, k)
  PROVE  /\ t \in Threads /\ todo[t] = Program(p, k) /\ todo[t] # <<>>
         /\ \A x \in Steps : At(t, x) =>
              x = IF p # "nothing" THEN First(p) ELSE IF k = "arm" THEN "arm"
                  ELSE IF k \in {"wifi", "bind"} THEN "awaitP" ELSE "unlock"
<1>1. t \in Threads /\ todo[t] = Program(p, k)
  BY DEF Workers, Threads, Doing
<1>2. todo[t] # <<>> /\ Head(todo[t]) = IF p = "nothing" THEN Head(K(k)) ELSE First(p)
  BY <1>1, Facing
<1> QED
  BY <1>1, <1>2, Endings DEF At, doing

LEMMA PhaseAt ==
  ASSUME NEW p \in Phases, p # "nothing"
  PROVE  /\ First(p) = "drain" => p \in {"drain_STATUS", "drain_VERSION", "drain_tell", "drain_B",
                                         "drain_W", "check"}
         /\ First(p) = "VERSION" => p \in {"VERSION", "checking"}
         /\ First(p) = "disable" => p \in {"disable", "cycle"}
         /\ First(p) = "join" => p \in {"join", "cycling"}
         /\ First(p) = "open" => p \in {"open", "open_uid"}
         /\ First(p) = "settle" => p \in {"settle", "settle_uid"}
         /\ First(p) \notin {"drain", "VERSION", "disable", "join", "open", "settle"} =>
              p = First(p)
         /\ First(p) \notin {"arm", "awaitP", "awaitO", "unlock", "lock",
                             "retake", "listen", "init", "loop"}
BY DEF First, Phases, Timed, Calm, Watching, Opening, Cycling, Asking, Results

(* A worker that goes on to the phase q, and what it must keep of the flow *)
(* it belongs to.                                                          *)
LEMMA Onward ==
  ASSUME TypeOK, NEW t \in Workers, NEW p \in Phases, NEW k \in Ends, NEW q \in Phases,
         Doing(t, p, k), Moved(t, q, k), UNCHANGED <<lvgl, booted, enable>>,
         Powered(q)',
         p \in Calm /\ Pairing => q \in Calm /\ Pairing' /\ bound' = bound,
         p \in Timed => q \in Timed,
         p \in Asking => q \in Timed \cup Asking,
         NoStart => NoStart',
         k = "bind" /\ p \in {"drain_B", "B"} /\ busy = "bind" =>
           (q = "B" /\ busy' = "bind") \/ (q \in Calm /\ Pairing') \/ (q \in Timed /\ NoStart'),
         k = "arm" => q \in {"open", "settle", "nothing"},
         q \notin Results \cup {"started"}
  PROVE  Control'
<1>1. Flow(p, k) /\ (t = "main" <=> k \in {"arm", "loop"})
  BY DEF Doing, Workers
<1>2. k \in {"arm", "loop"} => todo'["input"] = todo["input"]
  BY <1>1 DEF Moved, Workers
<1>3. CASE k = "arm"
  <2>1. Flow(q, k)'
    BY <1>1, <1>2, <1>3 DEF Flow
  <2>2. Doing(t, q, k)'
    BY <1>1, <2>1 DEF Doing, Moved, Workers
  <2> QED
    BY <2>2 DEF Control
<1>4. CASE k # "arm"
  <2>1. Flow(q, k)'
    <3>1. CASE k = "loop"
      <4>1. p \in Timed /\ q \in Timed /\ todo'["input"] = todo["input"]
        BY <1>1, <1>2, <3>1 DEF Flow
      <4>2. CASE todo["input"] = <<>>
        BY <3>1, <4>1, <4>2 DEF Flow
      <4>3. CASE Waits /\ p \in Calm
        <5>1. q \in Calm /\ Pairing' /\ bound' = bound
          BY <4>3 DEF Waits
        <5>2. Waits'
          BY <4>1, <4>3, <5>1 DEF Waits
        <5> QED
          BY <3>1, <4>1, <5>1, <5>2 DEF Flow
      <4> QED
        BY <1>1, <3>1, <4>2, <4>3 DEF Flow
    <3>2. CASE k \in {"unlock", "wifi"}
      BY <1>1, <3>2 DEF Flow, Results
    <3>3. CASE k = "bind"
      BY <1>1, <3>3 DEF Flow
    <3>4. CASE k = "wait"
      BY <1>1, <3>4 DEF Flow
    <3> QED
      BY <1>4, <3>1, <3>2, <3>3, <3>4 DEF Ends
  <2>2. Doing(t, q, k)'
    BY <1>1, <1>4, <2>1 DEF Doing, Moved, Workers
  <2> QED
    BY <2>2 DEF Control
<1> QED
  BY <1>3, <1>4

LEMMA DrainControl ==
  ASSUME BackpackInv, NEW t \in Workers, NEW p \in Phases, NEW k \in Ends, Doing(t, p, k), Drain(t)
  PROVE  Control'
<1>1. TypeOK /\ todo[t] = Program(p, k)
  BY Heads DEF BackpackInv
<1>2. p \in {"drain_STATUS", "drain_VERSION", "drain_tell", "drain_B", "drain_W", "check"}
  BY <1>1, Heads, PhaseAt, StepNames DEF Drain
<1>3. Moved(t, Rest(p), k) /\ Rest(p) \in Phases
  BY <1>1, <1>2, Goes, Unfold DEF Drain
<1>4. UNCHANGED <<lvgl, enable, booted, fd, slot, busy, polls, repower, power, asked, line, bound>>
  BY DEF Drain, locks, esp32, chip
<1>5. Powered(Rest(p))'
  BY <1>2, <1>4, Spelling
  DEF Doing, Powered, Rested, Opening, Cycling, Watching
<1>6. /\ p \in Calm => Rest(p) \in Calm
      /\ p \in Timed => Rest(p) \in Timed
      /\ p \in Asking => Rest(p) \in Asking
      /\ p = "drain_B" => Rest(p) = "B"
      /\ Rest(p) \notin Results \cup {"started"}
  BY <1>2, Spelling DEF Calm, Timed, Watching, Asking, Results, Opening, Cycling
<1>7. (Pairing => Pairing') /\ (NoStart => NoStart') /\ k # "arm"
  BY <1>2, <1>4 DEF Pairing, NoStart, Doing, Flow
<1> QED
  BY <1>1, <1>2, <1>3, <1>4, <1>5, <1>6, <1>7, Onward

LEMMA AskControl ==
  ASSUME BackpackInv, NEW t \in Workers, NEW p \in Phases, NEW k \in Ends, Doing(t, p, k), Ask(t)
  PROVE  Control'
<1>1. TypeOK /\ todo[t] = Program(p, k) /\ asked \in Seq(Requests)
  BY Heads DEF BackpackInv, TypeOK
<1>2. PICK x \in Requests :
        At(t, x) /\ asked' = IF power /\ Len(asked) < MaxLine THEN Append(asked, x) ELSE asked
  BY DEF Ask
<1>3. x = First(p) /\ p \in {"STATUS", "VERSION", "checking", "B", "W"}
  BY <1>1, <1>2, Heads, PhaseAt, StepNames DEF Requests, Modes
<1>4. Moved(t, Rest(p), k) /\ Rest(p) \in Phases
  BY <1>1, <1>3, Goes, Unfold DEF Ask
<1>5. UNCHANGED <<lvgl, enable, booted, fd, busy, polls, repower, power, line, bound>>
      /\ slot' = "none"
  BY DEF Ask, locks, esp32
<1>6. Powered(Rest(p))'
  BY <1>3, <1>5, Spelling DEF Doing, Powered, Rested, Opening, Cycling, Watching, Singles
<1>7. /\ p \in Calm => Rest(p) \in Calm
      /\ p \in Timed => Rest(p) \in Timed
      /\ p \in Asking => Rest(p) = "timers"
      /\ "timers" \in Calm /\ "timers" \in Timed
      /\ Rest(p) \notin Results \cup {"started"}
  BY <1>3, Spelling DEF Calm, Timed, Watching, Asking, Results, Opening, Cycling, Singles
<1>8. (Pairing => Pairing') /\ k # "arm"
  BY <1>3, <1>5 DEF Pairing, Doing, Flow
<1>9. ASSUME NoStart, x \notin Modes
      PROVE  NoStart'
  <2>1. CASE asked' = asked
    BY <1>5, <1>9, <2>1 DEF NoStart
  <2>2. CASE asked' = Append(asked, x)
    <3>1. /\ Len(asked) \in Nat /\ Len(asked') = Len(asked) + 1 /\ asked'[Len(asked) + 1] = x
          /\ \A i \in 1 .. Len(asked) : asked'[i] = asked[i]
      BY <1>1, <2>2, AppendProperties, LenProperties
    <3>2. \A i \in 1 .. Len(asked') : asked'[i] \notin Modes
      BY <1>9, <3>1 DEF NoStart
    <3> QED
      BY <1>5, <1>9, <3>2 DEF NoStart
  <2> QED
    BY <1>2, <2>1, <2>2
<1>10. CASE p \notin {"B", "W"}
  <2>1. x \notin Modes /\ p \notin Asking
    BY <1>3, <1>10, Spelling DEF Modes, Asking, Singles
  <2> QED
    BY <1>1, <1>3, <1>4, <1>5, <1>6, <1>7, <1>8, <1>9, <1>10, <2>1, Onward
<1>11. CASE p \in {"B", "W"}
  <2>1. Rested /\ p \in Asking /\ Rest(p) = "timers" /\ p \notin Calm \cup Timed
    BY <1>11, Spelling
    DEF Doing, Powered, Asking, Opening, Cycling, Calm, Timed, Watching
  <2>2. /\ k = "bind" => enable /\ busy = "bind"
        /\ k \notin {"loop", "wait"}
    BY <1>11, <2>1 DEF Doing, Flow
  <2>3. k = "bind" => Pairing' \/ NoStart'
    <3>1. CASE ~repower
      BY <1>5, <2>2, <3>1 DEF Pairing
    <3>2. CASE repower
      <4>1. asked' = <<>> /\ line = <<>>
        BY <1>2, <2>1, <3>2 DEF Rested, BackpackInv, Chip
      <4> QED
        BY <1>5, <4>1 DEF NoStart
    <3> QED
      BY <3>1, <3>2
  <2>4. Doing(t, "timers", k)'
    <3>1. Flow("timers", k)'
      BY <1>5, <1>7, <1>8, <2>2, <2>3 DEF Flow, Results
    <3> QED
      BY <1>4, <1>5, <1>6, <1>8, <2>1, <3>1 DEF Doing, Moved, Workers
  <2> QED
    BY <1>4, <2>1, <2>4 DEF Control
<1> QED
  BY <1>10, <1>11

LEMMA TellControl ==
  ASSUME BackpackInv, NEW t \in Workers, NEW p \in Phases, NEW k \in Ends, Doing(t, p, k), Tell(t)
  PROVE  Control'
<1>1. TypeOK /\ todo[t] = Program(p, k)
  BY Heads DEF BackpackInv
<1>2. p = "tell"
  BY <1>1, Heads, PhaseAt, StepNames DEF Tell
<1>3. Moved(t, "nothing", k) /\ "nothing" \in Phases
  BY <1>1, <1>2, Goes, Unfold, Spelling DEF Tell, Singles
<1>4. UNCHANGED <<lvgl, enable, booted, fd, busy, polls, repower, power, asked, line, bound>>
      /\ slot' = "none"
  BY DEF Tell, locks, esp32, chip
<1>5. Powered("nothing")'
  BY <1>2, <1>4 DEF Doing, Powered, Rested, Opening, Cycling, Watching
<1>6. "nothing" \in Calm /\ "nothing" \in Timed /\ "nothing" \notin Results /\ p \notin Asking
  BY <1>2 DEF Calm, Timed, Results, Asking
<1>7. (Pairing => Pairing') /\ (NoStart => NoStart') /\ k # "arm"
  BY <1>2, <1>4 DEF Pairing, NoStart, Doing, Flow
<1> QED
  BY <1>1, <1>2, <1>3, <1>4, <1>5, <1>6, <1>7, Onward

LEMMA OpenControl ==
  ASSUME BackpackInv, NEW t \in Workers, NEW p \in Phases, NEW k \in Ends, Doing(t, p, k),
         OpenUart(t)
  PROVE  Control'
<1>1. TypeOK /\ todo[t] = Program(p, k) /\ todo[t] \in Seq(Steps) /\ todo[t] # <<>>
  BY Heads, Facing DEF BackpackInv
<1>2. p \in {"open", "open_uid"}
  BY <1>1, Heads, PhaseAt, StepNames DEF OpenUart
<1>3. Moved(t, Rest(p), k) /\ Rest(p) \in Phases
  <2>1. Tail(todo[t]) = Program(Rest(p), k) /\ Rest(p) \in Phases
    BY <1>1, <1>2, Facing, Unfold
  <2>2. PICK r \in Readers :
          todo' = [todo EXCEPT ![t] = Tail(@), ![r] = <<"init", "loop">>]
    BY DEF OpenUart, Readers
  <2>3. Workers \subseteq Threads /\ r \notin Workers
    BY <2>2 DEF Workers, Threads, Readers
  <2> QED
    BY <1>1, <2>1, <2>2, <2>3 DEF Moved, TypeOK
<1>4. /\ UNCHANGED <<lvgl, enable, booted, slot, busy, polls, repower, asked, line, bound>>
      /\ fd' = TRUE /\ power' = FALSE
  BY DEF OpenUart, locks, response
<1>5. Powered(Rest(p))'
  BY <1>2, <1>4, Spelling DEF Doing, Powered, Opening, Cycling, Watching
<1>6. /\ Rest(p) \in Timed \ (Calm \cup Results \cup {"started"}) /\ p \notin Calm \cup Asking
      /\ k = "arm" => Rest(p) = "settle"
  BY <1>2, Spelling DEF Calm, Timed, Asking, Results, Opening, Doing, Flow
<1>7. NoStart => NoStart'
  BY <1>4 DEF NoStart
<1> QED
  BY <1>1, <1>2, <1>3, <1>4, <1>5, <1>6, <1>7, Onward DEF Asking

LEMMA SettleControl ==
  ASSUME BackpackInv, NEW t \in Workers, NEW p \in Phases, NEW k \in Ends, Doing(t, p, k),
         Settle(t)
  PROVE  Control'
<1>1. TypeOK /\ todo[t] = Program(p, k)
  BY Heads DEF BackpackInv
<1>2. p \in {"settle", "settle_uid"}
  BY <1>1, Heads, PhaseAt, StepNames DEF Settle
<1>3. Moved(t, Rest(p), k) /\ Rest(p) \in Phases
  BY <1>1, <1>2, Goes, Unfold DEF Settle
<1>4. /\ UNCHANGED <<lvgl, enable, booted, fd, slot, busy, polls, repower, asked, line, bound>>
      /\ power' = TRUE
  BY DEF Settle, locks, esp32, response
<1>5. Rest(p) \in {"nothing", "uid"} /\ (p = "settle" => Rest(p) = "nothing")
  BY <1>2, Spelling DEF Singles
<1>6. Powered(Rest(p))'
  BY <1>2, <1>4, <1>5 DEF Doing, Powered, Rested, Opening, Cycling, Watching
<1>7. /\ Rest(p) \in Timed /\ Rest(p) \notin Results \cup {"started"} /\ p \notin Calm \cup Asking
      /\ k = "arm" => Rest(p) = "nothing"
  BY <1>2, <1>5 DEF Calm, Timed, Asking, Results, Doing, Flow
<1>8. NoStart => NoStart'
  BY <1>4 DEF NoStart
<1> QED
  BY <1>1, <1>2, <1>3, <1>4, <1>6, <1>7, <1>8, Onward DEF Asking

LEMMA DisableControl ==
  ASSUME BackpackInv, NEW t \in Workers, NEW p \in Phases, NEW k \in Ends, Doing(t, p, k),
         disable_esp32(t)
  PROVE  Control'
<1>1. TypeOK /\ todo[t] = Program(p, k)
  BY Heads DEF BackpackInv
<1>2. p \in {"disable", "cycle"}
  BY <1>1, Heads, PhaseAt, StepNames DEF disable_esp32
<1>3. UNCHANGED <<lvgl, enable, booted, fd, slot, busy, polls, repower, line>>
  BY DEF disable_esp32, locks, response
<1>4. /\ k # "arm" /\ p \notin Calm \cup Asking
      /\ p = "disable" => p \notin Timed
      /\ {"nothing", "open", "cycling"} \subseteq Timed
      /\ {"nothing", "open", "cycling", "join"} \subseteq Phases
      /\ {"nothing", "open", "cycling", "join"} \cap (Results \cup {"started"}) = {}
  BY <1>2 DEF Calm, Asking, Timed, Watching, Opening, Cycling, Results, Doing, Flow, Phases
<1>5. CASE fd
  <2> DEFINE q == IF p = "disable" THEN "join" ELSE "cycling"
  <2>1. q \in Phases \ {"nothing"} /\ First(q) = "join" /\ Rest(q) = Rest(p)
    BY <1>2, <1>4, Spelling DEF Singles
  <2>2. Then(t, <<First(q)>>) /\ power' = FALSE /\ asked' = <<>>
    BY <1>5, <2>1 DEF disable_esp32
  <2>3. Moved(t, q, k)
    BY <1>1, <1>2, <2>1, <2>2, Goes
  <2>4. Powered(q)'
    BY <1>2, <1>3, <1>5, <2>2 DEF Doing, Powered, Opening, Cycling, Watching
  <2>5. NoStart => NoStart'
    BY <1>3, <2>2 DEF NoStart
  <2>6. (p \in Timed => q \in Timed) /\ q \notin Results \cup {"started"}
    BY <1>2, <1>4
  <2> HIDE DEF q
  <2> QED
    BY <1>1, <1>2, <1>3, <1>4, <2>1, <2>3, <2>4, <2>5, <2>6, Onward DEF Asking
<1>6. CASE ~fd
  <2>1. Done(t) /\ UNCHANGED <<power, asked, bound>>
    BY <1>6 DEF disable_esp32
  <2>2. /\ Moved(t, Rest(p), k) /\ Rest(p) \in {"nothing", "open"}
        /\ p = "disable" => Rest(p) = "nothing"
        /\ p = "cycle" => Rest(p) = "open"
    BY <1>1, <1>2, <2>1, Goes, Spelling DEF Singles
  <2>3. line = <<>>
    BY <1>6 DEF BackpackInv, Chip
  <2>4. enable \in BOOLEAN /\ repower \in BOOLEAN /\ power \in BOOLEAN
    BY <1>1 DEF TypeOK
  <2>5. Powered(Rest(p))'
    BY <1>2, <1>3, <1>6, <2>1, <2>2, <2>3, <2>4
    DEF Doing, Powered, Rested, Opening, Cycling, Watching
  <2>6. NoStart => NoStart'
    BY <1>3, <2>1 DEF NoStart
  <2> QED
    BY <1>1, <1>2, <1>3, <1>4, <2>2, <2>5, <2>6, Onward DEF Asking
<1> QED
  BY <1>1, <1>5, <1>6

LEMMA JoinControl ==
  ASSUME BackpackInv, NEW t \in Workers, NEW p \in Phases, NEW k \in Ends, Doing(t, p, k), Join(t)
  PROVE  Control'
<1>1. TypeOK /\ todo[t] = Program(p, k)
  BY Heads DEF BackpackInv
<1>2. p \in {"join", "cycling"}
  BY <1>1, Heads, PhaseAt, StepNames DEF Join
<1>3. /\ Moved(t, Rest(p), k) /\ Rest(p) \in {"nothing", "open"}
      /\ p = "join" => Rest(p) = "nothing"
      /\ p = "cycling" => Rest(p) = "open"
  BY <1>1, <1>2, Goes, Spelling DEF Join, Singles
<1>4. /\ UNCHANGED <<lvgl, enable, booted, slot, busy, polls, repower, power, asked, bound>>
      /\ fd' = FALSE /\ line' = <<>>
  BY DEF Join, locks, response
<1>5. enable \in BOOLEAN /\ repower \in BOOLEAN /\ power \in BOOLEAN
  BY <1>1 DEF TypeOK
<1>6. Powered(Rest(p))'
  <2>1. ~power /\ Powered(p)
    BY <1>2 DEF Doing, Powered
  <2>2. CASE p = "join"
    <3>1. enable => repower
      BY <2>1, <2>2 DEF Powered
    <3>2. Rested'
      BY <1>4, <2>1, <3>1 DEF Rested
    <3> QED
      BY <1>3, <2>2, <3>2 DEF Powered, Opening, Cycling, Watching
  <2>3. CASE p = "cycling"
    BY <1>3, <1>4, <2>1, <2>3 DEF Powered, Opening, Cycling, Watching
  <2> QED
    BY <1>2, <2>2, <2>3
<1>7. /\ k # "arm" /\ p \notin Calm \cup Asking
      /\ {"nothing", "open"} \subseteq Timed /\ {"nothing", "open"} \subseteq Phases
      /\ {"nothing", "open"} \cap (Results \cup {"started"}) = {}
  BY <1>2 DEF Calm, Asking, Timed, Watching, Opening, Cycling, Results, Doing, Flow, Phases
<1>8. NoStart => NoStart'
  BY <1>4 DEF NoStart
<1> QED
  BY <1>1, <1>2, <1>3, <1>4, <1>6, <1>7, <1>8, Onward DEF Asking

LEMMA TimerControl ==
  ASSUME BackpackInv, NEW t \in Workers, NEW p \in Phases, NEW k \in Ends, Doing(t, p, k), Timer(t)
  PROVE  Control'
<1>1. TypeOK /\ todo[t] = Program(p, k)
  BY Heads DEF BackpackInv
<1>2. p = "timers"
  <2>1. At(t, "timers") /\ "timers" \in Steps
    BY StepNames DEF Timer, RunTimer, NoTimer
  <2> QED
    BY <1>1, <2>1, Heads, PhaseAt
<1>3. /\ Rest(p) = "nothing" /\ P("nothing") = <<>>
      /\ \A q \in {"pollSTATUS", "pollVERSION", "repower", "watch"} : P(q) = <<q>>
  BY <1>2, Spelling DEF Singles
<1>4. PICK q \in Phases :
        /\ Then(t, P(q))
        /\ \/ q \in {"nothing", "watch"}
           \/ q = "repower" /\ repower
           \/ q = "pollSTATUS" /\ polls["STATUS"] > 0
           \/ q = "pollVERSION" /\ polls["VERSION"] > 0
  <2>1. {"pollSTATUS", "pollVERSION", "repower", "watch", "nothing"} \subseteq Phases
    BY DEF Phases, Timed, Calm
  <2>2. CASE NoTimer(t)
    BY <1>3, <2>1, <2>2 DEF NoTimer, Done
  <2>3. ASSUME NEW q \in due, RunTimer(t, q)
        PROVE  \/ q = "watch"
               \/ q = "repower" /\ repower
               \/ q = "pollSTATUS" /\ polls["STATUS"] > 0
               \/ q = "pollVERSION" /\ polls["VERSION"] > 0
    BY <2>3, Polls DEF due
  <2> QED
    BY <1>3, <2>1, <2>2, <2>3 DEF Timer, RunTimer
<1>5. Moved(t, q, k)
  BY <1>1, <1>2, <1>3, <1>4, Goes
<1>6. UNCHANGED <<lvgl, enable, booted, fd, slot, busy, polls, repower, power, asked, line, bound>>
  BY DEF Timer, RunTimer, NoTimer, locks, esp32, chip, response
<1>7. Powered(q)'
  BY <1>2, <1>4, <1>6 DEF Doing, Powered, Rested, Opening, Cycling, Watching
<1>8. /\ k # "arm" /\ p \notin Asking /\ q \in Timed /\ q \notin Results \cup {"started"}
      /\ q # "repower" => q \in Calm
      /\ Pairing => q # "repower"
  BY <1>2, <1>4 DEF Asking, Timed, Calm, Results, Doing, Flow, Pairing
<1>9. (Pairing => Pairing') /\ (NoStart => NoStart')
  BY <1>6 DEF Pairing, NoStart
<1> QED
  BY <1>1, <1>2, <1>4, <1>5, <1>6, <1>7, <1>8, <1>9, Onward DEF Asking

LEMMA PollControl ==
  ASSUME BackpackInv, NEW t \in Workers, NEW p \in Phases, NEW k \in Ends, Doing(t, p, k), Poll(t)
  PROVE  Control'
<1>1. TypeOK /\ todo[t] = Program(p, k)
  BY Heads DEF BackpackInv
<1>2. p \in {"pollSTATUS", "pollVERSION"}
  BY <1>1, Heads, PhaseAt, StepNames, Polls DEF Poll
<1>3. Rest(p) = "nothing" /\ P("nothing") = <<>>
      /\ P("drain_STATUS") = send("STATUS") /\ P("drain_VERSION") = send("VERSION")
  BY <1>2, Spelling DEF Singles, send
<1>4. PICK q \in {"nothing", "drain_STATUS", "drain_VERSION"} : Then(t, P(q))
  BY <1>3, Polls DEF Poll, Done
<1>5. q \in Calm /\ q \in Timed /\ q \in Phases /\ q \notin Results \cup {"started"}
      /\ p \notin Asking /\ k # "arm"
  BY <1>2 DEF Calm, Timed, Phases, Results, Asking, Doing, Flow
<1>6. Moved(t, q, k)
  BY <1>1, <1>2, <1>3, <1>4, <1>5, Goes
<1>7. UNCHANGED <<lvgl, enable, booted, fd, slot, busy, repower, power, asked, line, bound>>
  BY DEF Poll, locks, esp32, chip
<1>8. Powered(q)'
  BY <1>2, <1>4, <1>7 DEF Doing, Powered, Rested, Opening, Cycling, Watching
<1>9. (Pairing => Pairing') /\ (NoStart => NoStart')
  BY <1>7 DEF Pairing, NoStart
<1> QED
  BY <1>1, <1>2, <1>5, <1>6, <1>7, <1>8, <1>9, Onward DEF Asking

LEMMA UidControl ==
  ASSUME BackpackInv, NEW t \in Workers, NEW p \in Phases, NEW k \in Ends, Doing(t, p, k),
         RequestUid(t)
  PROVE  Control'
<1>1. TypeOK /\ todo[t] = Program(p, k)
  BY Heads DEF BackpackInv
<1>2. p = "uid"
  BY <1>1, Heads, PhaseAt, StepNames DEF RequestUid
<1>3. Rest(p) = "nothing" /\ P("drain_STATUS") = send("STATUS")
  BY <1>2, Spelling DEF Singles, send
<1>4. "drain_STATUS" \in Phases /\ Then(t, P("drain_STATUS"))
  BY <1>3 DEF RequestUid, Phases, Timed, Calm
<1>5. Moved(t, "drain_STATUS", k)
  BY <1>1, <1>2, <1>3, <1>4, Goes
<1>6. UNCHANGED <<lvgl, enable, booted, fd, slot, repower, power, asked, line, bound>>
  BY DEF RequestUid, locks, esp32, chip, response
<1>7. Powered("drain_STATUS")'
  BY <1>2, <1>6 DEF Doing, Powered, Rested, Opening, Cycling, Watching
<1>8. /\ p \notin Calm \cup Asking /\ "drain_STATUS" \in Timed
      /\ "drain_STATUS" \notin Results \cup {"started"} /\ k # "arm"
  BY <1>2 DEF Calm, Timed, Results, Asking, Doing, Flow
<1>9. NoStart => NoStart'
  BY <1>6 DEF NoStart
<1> QED
  BY <1>1, <1>2, <1>4, <1>5, <1>6, <1>7, <1>8, <1>9, Onward DEF Asking

LEMMA RepowerControl ==
  ASSUME BackpackInv, NEW t \in Workers, NEW p \in Phases, NEW k \in Ends, Doing(t, p, k),
         Repower(t)
  PROVE  Control'
<1>1. TypeOK /\ todo[t] = Program(p, k)
  BY Heads DEF BackpackInv
<1>2. p = "repower"
  BY <1>1, Heads, PhaseAt, StepNames DEF Repower
<1>3. Rested /\ repower
  BY <1>2 DEF Doing, Powered, Opening, Cycling
<1>4. /\ Rest(p) = "nothing" /\ {"open_uid", "uid"} \subseteq Phases
      /\ P("open_uid") = enable_esp32 \o <<"uid">> /\ P("uid") = <<>> \o <<"uid">>
  <2>1. PICK x \in Steps, y \in Steps, z \in Steps : x = "open" /\ y = "settle" /\ z = "uid"
    BY StepNames
  <2>2. <<x, y, z>> = <<x, y>> \o <<z>>
    BY Joined
  <2> QED
    BY <1>2, <2>1, <2>2, Spelling DEF Singles, enable_esp32, Phases, Timed, Opening
<1>5. PICK q \in {"open_uid", "uid"} : Then(t, P(q)) /\ q = IF enable THEN "open_uid" ELSE "uid"
  BY <1>4 DEF Repower
<1>6. Moved(t, q, k) /\ q \in Phases
  BY <1>1, <1>2, <1>4, <1>5, Goes
<1>7. UNCHANGED <<lvgl, enable, booted, fd, slot, busy, polls, power, asked, line, bound>>
      /\ repower' = FALSE
  BY DEF Repower, locks, esp32, chip, response
<1>8. Powered(q)'
  <2>1. ~fd /\ ~power /\ line = <<>>
    BY <1>3 DEF Rested, BackpackInv, Chip
  <2> QED
    BY <1>5, <1>7, <2>1 DEF Powered, Rested, Opening, Cycling, Watching
<1>9. /\ p \notin Calm \cup Asking /\ q \in Timed
      /\ q \notin Results \cup {"started"} /\ k # "arm"
  BY <1>2, <1>5 DEF Calm, Timed, Opening, Results, Asking, Doing, Flow
<1>10. NoStart => NoStart'
  BY <1>7 DEF NoStart
<1> QED
  BY <1>1, <1>2, <1>4, <1>6, <1>7, <1>8, <1>9, <1>10, Onward DEF Asking

LEMMA WatchControl ==
  ASSUME BackpackInv, NEW t \in Workers, NEW p \in Phases, NEW k \in Ends, Doing(t, p, k),
         Watch(t)
  PROVE  Control'
<1>1. TypeOK /\ todo[t] = Program(p, k)
  BY Heads DEF BackpackInv
<1>2. p = "watch"
  BY <1>1, Heads, PhaseAt, StepNames DEF Watch
<1>3. Rest(p) = "nothing" /\ P("nothing") = <<>> /\ P("check") = send("VERSION") \o <<"miss">>
  <2>1. PICK x \in Steps, y \in Steps, z \in Steps : x = "drain" /\ y = "VERSION" /\ z = "miss"
    BY StepNames
  <2>2. <<x, y, z>> = <<x, y>> \o <<z>>
    BY Joined
  <2> QED
    BY <1>2, <2>1, <2>2, Spelling DEF Singles, send
<1>4. PICK q \in {"nothing", "check"} : Then(t, P(q)) /\ (q = "check" => enable /\ busy = "no")
  BY <1>3 DEF Watch, Done
<1>5. Moved(t, q, k) /\ q \in Phases
  BY <1>1, <1>2, <1>3, <1>4, Goes DEF Phases, Timed, Calm, Watching
<1>6. UNCHANGED <<lvgl, enable, booted, fd, slot, busy, polls, repower, power, asked, line, bound>>
  BY DEF Watch, locks, esp32, chip
<1>7. q = "check" => ~repower
  BY <1>4 DEF BackpackInv, Chip
<1>8. Powered(q)'
  BY <1>2, <1>4, <1>6, <1>7 DEF Doing, Powered, Rested, Opening, Cycling, Watching
<1>9. /\ k # "arm" /\ p \notin Asking /\ q \in Timed /\ q \notin Results \cup {"started"}
      /\ q # "check" => q \in Calm
      /\ Pairing => q # "check"
  BY <1>2, <1>4 DEF Asking, Timed, Calm, Watching, Results, Doing, Flow, Pairing
<1>10. (Pairing => Pairing') /\ (NoStart => NoStart')
  BY <1>6 DEF Pairing, NoStart
<1> QED
  BY <1>1, <1>2, <1>4, <1>5, <1>6, <1>8, <1>9, <1>10, Onward DEF Asking

LEMMA MissControl ==
  ASSUME BackpackInv, NEW t \in Workers, NEW p \in Phases, NEW k \in Ends, Doing(t, p, k), Miss(t)
  PROVE  Control'
<1>1. TypeOK /\ todo[t] = Program(p, k)
  BY Heads DEF BackpackInv
<1>2. p = "miss"
  BY <1>1, Heads, PhaseAt, StepNames DEF Miss
<1>3. Rest(p) = "nothing" /\ P("nothing") = <<>> /\ P("cycle") = <<"disable">> \o enable_esp32
  <2>1. PICK x \in Steps, y \in Steps, z \in Steps : x = "disable" /\ y = "open" /\ z = "settle"
    BY StepNames
  <2>2. <<x, y, z>> = <<x>> \o <<y, z>>
    BY Three DEF Cons
  <2> QED
    BY <1>2, <2>1, <2>2, Spelling DEF Singles, enable_esp32
<1>4. PICK q \in {"nothing", "cycle"} : Then(t, P(q))
  BY <1>3 DEF Miss
<1>5. Moved(t, q, k) /\ q \in Phases
  BY <1>1, <1>2, <1>3, <1>4, Goes DEF Phases, Timed, Calm, Cycling
<1>6. UNCHANGED <<lvgl, enable, booted, fd, slot, busy, polls, repower, power, asked, line, bound>>
  BY DEF Miss, locks, esp32, chip, response
<1>7. Powered(q)'
  BY <1>2, <1>4, <1>6 DEF Doing, Powered, Rested, Opening, Cycling, Watching
<1>8. /\ k # "arm" /\ p \notin Calm \cup Asking /\ q \in Timed /\ q \notin Results \cup {"started"}
  BY <1>2, <1>4 DEF Asking, Timed, Calm, Watching, Cycling, Results, Doing, Flow
<1>9. NoStart => NoStart'
  BY <1>6 DEF NoStart
<1> QED
  BY <1>1, <1>2, <1>4, <1>5, <1>6, <1>7, <1>8, <1>9, Onward DEF Asking
-----------------------------------------------------------------------------
(* Who it is that takes a step.                                            *)
LEMMA Worker ==
  ASSUME BackpackInv, NEW t \in Workers, NEW x \in Steps, At(t, x),
         x \notin {"listen", "awaitO", "retake"}
  PROVE  \E p \in Phases, k \in Ends : Doing(t, p, k)
<1>1. todo[t] # <<>>
  BY StepNames DEF At, doing
<1>2. ASSUME t = "input", Waits
      PROVE  FALSE
  <2>1. PICK l \in {"listen", "awaitO"} \cup Results : todo[t] = Late(l)
    BY <1>2 DEF Waits
  <2>2. Head(todo[t]) \in {"listen", "awaitO", "retake"}
    BY <2>1, Lateness
  <2> QED
    BY <1>1, <2>2 DEF At, doing
<1>3. CASE Resting
  BY <1>1, <1>2, <1>3 DEF Resting, Workers
<1>4. CASE \E u \in Workers, p \in Phases, k \in Ends : Doing(u, p, k)
  <2>1. PICK u \in Workers, p \in Phases, k \in Ends : Doing(u, p, k)
    BY <1>4
  <2>2. CASE u = t
    BY <2>1, <2>2
  <2>3. CASE u = "input" /\ t = "main"
    BY <1>1, <2>1, <2>3 DEF Doing
  <2>4. CASE u = "main" /\ t = "input"
    BY <1>1, <1>2, <2>1, <2>4 DEF Doing, Flow
  <2> QED
    BY <2>2, <2>3, <2>4 DEF Workers
<1> QED
  BY <1>3, <1>4 DEF BackpackInv, Control

LEMMA Waiter ==
  ASSUME BackpackInv, NEW x \in {"listen", "awaitO", "retake"}, At("input", x)
  PROVE  /\ Waits /\ booted /\ Rested /\ todo["input"] # <<>>
         /\ \/ Resting
            \/ \E p \in Calm : p \in Phases /\ Doing("main", p, "loop") /\ lvgl = "main"
         /\ \A l \in {"listen", "awaitO"} \cup Results :
              todo["input"] = Late(l) =>
                IF l \in {"listen", "awaitO"} THEN x = l ELSE x = "retake"
<1>1. todo["input"] # <<>> /\ x \in Steps /\ "input" \in Workers
  BY StepNames DEF At, doing, Workers
<1>2. \A l \in {"listen", "awaitO"} \cup Results :
        todo["input"] = Late(l) =>
          IF l \in {"listen", "awaitO"} THEN x = l ELSE x = "retake"
  BY <1>1, Lateness DEF At, doing
<1>3. CASE Resting
  BY <1>1, <1>2, <1>3 DEF Resting
<1>4. CASE \E u \in Workers, p \in Phases, k \in Ends : Doing(u, p, k)
  <2>1. PICK u \in Workers, p \in Phases, k \in Ends : Doing(u, p, k)
    BY <1>4
  <2>2. u # "input"
    <3> SUFFICES ASSUME u = "input"
                 PROVE  FALSE
      OBVIOUS
    <3>1. TypeOK
      BY DEF BackpackInv
    <3>2. x = IF p # "nothing" THEN First(p) ELSE IF k = "arm" THEN "arm"
              ELSE IF k \in {"wifi", "bind"} THEN "awaitP" ELSE "unlock"
      BY <1>1, <2>1, <3>1, Heads
    <3> QED
      BY <3>2, PhaseAt
  <2>3. u = "main" /\ k = "loop" /\ Waits /\ p \in Calm
    BY <1>1, <2>1, <2>2 DEF Workers, Doing, Flow
  <2>4. Rested
    BY <2>1, <2>3 DEF Doing, Powered, Calm, Opening, Cycling
  <2> QED
    BY <1>1, <1>2, <2>1, <2>3, <2>4 DEF Doing
<1> QED
  BY <1>3, <1>4 DEF BackpackInv, Control

(* What everybody else's steps leave alone.                                *)
LEMMA Undisturbed ==
  ASSUME BackpackInv, UNCHANGED <<enable, booted, fd, polls, repower, power>>,
         todo'["main"] = todo["main"],
         todo'["input"] = todo["input"] \/ (Waits /\ Waits'),
         todo["input"] # <<>> =>
           (Pairing /\ power => Pairing') /\ (busy = "bind" => busy' = "bind"),
         NoStart => NoStart',
         bound => bound',
         line = <<>> /\ ~power => line' = <<>>,
         armed' = armed,
         lvgl' = lvgl \/ {lvgl, lvgl'} \cap Workers = {}
  PROVE  Control'
<1>1. Rested => Rested'
  BY DEF Rested
<1>2. Waits /\ Rested => Waits'
  <2> SUFFICES ASSUME Waits, Rested
               PROVE  Waits'
    OBVIOUS
  <2>1. PICK l \in {"listen", "awaitO"} \cup Results :
          todo["input"] = Late(l) /\ (l = "Success" => bound)
    BY DEF Waits
  <2>2. todo["input"] # <<>>
    BY <2>1, Lateness
  <2>3. Pairing /\ power
    BY DEF Waits, Pairing, Rested
  <2>4. Pairing'
    BY <2>2, <2>3
  <2>5. CASE todo'["input"] = todo["input"]
    BY <2>1, <2>4, <2>5 DEF Waits
  <2> QED
    BY <2>5
<1>3. todo["input"] = <<>> => todo'["input"] = <<>>
  <2>1. Waits => todo["input"] # <<>>
    BY Lateness DEF Waits
  <2> QED
    BY <2>1
<1>4. CASE Resting
  <2>1. lvgl' \notin Workers /\ todo'["main"] = <<>>
    BY <1>4 DEF Resting
  <2>2. CASE booted
    BY <1>1, <1>2, <1>3, <1>4, <2>1, <2>2 DEF Resting, Control
  <2>3. CASE ~booted
    BY <1>3, <1>4, <2>1, <2>3 DEF Resting, Control
  <2> QED
    BY <2>2, <2>3
<1>5. CASE \E t \in Workers, p \in Phases, k \in Ends : Doing(t, p, k)
  <2>1. PICK t \in Workers, p \in Phases, k \in Ends : Doing(t, p, k)
    BY <1>5
  <2>2. Powered(p)'
    BY <1>1, <2>1 DEF Doing, Powered
  <2>3. todo'[t] = todo[t]
    <3>1. CASE t = "input"
      <4>1. ~Waits
        <5>1. Program(p, k) # <<>> /\ Head(Program(p, k)) \notin {"listen", "awaitO", "retake"}
          BY Facing, Endings, PhaseAt
        <5>2. ASSUME NEW l \in {"listen", "awaitO"} \cup Results, todo["input"] = Late(l)
              PROVE  FALSE
          BY <2>1, <3>1, <5>1, <5>2, Lateness DEF Doing
        <5> QED
          BY <5>2 DEF Waits
      <4> QED
        BY <3>1, <4>1
    <3> QED
      BY <3>1 DEF Workers
  <2>4. (t = "input" => todo["input"] # <<>>) /\ (t = "input" <=> k \notin {"arm", "loop"})
    BY <2>1, Facing DEF Doing, Workers
  <2>5. Flow(p, k)'
    <3>1. CASE k = "arm"
      BY <1>3, <2>1, <3>1 DEF Doing, Flow
    <3>2. CASE k = "loop"
      <4>1. p \in Calm => Rested
        BY <2>1 DEF Doing, Powered, Calm, Opening, Cycling
      <4> QED
        BY <1>2, <1>3, <2>1, <3>2, <4>1 DEF Doing, Flow
    <3>3. CASE k \in {"unlock", "wifi", "bind", "wait"}
      <4>1. /\ Pairing /\ power => Pairing'
            /\ busy = "bind" => busy' = "bind"
        BY <2>4, <3>3
      <4>2. p \in Calm \cup Results \cup {"started"} => Rested
        BY <2>1 DEF Doing, Powered, Calm, Opening, Cycling, Results
      <4>3. Pairing /\ Rested => Pairing'
        BY <4>1 DEF Pairing, Rested
      <4>4. CASE k = "unlock"
        BY <2>1, <4>2, <4>3, <4>4 DEF Doing, Flow
      <4>5. CASE k = "wifi"
        BY <2>1, <4>5 DEF Doing, Flow
      <4>6. CASE k = "bind"
        BY <2>1, <4>1, <4>2, <4>3, <4>6 DEF Doing, Flow
      <4>7. CASE k = "wait"
        BY <2>1, <4>2, <4>3, <4>7 DEF Doing, Flow
      <4> QED
        BY <3>3, <4>4, <4>5, <4>6, <4>7
    <3> QED
      BY <3>1, <3>2, <3>3 DEF Ends
  <2>6. IF k = "arm" THEN lvgl' \notin Workers ELSE lvgl' = t
    BY <2>1 DEF Doing
  <2>7. Doing(t, p, k)'
    BY <2>1, <2>2, <2>3, <2>5, <2>6 DEF Doing
  <2> QED
    BY <2>7 DEF Control
<1> QED
  BY <1>4, <1>5 DEF BackpackInv, Control
-----------------------------------------------------------------------------
(* The wait for a bind.                                                    *)
LEMMA ListenControl ==
  ASSUME BackpackInv, Listen
  PROVE  Control'
<1>1. At("input", "listen") /\ Waits /\ todo["input"] # <<>>
  BY Waiter DEF Listen
<1>2. PICK l \in {"listen", "awaitO"} \cup Results :
        todo["input"] = Late(l) /\ (l = "Success" => bound)
  BY <1>1 DEF Waits
<1>3. l = "listen"
  BY <1>1, <1>2, Waiter
<1>4. todo' = [todo EXCEPT !["input"] = Late("awaitO")]
  <2>1. Tail(todo["input"]) = Late("awaitO") /\ Late("awaitO") \in Seq(Steps)
    BY <1>2, <1>3, Lateness
  <2>2. <<>> \o Late("awaitO") = Late("awaitO")
    BY <2>1, ConcatEmptySeq
  <2> QED
    BY <2>1, <2>2 DEF Listen, Done, Then
<1>5. todo'["input"] = Late("awaitO") /\ todo'["main"] = todo["main"]
  BY <1>4 DEF BackpackInv, TypeOK, Threads
<1>6. UNCHANGED <<lvgl, enable, booted, fd, slot, busy, polls, repower, armed, power, asked, line,
                  bound>>
  BY DEF Listen, locks, esp32, watchdog, chip
<1>7. (Pairing => Pairing') /\ (NoStart => NoStart')
  BY <1>6 DEF Pairing, NoStart
<1>8. Waits'
  BY <1>1, <1>5, <1>7 DEF Waits, Results
<1> QED
  BY <1>1, <1>5, <1>6, <1>7, <1>8, Undisturbed

LEMMA AgainControl ==
  ASSUME BackpackInv, AwaitAgain
  PROVE  Control'
<1>1. UNCHANGED <<todo, lvgl, enable, booted, fd, slot, busy, polls, repower, armed, power, asked,
                  line, bound>>
  BY DEF AwaitAgain, locks, esp32, watchdog, chip
<1>2. (Pairing => Pairing') /\ (NoStart => NoStart')
  BY <1>1 DEF Pairing, NoStart
<1> QED
  BY <1>1, <1>2, Undisturbed

LEMMA BindControl ==
  ASSUME BackpackInv, AwaitBind
  PROVE  Control'
<1>1. At("input", "awaitO") /\ Waits /\ todo["input"] # <<>>
  BY Waiter DEF AwaitBind
<1>2. PICK result \in Results :
        Heard("O", result) /\ todo' = [todo EXCEPT !["input"] = <<"retake", result, "unlock">>]
  BY DEF AwaitBind
<1>3. Late(result) = <<"retake", result, "unlock">>
  BY DEF Late, Results
<1>4. todo'["input"] = Late(result) /\ todo'["main"] = todo["main"]
  BY <1>2, <1>3 DEF BackpackInv, TypeOK, Threads
<1>5. UNCHANGED <<lvgl, enable, booted, fd, slot, busy, polls, repower, armed, power, asked, line,
                  bound>>
  BY DEF AwaitBind, locks, esp32, watchdog, chip
<1>6. (Pairing => Pairing') /\ (NoStart => NoStart')
  BY <1>5 DEF Pairing, NoStart
<1>7. result = "Success" => bound
  BY <1>1, <1>2 DEF Heard, outcome, Waits, Pairing
<1>8. Waits'
  BY <1>1, <1>4, <1>5, <1>6, <1>7 DEF Waits
<1> QED
  BY <1>1, <1>4, <1>5, <1>6, <1>8, Undisturbed

LEMMA RetakeControl ==
  ASSUME BackpackInv, At("input", "retake"), Lock("input")
  PROVE  Control'
<1>1. Waits /\ booted /\ Rested /\ Resting /\ todo["main"] = <<>>
  <2>1. lvgl # "main"
    BY DEF Lock
  <2> QED
    BY <2>1, Waiter DEF Resting
<1>2. PICK l \in {"listen", "awaitO"} \cup Results :
        todo["input"] = Late(l) /\ (l = "Success" => bound)
  BY <1>1 DEF Waits
<1>3. l \in Results
  BY <1>2, Waiter
<1>4. l \in Phases /\ "unlock" \in Ends
  BY <1>3 DEF Phases, Ends
<1>5. todo' = [todo EXCEPT !["input"] = Program(l, "unlock")]
  <2>1. Tail(todo["input"]) = Program(l, "unlock") /\ Program(l, "unlock") \in Seq(Steps)
    BY <1>2, <1>3, <1>4, Lateness, Facing
  <2>2. <<>> \o Program(l, "unlock") = Program(l, "unlock")
    BY <2>1, ConcatEmptySeq
  <2> QED
    BY <2>1, <2>2 DEF Lock, Done, Then
<1>6. todo'["input"] = Program(l, "unlock") /\ todo'["main"] = <<>>
  BY <1>1, <1>5 DEF BackpackInv, TypeOK, Threads
<1>7. UNCHANGED <<enable, booted, fd, slot, busy, polls, repower, power, asked, line, bound>>
      /\ lvgl' = "input"
  BY DEF Lock, esp32, response, watchdog, chip
<1>8. Powered(l)'
  BY <1>1, <1>3, <1>7 DEF Powered, Rested, Opening, Cycling, Watching, Results
<1>9. Flow(l, "unlock")'
  BY <1>1, <1>2, <1>7 DEF Flow, Waits, Pairing
<1>10. Doing("input", l, "unlock")'
  BY <1>1, <1>6, <1>7, <1>8, <1>9 DEF Doing
<1> QED
  BY <1>4, <1>10 DEF Control, Workers

(* The end of a click.                                                     *)
LEMMA ShowControl ==
  ASSUME BackpackInv, ShowResult
  PROVE  Control'
<1>1. PICK x \in Results :
        /\ At("input", x)
        /\ Then("input", IF x = "Success" THEN <<"uid">>
                         ELSE IF x = "Cancelled" THEN <<"disable">> ELSE <<>>)
        /\ repower' = (repower \/ (x = "Cancelled" /\ enable))
  BY DEF ShowResult
<1>2. x \in Steps /\ x \notin {"listen", "awaitO", "retake"} /\ "input" \in Workers
  BY StepNames DEF Results, Workers
<1>3. PICK p \in Phases, k \in Ends : Doing("input", p, k)
  BY <1>1, <1>2, Worker
<1>4. TypeOK /\ todo["input"] = Program(p, k)
  BY <1>2, <1>3, Heads DEF BackpackInv
<1>5. p = x
  <2>1. x = IF p # "nothing" THEN First(p) ELSE IF k = "arm" THEN "arm"
            ELSE IF k \in {"wifi", "bind"} THEN "awaitP" ELSE "unlock"
    BY <1>1, <1>2, <1>3, <1>4, Heads
  <2> QED
    BY <2>1, PhaseAt DEF Results
<1>6. k = "unlock" /\ Pairing /\ Rested /\ (x = "Success" => bound)
  <2>1. p \notin Timed \cup Asking \cup Calm
    BY <1>5 DEF Timed, Asking, Calm, Watching, Opening, Cycling, Results
  <2>2. Rested
    BY <1>3, <1>5 DEF Doing, Powered, Opening, Cycling, Results
  <2>3. k = "unlock"
    BY <1>3, <2>1 DEF Doing, Flow, Ends, Asking, Timed
  <2> QED
    BY <1>3, <1>5, <2>2, <2>3 DEF Doing, Flow
<1>7. Rest(p) = "nothing" /\ P("nothing") = <<>> /\ P("uid") = <<"uid">>
      /\ P("disable") = <<"disable">>
  BY <1>5, Spelling DEF Singles
<1> DEFINE q == IF x = "Success" THEN "uid" ELSE IF x = "Cancelled" THEN "disable" ELSE "nothing"
<1>8. Then("input", P(q)) /\ q \in Phases \ (Results \cup {"started"})
  <2>1. {"uid", "disable", "nothing"} \subseteq Phases \ (Results \cup {"started"})
    BY DEF Phases, Timed, Calm, Results
  <2> QED
    BY <1>1, <1>7, <2>1
<1>9. q = "disable" <=> x = "Cancelled"
  OBVIOUS
<1>10. q \in {"uid", "disable", "nothing"}
  OBVIOUS
<1> HIDE DEF q
<1>11. Moved("input", q, k)
  BY <1>2, <1>4, <1>5, <1>7, <1>8, Goes DEF Results
<1>12. UNCHANGED <<lvgl, enable, booted, fd, slot, busy, polls, power, asked, line, bound>>
  BY DEF ShowResult, locks, esp32, response, chip
<1>13. Powered(q)'
  <2>1. enable /\ ~repower /\ power /\ (fd <=> power)
    BY <1>6 DEF Pairing, Rested
  <2>2. repower' <=> q = "disable"
    BY <1>1, <1>9, <2>1
  <2> QED
    BY <1>10, <1>12, <2>1, <2>2 DEF Powered, Rested, Opening, Cycling, Watching
<1>14. NoStart => NoStart'
  BY <1>12 DEF NoStart
<1>15. p \notin Calm \cup Timed \cup Asking
  BY <1>5 DEF Timed, Asking, Calm, Watching, Opening, Cycling, Results
<1> QED
  BY <1>2, <1>3, <1>4, <1>6, <1>8, <1>11, <1>12, <1>13, <1>14, <1>15, Onward

LEMMA StartControl ==
  ASSUME BackpackInv, AwaitStart
  PROVE  Control'
<1>1. "awaitP" \in Steps /\ At("input", "awaitP") /\ "input" \in Workers
  BY StepNames DEF AwaitStart, Workers
<1>2. PICK p \in Phases, k \in Ends : Doing("input", p, k)
  BY <1>1, Worker
<1>3. /\ TypeOK /\ todo["input"] = Program(p, k) /\ "input" \in Threads
      /\ "awaitP" = IF p # "nothing" THEN First(p) ELSE IF k = "arm" THEN "arm"
                    ELSE IF k \in {"wifi", "bind"} THEN "awaitP" ELSE "unlock"
  BY <1>1, <1>2, Heads DEF BackpackInv
<1>4. p = "nothing" /\ k \in {"wifi", "bind"}
  BY <1>3, PhaseAt
<1>5. todo["input"] = K(k) /\ "unlock" \in Ends /\ {"nothing", "started"} \subseteq Phases
  BY <1>3, <1>4, Facing DEF Ends, Phases, Timed, Calm
<1>6. UNCHANGED <<lvgl, enable, booted, fd, slot, busy, polls, repower, power, asked, line, bound>>
  BY DEF AwaitStart, locks, esp32, chip
<1>7. Rested'
  BY <1>2, <1>4, <1>6 DEF Doing, Powered, Rested, Opening, Cycling
<1>8. Powered("nothing")' /\ Powered("started")'
  BY <1>7 DEF Powered, Opening, Cycling, Watching
<1>9. ASSUME NEW q \in {"nothing", "started"},
             todo' = [todo EXCEPT !["input"] = Program(q, "unlock")],
             q = "started" => Pairing
      PROVE  Control'
  <2>1. todo'["input"] = Program(q, "unlock") /\ todo'["main"] = todo["main"]
    BY <1>3, <1>9 DEF TypeOK, Threads
  <2>2. Flow(q, "unlock")'
    BY <1>6, <1>9 DEF Flow, Pairing, Results
  <2>3. Doing("input", q, "unlock")'
    BY <1>2, <1>4, <1>6, <1>8, <2>1, <2>2 DEF Doing
  <2> QED
    BY <1>5, <2>3 DEF Control, Workers
<1>10. K("unlock") = <<"unlock">> /\ Program("nothing", "unlock") = K("unlock")
       /\ K("unlock") \in Seq(Steps) /\ Program("started", "unlock") \in Seq(Steps)
  BY <1>5, Facing, Endings DEF K
<1>11. PICK x \in Results :
         /\ Heard("P", x)
         /\ IF x = "Success" THEN Done("input")
            ELSE todo' = [todo EXCEPT !["input"] = <<"unlock">>]
  BY DEF AwaitStart
<1>12. CASE x # "Success"
  BY <1>9, <1>10, <1>11, <1>12
<1>13. CASE x = "Success" /\ k = "wifi"
  <2>1. Tail(todo["input"]) = Program("nothing", "unlock")
    BY <1>5, <1>10, <1>13, Endings
  <2>2. <<>> \o Program("nothing", "unlock") = Program("nothing", "unlock")
    BY <1>10, ConcatEmptySeq
  <2>3. todo' = [todo EXCEPT !["input"] = Program("nothing", "unlock")]
    BY <1>11, <1>13, <2>1, <2>2 DEF Done, Then
  <2> QED
    BY <1>9, <2>3
<1>14. CASE x = "Success" /\ k = "bind"
  <2>1. Tail(todo["input"]) = Program("started", "unlock")
    BY <1>5, <1>14, Endings
  <2>2. <<>> \o Program("started", "unlock") = Program("started", "unlock")
    BY <1>10, ConcatEmptySeq
  <2>3. todo' = [todo EXCEPT !["input"] = Program("started", "unlock")]
    BY <1>11, <1>14, <2>1, <2>2 DEF Done, Then
  <2>4. slot = "P"
    BY <1>11, <1>14 DEF Heard, outcome
  <2>5. Pairing
    BY <1>2, <1>4, <1>14, <2>4 DEF Doing, Flow, NoStart
  <2> QED
    BY <1>9, <2>3, <2>5
<1> QED
  BY <1>4, <1>12, <1>13, <1>14

After(a, b) == a \o b

LEMMA Carry ==
  ASSUME NEW x \in Steps, NEW s \in Seq(Steps), NEW b \in Seq(Steps)
  PROVE  After(Cons(x, s), b) = Cons(x, After(s, b))
<1> DEFINE a == <<x>>
<1>1. a \in Seq(Steps)
  BY One
<1> HIDE DEF a
<1>2. (a \o s) \o b = a \o (s \o b)
  BY <1>1, ConcatAssociative
<1> QED
  BY <1>2 DEF a, After, Cons

LEMMA Six ==
  ASSUME NEW x \in Steps, NEW y \in Steps, NEW z \in Steps, NEW u \in Steps, NEW v \in Steps,
         NEW w \in Steps
  PROVE  After(<<x, y, z, u, v>>, <<w>>) = Cons(x, <<y, z, u, v, w>>)
<1>1. After(<<v>>, <<w>>) = <<v, w>>
  <2>1. After(<<v>>, <<w>>) = Cons(v, <<w>>)
    BY DEF After, Cons
  <2>2. <<v, w>> = Cons(v, <<w>>)
    BY Two
  <2> QED
    BY <2>1, <2>2
<1>2. After(<<u, v>>, <<w>>) = <<u, v, w>>
  <2>1. <<u, v>> = Cons(u, <<v>>) /\ <<v>> \in Seq(Steps)
    BY Two
  <2>2. <<w>> \in Seq(Steps)
    BY One
  <2>3. After(Cons(u, <<v>>), <<w>>) = Cons(u, After(<<v>>, <<w>>))
    BY <2>1, <2>2, Carry
  <2>4. Cons(u, <<v, w>>) = <<u, v, w>>
    BY Three
  <2> QED
    BY <1>1, <2>1, <2>3, <2>4
<1>3. After(<<z, u, v>>, <<w>>) = <<z, u, v, w>>
  <2>1. <<z, u, v>> = Cons(z, <<u, v>>) /\ <<u, v>> \in Seq(Steps)
    BY Three
  <2>2. <<w>> \in Seq(Steps)
    BY One
  <2>3. After(Cons(z, <<u, v>>), <<w>>) = Cons(z, After(<<u, v>>, <<w>>))
    BY <2>1, <2>2, Carry
  <2>4. Cons(z, <<u, v, w>>) = <<z, u, v, w>>
    BY Four
  <2> QED
    BY <1>2, <2>1, <2>3, <2>4
<1>4. After(<<y, z, u, v>>, <<w>>) = <<y, z, u, v, w>>
  <2>1. <<y, z, u, v>> = Cons(y, <<z, u, v>>) /\ <<z, u, v>> \in Seq(Steps)
    BY Four
  <2>2. <<w>> \in Seq(Steps)
    BY One
  <2>3. After(Cons(y, <<z, u, v>>), <<w>>) = Cons(y, After(<<z, u, v>>, <<w>>))
    BY <2>1, <2>2, Carry
  <2>4. Cons(y, <<z, u, v, w>>) = <<y, z, u, v, w>>
    BY Five
  <2> QED
    BY <1>3, <2>1, <2>3, <2>4
<1>5. <<x, y, z, u, v>> = Cons(x, <<y, z, u, v>>) /\ <<y, z, u, v>> \in Seq(Steps)
  BY Five
<1>6. <<w>> \in Seq(Steps)
  BY One
<1>7. After(Cons(x, <<y, z, u, v>>), <<w>>) = Cons(x, After(<<y, z, u, v>>, <<w>>))
  BY <1>5, <1>6, Carry
<1> QED
  BY <1>4, <1>5, <1>7

LEMMA StartedControl ==
  ASSUME BackpackInv, Started
  PROVE  Control'
<1>1. "started" \in Steps /\ At("input", "started") /\ "input" \in Workers
  BY StepNames DEF Started, Workers
<1>2. PICK p \in Phases, k \in Ends : Doing("input", p, k)
  BY <1>1, Worker
<1>3. /\ TypeOK /\ todo["input"] = Program(p, k) /\ "input" \in Threads
      /\ "started" = IF p # "nothing" THEN First(p) ELSE IF k = "arm" THEN "arm"
                     ELSE IF k \in {"wifi", "bind"} THEN "awaitP" ELSE "unlock"
  BY <1>1, <1>2, Heads DEF BackpackInv
<1>4. p = "started"
  BY <1>3, PhaseAt
<1>5. k = "unlock" /\ Pairing /\ Rested
  <2>1. p \notin Timed \cup Asking \cup Calm
    BY <1>4 DEF Timed, Asking, Calm, Watching, Opening, Cycling
  <2>2. Rested
    BY <1>2, <1>4 DEF Doing, Powered, Opening, Cycling
  <2>3. k = "unlock"
    BY <1>2, <1>4, <2>1 DEF Doing, Flow, Ends, Asking, Timed
  <2> QED
    BY <1>2, <1>4, <2>2, <2>3 DEF Doing, Flow
<1>6. Rest(p) = "nothing" /\ P("timers") = <<"timers">>
  BY <1>4, Spelling DEF Singles
<1>7. "nothing" \in Phases /\ "timers" \in Phases /\ "wait" \in Ends
  BY DEF Phases, Timed, Calm, Ends
<1>8. Tail(todo["input"]) = <<"unlock">>
  <2>1. Tail(todo["input"]) = Program("nothing", k)
    BY <1>3, <1>4, <1>6, Facing
  <2>2. Program("nothing", k) = K(k)
    BY <1>7, Facing
  <2> QED
    BY <1>5, <2>1, <2>2 DEF K
<1>9. todo' = [todo EXCEPT !["input"] = Program("timers", "wait")]
  <2>1. PICK x \in Steps, y \in Steps, z \in Steps, u \in Steps, v \in Steps, w \in Steps :
          /\ x = "timers" /\ y = "unlock" /\ z = "listen" /\ u = "awaitO" /\ v = "retake"
          /\ w = "unlock"
    BY StepNames
  <2>2. After(<<x, y, z, u, v>>, <<w>>) = Cons(x, <<y, z, u, v, w>>)
    BY Six
  <2>3. Program("timers", "wait") = Cons(x, <<y, z, u, v, w>>)
    BY <1>6, <2>1 DEF Program, K, Cons
  <2> QED
    BY <1>8, <2>1, <2>2, <2>3 DEF Started, Then, After
<1>10. todo'["input"] = Program("timers", "wait") /\ todo'["main"] = todo["main"]
  BY <1>3, <1>9 DEF TypeOK, Threads
<1>11. UNCHANGED <<lvgl, enable, booted, fd, slot, busy, polls, repower, power, asked, line, bound>>
  BY DEF Started, locks, esp32, chip, response
<1>12. Powered("timers")'
  BY <1>5, <1>11 DEF Rested, Powered, Opening, Cycling, Watching
<1>13. Flow("timers", "wait")'
  BY <1>5, <1>11 DEF Flow, Pairing, Calm
<1>14. Doing("input", "timers", "wait")'
  BY <1>2, <1>5, <1>10, <1>11, <1>12, <1>13 DEF Doing
<1> QED
  BY <1>7, <1>14 DEF Control, Workers

LEMMA UnlockControl ==
  ASSUME BackpackInv, NEW t \in Workers, Unlock(t)
  PROVE  Control'
<1>1. "unlock" \in Steps /\ At(t, "unlock")
  BY StepNames DEF Unlock
<1>2. PICK p \in Phases, k \in Ends : Doing(t, p, k)
  BY <1>1, Worker
<1>3. /\ TypeOK /\ todo[t] = Program(p, k) /\ t \in Threads
      /\ "unlock" = IF p # "nothing" THEN First(p) ELSE IF k = "arm" THEN "arm"
                    ELSE IF k \in {"wifi", "bind"} THEN "awaitP" ELSE "unlock"
  BY <1>1, <1>2, Heads DEF BackpackInv
<1>4. p = "nothing" /\ k \in {"loop", "unlock", "wait"}
  BY <1>3, PhaseAt DEF Ends
<1>5. todo[t] = K(k)
  BY <1>3, <1>4, Facing
<1>6. UNCHANGED <<enable, booted, fd, slot, busy, polls, repower, power, asked, line, bound>>
      /\ lvgl' = "none"
  BY DEF Unlock, esp32, chip, response
<1>7. Rested' /\ booted'
  BY <1>2, <1>4, <1>6 DEF Doing, Powered, Rested, Opening, Cycling
<1> DEFINE s == IF k = "wait" THEN Late("listen") ELSE <<>>
<1>8. Tail(todo[t]) = s /\ s \in Seq(Steps)
  <2>1. Late("listen") \in Seq(Steps) /\ <<>> \in Seq(Steps)
    BY Lateness, EmptySeq
  <2> QED
    BY <1>4, <1>5, <2>1, Endings
<1> HIDE DEF s
<1>9. todo' = [todo EXCEPT ![t] = s]
  <2>1. <<>> \o s = s
    BY <1>8, ConcatEmptySeq
  <2> QED
    BY <1>8, <2>1 DEF Unlock, Done, Then
<1>10. todo'[t] = s /\ \A u \in Workers \ {t} : todo'[u] = todo[u]
  BY <1>3, <1>9 DEF TypeOK, Workers, Threads
<1>11. CASE t = "main"
  <2>1. k = "loop" /\ todo'["main"] = <<>> /\ todo'["input"] = todo["input"]
    BY <1>2, <1>4, <1>10, <1>11 DEF Doing, Workers, s
  <2>2. todo["input"] = <<>> \/ Waits
    BY <1>2, <2>1 DEF Doing, Flow
  <2>3. todo'["input"] = <<>> \/ Waits'
    BY <1>6, <2>1, <2>2 DEF Waits, Pairing
  <2> QED
    BY <1>6, <1>7, <2>1, <2>3 DEF Control, Resting, Workers
<1>12. CASE t = "input"
  <2>1. k \in {"unlock", "wait"} /\ todo'["main"] = <<>> /\ todo'["input"] = s
    BY <1>2, <1>4, <1>10, <1>12 DEF Doing, Workers
  <2>2. CASE k = "wait"
    <3>1. Pairing
      BY <1>2, <2>2 DEF Doing, Flow
    <3>2. Waits'
      BY <1>6, <2>1, <2>2, <3>1 DEF Waits, Pairing, s, Results
    <3> QED
      BY <1>6, <1>7, <2>1, <3>2 DEF Control, Resting, Workers
  <2>3. CASE k = "unlock"
    BY <1>6, <1>7, <2>1, <2>3 DEF Control, Resting, Workers, s
  <2> QED
    BY <2>1, <2>2, <2>3
<1> QED
  BY <1>11, <1>12 DEF Workers

LEMMA ArmControl ==
  ASSUME BackpackInv, Arm
  PROVE  Control'
<1>1. "arm" \in Steps /\ At("main", "arm") /\ "main" \in Workers
  BY StepNames DEF Arm, Workers
<1>2. PICK p \in Phases, k \in Ends : Doing("main", p, k)
  BY <1>1, Worker
<1>3. /\ TypeOK /\ todo["main"] = Program(p, k) /\ "main" \in Threads
      /\ "arm" = IF p # "nothing" THEN First(p) ELSE IF k = "arm" THEN "arm"
                 ELSE IF k \in {"wifi", "bind"} THEN "awaitP" ELSE "unlock"
  BY <1>1, <1>2, Heads DEF BackpackInv
<1>4. p = "nothing" /\ k = "arm"
  BY <1>3, PhaseAt
<1>5. Tail(todo["main"]) = <<>>
  BY <1>3, <1>4, Facing, Endings
<1>6. todo' = [todo EXCEPT !["main"] = <<>>]
  BY <1>5, ConcatEmptySeq, EmptySeq DEF Arm, Done, Then
<1>7. todo'["main"] = <<>> /\ todo'["input"] = todo["input"]
  BY <1>3, <1>6 DEF TypeOK, Threads
<1>8. UNCHANGED <<lvgl, enable, booted, fd, power, repower>>
  BY DEF Arm, locks, esp32, chip
<1>9. Rested' /\ booted' /\ todo["input"] = <<>> /\ lvgl \notin Workers
  BY <1>2, <1>4, <1>8 DEF Doing, Powered, Rested, Opening, Cycling, Flow
<1> QED
  BY <1>7, <1>8, <1>9 DEF Control, Resting
-----------------------------------------------------------------------------
(* How a worker begins.                                                    *)
LEMMA Begins ==
  ASSUME BackpackInv, NEW t \in Workers, NEW q \in Phases, NEW k \in Ends \ {"arm"},
         booted, Resting, todo[t] = <<>>,
         lvgl' = t, todo' = [todo EXCEPT ![t] = Program(q, k)], booted' = booted,
         t = "main" <=> k = "loop", Powered(q)', Flow(q, k)'
  PROVE  Control'
<1>1. todo'[t] = Program(q, k) /\ (t = "input" => todo'["main"] = <<>>)
  BY DEF BackpackInv, TypeOK, Workers, Threads, Resting
<1>2. Doing(t, q, k)'
  BY <1>1 DEF Doing, Workers
<1> QED
  BY <1>2 DEF Control

LEMMA MainLoopControl ==
  ASSUME BackpackInv, NEW timer \in due, MainLoop(timer)
  PROVE  Control'
<1>1. /\ lvgl = "none" /\ lvgl' = "main" /\ todo["main"] = <<>>
      /\ todo' = [todo EXCEPT !["main"] = <<timer>> \o <<"unlock">>]
  BY DEF MainLoop, Enter
<1>2. Resting
  <2>1. ASSUME NEW u \in Workers, NEW p \in Phases, NEW k \in Ends, Doing(u, p, k)
        PROVE  FALSE
    BY <1>1, <2>1, Facing DEF Doing, Workers
  <2> QED
    BY <2>1 DEF BackpackInv, Control
<1>3. \/ timer = "watch" /\ armed
      \/ timer = "repower" /\ repower
      \/ timer = "pollSTATUS" /\ polls["STATUS"] > 0
      \/ timer = "pollVERSION" /\ polls["VERSION"] > 0
  BY Polls DEF due
<1>4. booted /\ Rested /\ (todo["input"] = <<>> \/ Waits)
  BY <1>2, <1>3 DEF Resting
<1>5. timer \in Phases /\ timer \in Timed /\ (timer # "repower" => timer \in Calm)
      /\ P(timer) = <<timer>> /\ "loop" \in Ends \ {"arm"}
  BY <1>3, Spelling DEF Phases, Timed, Calm, Singles, Ends
<1>6. todo' = [todo EXCEPT !["main"] = Program(timer, "loop")]
  BY <1>1, <1>5 DEF Program, K
<1>7. UNCHANGED <<enable, booted, fd, slot, busy, polls, repower, power, line, bound>>
  BY DEF MainLoop, esp32, response, chip
<1>8. Powered(timer)'
  BY <1>3, <1>4, <1>7 DEF Powered, Rested, Opening, Cycling, Watching
<1>9. Flow(timer, "loop")'
  <2>1. todo'["input"] = todo["input"]
    BY <1>6 DEF BackpackInv, TypeOK, Threads
  <2>2. Waits => Waits' /\ timer \in Calm
    <3>1. Waits => ~repower
      BY DEF Waits, Pairing
    <3>2. Waits => Waits'
      BY <1>7, <2>1 DEF Waits, Pairing
    <3> QED
      BY <1>3, <1>5, <3>1, <3>2
  <2> QED
    BY <1>4, <1>5, <2>1, <2>2 DEF Flow
<1> QED
  BY <1>1, <1>2, <1>4, <1>5, <1>6, <1>7, <1>8, <1>9, Begins DEF Workers

LEMMA BootControl ==
  ASSUME BackpackInv, Boot
  PROVE  Control'
<1>1. Resting /\ ~fd /\ ~power /\ ~repower /\ todo["input"] = <<>> /\ line = <<>>
  BY DEF Boot, BackpackInv, Control, Resting, Doing, Chip
<1>2. UNCHANGED <<lvgl, enable, fd, polls, repower, power, line>> /\ booted'
  BY DEF Boot, locks, esp32, chip
<1>3. "main" \in Threads /\ "input" \in Threads /\ todo \in [Threads -> Seq(Steps)]
  BY DEF BackpackInv, TypeOK, Threads
<1>4. todo'["input"] = <<>>
  BY <1>1, <1>3 DEF Boot
<1>5. CASE enable
  <2>1. P("open") = <<"open", "settle">> /\ "open" \in Phases /\ "arm" \in Ends
    BY Spelling DEF Phases, Timed, Opening, Ends
  <2>2. todo'["main"] = Program("open", "arm")
    BY <1>3, <1>5, <2>1 DEF Boot, enable_esp32, Program, K
  <2>3. Powered("open")'
    BY <1>1, <1>2, <1>5 DEF Powered, Opening, Cycling, Watching
  <2>4. Flow("open", "arm")'
    BY <1>2, <1>4, <1>5 DEF Flow, Results
  <2>5. Doing("main", "open", "arm")'
    BY <1>1, <1>2, <2>2, <2>3, <2>4 DEF Doing, Resting
  <2> QED
    BY <2>1, <2>5 DEF Control, Workers
<1>6. CASE ~enable
  <2>1. todo'["main"] = <<>>
    BY <1>3, <1>6 DEF Boot
  <2> QED
    BY <1>1, <1>2, <1>4, <1>6, <2>1 DEF Control, Resting, Rested
<1> QED
  BY <1>5, <1>6

LEMMA Clicked ==
  ASSUME BackpackInv, NEW kind, NEW steps, Click(kind, steps)
  PROVE  /\ booted /\ Resting /\ Rested /\ todo["input"] = <<>> /\ lvgl' = "input"
         /\ todo' = [todo EXCEPT !["input"] = steps \o <<"unlock">>]
         /\ "input" \in Workers /\ K("unlock") = <<"unlock">> /\ "unlock" \in Ends \ {"arm"}
<1>1. /\ booted /\ lvgl = "none" /\ lvgl' = "input" /\ todo["input"] = <<>>
      /\ todo' = [todo EXCEPT !["input"] = steps \o <<"unlock">>]
      /\ ~(\E i \in DOMAIN todo["main"] : todo["main"][i] = "arm")
  BY DEF Click, Enter
<1>2. ASSUME NEW u \in Workers, NEW p \in Phases, NEW k \in Ends, Doing(u, p, k)
      PROVE  FALSE
  <2>1. u = "main" /\ k = "arm" /\ todo["main"] = Program(p, k)
    BY <1>1, <1>2, Facing DEF Doing, Workers
  <2>2. P(p) \in Seq(Steps) /\ K(k) \in Seq(Steps) /\ Len(K(k)) = 1 /\ K(k)[1] = "arm"
    BY <2>1, Unfold, Endings DEF K
  <2> DEFINE a == P(p)
             b == K(k)
             c == a \o b
  <2>3. c = todo["main"]
    BY <2>1 DEF Program
  <2> HIDE DEF a, b
  <2>4. /\ c \in Seq(Steps) /\ Len(c) = Len(a) + Len(b) /\ Len(a) \in Nat /\ Len(b) \in Nat
        /\ \A i \in 1 .. Len(b) : c[Len(a) + i] = b[i]
    BY <2>2, Put DEF a, b
  <2> HIDE DEF c
  <2>5. Len(b) = 1 /\ b[1] = "arm"
    BY <2>2 DEF b
  <2>6. c[Len(a) + 1] = "arm" /\ Len(a) + 1 \in 1 .. Len(c)
    BY <2>4, <2>5
  <2>7. DOMAIN c = 1 .. Len(c)
    BY <2>4, LenProperties
  <2> QED
    BY <1>1, <2>3, <2>6, <2>7
<1>3. Resting
  BY <1>2 DEF BackpackInv, Control
<1> QED
  BY <1>1, <1>3 DEF Resting, Workers, K, Ends

LEMMA EnterControl ==
  ASSUME BackpackInv, PageEnter
  PROVE  Control'
<1>1. Click("enter", IF enable THEN <<"uid">> ELSE <<>>)
  BY DEF PageEnter
<1>2. P("nothing") = <<>> /\ P("uid") = <<"uid">>
  BY Spelling DEF Singles
<1>3. PICK q \in {"nothing", "uid"} :
        todo' = [todo EXCEPT !["input"] = P(q) \o <<"unlock">>]
  BY <1>1, <1>2, Clicked
<1>4. UNCHANGED <<enable, booted, fd, slot, busy, polls, repower, power, line, bound>>
  BY DEF PageEnter, esp32, response, chip
<1>5. q \in Phases /\ q \notin Results \cup {"started"}
  BY DEF Phases, Timed, Calm, Results
<1>6. Powered(q)' /\ Flow(q, "unlock")'
  BY <1>1, <1>4, <1>5, Clicked DEF Powered, Rested, Opening, Cycling, Watching, Flow
<1>7. todo' = [todo EXCEPT !["input"] = Program(q, "unlock")]
  BY <1>1, <1>3, Clicked DEF Program
<1> QED
  BY <1>1, <1>4, <1>5, <1>6, <1>7, Clicked, Begins

LEMMA VersionControl ==
  ASSUME BackpackInv, VersionEnter
  PROVE  Control'
<1>1. Click("version", send("VERSION"))
  BY DEF VersionEnter
<1>2. P("drain_VERSION") = send("VERSION")
  BY Spelling DEF send
<1>3. UNCHANGED <<enable, booted, fd, slot, repower, power, line, bound>>
  BY DEF VersionEnter, esp32, response, chip
<1>4. "drain_VERSION" \in Phases /\ "drain_VERSION" \notin Results \cup {"started"}
  BY DEF Phases, Timed, Calm, Results
<1>5. Powered("drain_VERSION")' /\ Flow("drain_VERSION", "unlock")'
  BY <1>1, <1>3, <1>4, Clicked DEF Powered, Rested, Opening, Cycling, Watching, Flow
<1>6. todo' = [todo EXCEPT !["input"] = Program("drain_VERSION", "unlock")]
  BY <1>1, <1>2, Clicked DEF Program
<1> QED
  BY <1>1, <1>3, <1>4, <1>5, <1>6, Clicked, Begins

LEMMA PowerControl ==
  ASSUME BackpackInv, ClickPower
  PROVE  Control'
<1>1. /\ Click("power", IF enable' THEN enable_esp32 ELSE <<"disable">>)
      /\ (repower => enable) /\ enable' = ~enable
  BY DEF ClickPower
<1>2. P("open") = enable_esp32 /\ P("disable") = <<"disable">>
  BY Spelling DEF Singles, enable_esp32
<1>3. PICK q \in {"open", "disable"} :
        /\ todo' = [todo EXCEPT !["input"] = P(q) \o <<"unlock">>]
        /\ q = IF enable' THEN "open" ELSE "disable"
  BY <1>1, <1>2, Clicked
<1>4. UNCHANGED <<booted, fd, slot, busy, polls, repower, power, line, bound>>
  BY DEF ClickPower, esp32, response, chip
<1>5. q \in Phases /\ q \notin Results \cup {"started"}
  BY DEF Phases, Timed, Opening, Results
<1>6. Powered(q)'
  <2>1. Rested /\ enable \in BOOLEAN /\ (~fd => line = <<>>)
    BY <1>1, Clicked DEF BackpackInv, TypeOK, Chip
  <2>2. CASE enable
    <3>1. q = "disable" /\ ~enable'
      BY <1>1, <1>3, <1>4, <2>2
    <3> QED
      BY <1>4, <2>1, <3>1 DEF Powered, Rested, Opening, Cycling, Watching
  <2>3. CASE ~enable
    <3>1. q = "open" /\ enable' /\ ~repower' /\ ~power /\ ~fd /\ line = <<>>
      BY <1>1, <1>3, <1>4, <2>1, <2>3 DEF Rested
    <3> QED
      BY <1>4, <3>1 DEF Powered, Opening, Cycling, Watching
  <2> QED
    BY <2>2, <2>3
<1>7. Flow(q, "unlock")'
  BY <1>5 DEF Flow
<1>8. todo' = [todo EXCEPT !["input"] = Program(q, "unlock")]
  BY <1>1, <1>3, Clicked DEF Program
<1> QED
  BY <1>1, <1>4, <1>5, <1>6, <1>7, <1>8, Clicked, Begins

LEMMA VtxControl ==
  ASSUME BackpackInv, ClickVtx
  PROVE  Control'
<1>1. Click("vtx", send("tell"))
  BY DEF ClickVtx
<1>2. P("drain_tell") = send("tell")
  BY Spelling DEF send
<1>3. UNCHANGED <<enable, booted, fd, slot, busy, polls, repower, power, line, bound>>
  BY DEF ClickVtx, esp32, response, chip
<1>4. "drain_tell" \in Phases /\ "drain_tell" \notin Results \cup {"started"}
  BY DEF Phases, Timed, Calm, Results
<1>5. Powered("drain_tell")' /\ Flow("drain_tell", "unlock")'
  BY <1>1, <1>3, <1>4, Clicked DEF Powered, Rested, Opening, Cycling, Watching, Flow
<1>6. todo' = [todo EXCEPT !["input"] = Program("drain_tell", "unlock")]
  BY <1>1, <1>2, Clicked DEF Program
<1> QED
  BY <1>1, <1>3, <1>4, <1>5, <1>6, Clicked, Begins

LEMMA Across ==
  ASSUME NEW a \in Seq(Steps), NEW b \in Seq(Steps), NEW c \in Seq(Steps), NEW d \in Seq(Steps)
  PROVE  After(After(a, After(b, c)), d) = After(After(a, b), After(c, d))
<1>1. a \o (b \o c) = (a \o b) \o c /\ a \o b \in Seq(Steps)
  BY ConcatAssociative, ConcatProperties
<1> DEFINE e == a \o b
<1> HIDE DEF e
<1>2. (e \o c) \o d = e \o (c \o d)
  BY <1>1, ConcatAssociative DEF e
<1> QED
  BY <1>1, <1>2 DEF After, e

LEMMA Afters ==
  ASSUME NEW x \in Steps, NEW y \in Steps, NEW z \in Steps
  PROVE  /\ After(<<x, y>>, <<z>>) = <<x, y, z>>
         /\ After(<<x>>, <<y, z>>) = <<x, y, z>>
         /\ After(<<x>>, <<y>>) = <<x, y>>
<1>1. After(<<x, y>>, <<z>>) = <<x, y, z>>
  BY Joined DEF After
<1>2. After(<<x>>, <<y, z>>) = <<x, y, z>>
  BY Three DEF After, Cons
<1>3. After(<<x>>, <<y>>) = <<x, y>>
  <2>1. <<x, y>> = Cons(x, <<y>>)
    BY Two
  <2>2. After(<<x>>, <<y>>) = Cons(x, <<y>>)
    BY DEF After, Cons
  <2> QED
    BY <2>1, <2>2
<1> QED
  BY <1>1, <1>2, <1>3

LEMMA Asked2 ==
  ASSUME NEW x \in Steps, NEW y \in Steps, NEW z \in Steps, NEW u \in Steps, NEW w \in Steps
  PROVE  After(After(<<x, y>>, <<z, u>>), <<w>>) = After(<<x, y, z>>, <<u, w>>)
<1> DEFINE a == <<x, y>>
           b == <<z>>
           c == <<u>>
           d == <<w>>
<1>1. a \in Seq(Steps) /\ b \in Seq(Steps) /\ c \in Seq(Steps) /\ d \in Seq(Steps)
  BY One, Two
<1>2. After(a, b) = <<x, y, z>>
  BY Afters
<1>3. After(b, c) = <<z, u>>
  BY Afters
<1>4. After(c, d) = <<u, w>>
  BY Afters
<1> HIDE DEF a, b, c, d
<1>5. After(After(a, After(b, c)), d) = After(After(a, b), After(c, d))
  BY <1>1, Across
<1>6. After(After(a, <<z, u>>), d) = After(<<x, y, z>>, <<u, w>>)
  BY <1>2, <1>3, <1>4, <1>5
<1> QED
  BY <1>6 DEF a, d

LEMMA Asked3 ==
  ASSUME NEW x \in Steps, NEW y \in Steps, NEW z \in Steps, NEW u \in Steps, NEW v \in Steps,
         NEW w \in Steps
  PROVE  After(After(<<x, y>>, <<z, u, v>>), <<w>>) = After(<<x, y, z>>, <<u, v, w>>)
<1> DEFINE a == <<x, y>>
           b == <<z>>
           c == <<u, v>>
           d == <<w>>
<1>1. a \in Seq(Steps) /\ b \in Seq(Steps) /\ c \in Seq(Steps) /\ d \in Seq(Steps)
  BY One, Two
<1>2. After(a, b) = <<x, y, z>>
  BY Afters
<1>3. After(b, c) = <<z, u, v>>
  BY Afters
<1>4. After(c, d) = <<u, v, w>>
  BY Afters
<1> HIDE DEF a, b, c, d
<1>5. After(After(a, After(b, c)), d) = After(After(a, b), After(c, d))
  BY <1>1, Across
<1>6. After(After(a, <<z, u, v>>), d) = After(<<x, y, z>>, <<u, v, w>>)
  BY <1>2, <1>3, <1>4, <1>5
<1> QED
  BY <1>6 DEF a, d

LEMMA WifiControl ==
  ASSUME BackpackInv, ClickWifi
  PROVE  Control'
<1>1. Click("wifi", send("W") \o <<"timers", "awaitP">>)
  BY DEF ClickWifi
<1>2. Program("drain_W", "wifi") = (send("W") \o <<"timers", "awaitP">>) \o <<"unlock">>
  <2>1. P("drain_W") = <<"drain", "W", "timers">>
    BY Spelling
  <2>2. PICK x \in Steps, y \in Steps, z \in Steps, u \in Steps, w \in Steps :
          x = "drain" /\ y = "W" /\ z = "timers" /\ u = "awaitP" /\ w = "unlock"
    BY StepNames
  <2>3. After(After(<<x, y>>, <<z, u>>), <<w>>) = After(<<x, y, z>>, <<u, w>>)
    BY Asked2
  <2> QED
    BY <2>1, <2>2, <2>3 DEF Program, K, send, After
<1>3. UNCHANGED <<enable, booted, fd, slot, polls, repower, power, line, bound>>
  BY DEF ClickWifi, esp32, chip
<1>4. "drain_W" \in Phases /\ "drain_W" \in Asking /\ "wifi" \in Ends \ {"arm"}
  BY DEF Phases, Asking, Ends
<1>5. Powered("drain_W")' /\ Flow("drain_W", "wifi")'
  BY <1>1, <1>3, <1>4, Clicked DEF Powered, Rested, Opening, Cycling, Watching, Flow
<1>6. todo' = [todo EXCEPT !["input"] = Program("drain_W", "wifi")]
  BY <1>1, <1>2, Clicked
<1> QED
  BY <1>1, <1>3, <1>4, <1>5, <1>6, Clicked, Begins

LEMMA PairControl ==
  ASSUME BackpackInv, ClickBind
  PROVE  Control'
<1>1. Click("bind", send("B") \o <<"timers", "awaitP", "started">>)
  BY DEF ClickBind
<1>2. Program("drain_B", "bind") = (send("B") \o <<"timers", "awaitP", "started">>) \o <<"unlock">>
  <2>1. P("drain_B") = <<"drain", "B", "timers">>
    BY Spelling
  <2>2. PICK x \in Steps, y \in Steps, z \in Steps, u \in Steps, v \in Steps, w \in Steps :
          /\ x = "drain" /\ y = "B" /\ z = "timers" /\ u = "awaitP" /\ v = "started"
          /\ w = "unlock"
    BY StepNames
  <2>3. After(After(<<x, y>>, <<z, u, v>>), <<w>>) = After(<<x, y, z>>, <<u, v, w>>)
    BY Asked3
  <2> QED
    BY <2>1, <2>2, <2>3 DEF Program, K, send, After
<1>3. UNCHANGED <<enable, booted, fd, slot, polls, repower, power, line, bound>>
      /\ busy' = "bind" /\ enable
  BY DEF ClickBind, esp32, chip
<1>4. "drain_B" \in Phases /\ "bind" \in Ends \ {"arm"}
  BY DEF Phases, Asking, Ends
<1>5. Powered("drain_B")' /\ Flow("drain_B", "bind")'
  BY <1>1, <1>3, <1>4, Clicked DEF Powered, Rested, Opening, Cycling, Watching, Flow
<1>6. todo' = [todo EXCEPT !["input"] = Program("drain_B", "bind")]
  BY <1>1, <1>2, Clicked
<1> QED
  BY <1>1, <1>3, <1>4, <1>5, <1>6, Clicked, Begins
-----------------------------------------------------------------------------
(* Everybody else.                                                         *)
LEMMA ReaderAt ==
  ASSUME TypeOK, Reading, NEW r \in Readers, NEW x \in Steps, At(r, x)
  PROVE  /\ todo[r] # <<>> /\ fd /\ tid = r /\ r \in Threads /\ r \notin Workers
         /\ x \in {"init", "loop", "drain", "tell", "lock", "unlock"}
         /\ x = "unlock" <=> lvgl = r
         /\ Tail(todo[r]) = CASE x \in {"init", "tell", "unlock"} -> <<"loop">>
                              [] x = "loop" -> <<>>
                              [] x = "drain" -> <<"tell", "loop">>
                              [] x = "lock" -> <<"unlock", "loop">>
<1>1. todo[r] # <<>> /\ Head(todo[r]) = x
  BY StepNames DEF At, doing
<1>2. todo[r] \in ReaderPrograms /\ fd /\ tid = r /\ (todo[r] = <<"unlock", "loop">> <=> lvgl = r)
  BY <1>1 DEF Reading
<1>3. r \in Threads /\ r \notin Workers
  BY DEF Threads, Readers, Workers
<1>4. PICK a \in Steps, b \in Steps, c \in Steps, d \in Steps, e \in Steps, f \in Steps :
        a = "init" /\ b = "loop" /\ c = "drain" /\ d = "tell" /\ e = "lock" /\ f = "unlock"
  BY StepNames
<1>5. /\ Head(<<a, b>>) = a /\ Tail(<<a, b>>) = <<b>>
      /\ Head(<<d, b>>) = d /\ Tail(<<d, b>>) = <<b>>
      /\ Head(<<f, b>>) = f /\ Tail(<<f, b>>) = <<b>>
  BY Two
<1>6. /\ Head(<<c, d, b>>) = c /\ Tail(<<c, d, b>>) = <<d, b>>
      /\ Head(<<e, f, b>>) = e /\ Tail(<<e, f, b>>) = <<f, b>>
  BY Three
<1>7. Head(<<b>>) = b /\ Tail(<<b>>) = <<>>
  BY One
<1>8. \/ todo[r] = <<a, b>> \/ todo[r] = <<b>> \/ todo[r] = <<c, d, b>>
      \/ todo[r] = <<d, b>> \/ todo[r] = <<e, f, b>> \/ todo[r] = <<f, b>>
  BY <1>1, <1>2, <1>4 DEF ReaderPrograms
<1>9. /\ x \in {a, b, c, d, e, f}
      /\ x \in {a, d, f} => Tail(todo[r]) = <<b>>
      /\ x = b => Tail(todo[r]) = <<>>
      /\ x = c => Tail(todo[r]) = <<d, b>>
      /\ x = e => Tail(todo[r]) = <<f, b>>
      /\ x = f <=> todo[r] = <<f, b>>
  <2>1. a # b /\ a # c /\ a # d /\ a # e /\ a # f /\ b # c /\ b # d /\ b # e /\ b # f /\ c # d
        /\ c # e /\ c # f /\ d # e /\ d # f /\ e # f
    BY <1>4
  <2>2. CASE todo[r] = <<a, b>>
    BY <1>1, <1>5, <2>1, <2>2
  <2>3. CASE todo[r] = <<b>>
    BY <1>1, <1>5, <1>7, <2>1, <2>3
  <2>4. CASE todo[r] = <<c, d, b>>
    BY <1>1, <1>5, <1>6, <2>1, <2>4
  <2>5. CASE todo[r] = <<d, b>>
    BY <1>1, <1>5, <2>1, <2>5
  <2>6. CASE todo[r] = <<e, f, b>>
    BY <1>1, <1>5, <1>6, <2>1, <2>6
  <2>7. CASE todo[r] = <<f, b>>
    BY <1>1, <1>5, <2>1, <2>7
  <2> QED
    BY <1>8, <2>2, <2>3, <2>4, <2>5, <2>6, <2>7
<1> QED
  BY <1>1, <1>2, <1>3, <1>4, <1>9

LEMMA TrackerAt ==
  ASSUME TypeOK, Reading, NEW x \in Steps, At("ht", x)
  PROVE  /\ x \in {"drain", "tell"}
         /\ Tail(todo["ht"]) = IF x = "drain" THEN <<"tell">> ELSE <<>>
<1>1. todo["ht"] # <<>> /\ Head(todo["ht"]) = x
  BY StepNames DEF At, doing
<1>2. PICK a \in Steps, b \in Steps : a = "drain" /\ b = "tell"
  BY StepNames
<1>3. Head(<<a, b>>) = a /\ Tail(<<a, b>>) = <<b>> /\ Head(<<b>>) = b /\ Tail(<<b>>) = <<>>
  BY One, Two
<1>4. todo["ht"] = <<a, b>> \/ todo["ht"] = <<b>>
  BY <1>1, <1>2 DEF Reading
<1>5. a # b
  BY <1>2
<1>6. CASE todo["ht"] = <<a, b>>
  BY <1>1, <1>2, <1>3, <1>5, <1>6
<1>7. CASE todo["ht"] = <<b>>
  BY <1>1, <1>2, <1>3, <1>5, <1>7
<1> QED
  BY <1>4, <1>6, <1>7

LEMMA Elsewhere ==
  ASSUME TypeOK, NEW t \in Threads, NEW s, Then(t, s)
  PROVE  /\ todo'[t] = s \o Tail(todo[t])
         /\ \A u \in Threads \ {t} : todo'[u] = todo[u]
BY DEF Then, TypeOK

LEMMA DoneThen ==
  ASSUME TypeOK, NEW t \in Threads, Done(t), Tail(todo[t]) \in Seq(Steps)
  PROVE  todo'[t] = Tail(todo[t]) /\ \A u \in Threads \ {t} : todo'[u] = todo[u]
<1>1. <<>> \o Tail(todo[t]) = Tail(todo[t])
  BY ConcatEmptySeq
<1> QED
  BY <1>1, Elsewhere DEF Done

(* The messages that reach a reader.                                       *)
LEMMA FirstOfLine ==
  ASSUME TypeOK, line # <<>>, line' = Tail(line)
  PROVE  /\ Head(line) \in Answers \cup Commands /\ line' \in Seq(Answers \cup Commands)
         /\ \A i \in 1 .. Len(line') : \E j \in 1 .. Len(line) : line'[i] = line[j]
         /\ \E j \in 1 .. Len(line) : Head(line) = line[j]
<1>1. line \in Seq(Answers \cup Commands)
  BY DEF TypeOK
<1>2. /\ Head(line) \in Answers \cup Commands /\ Tail(line) \in Seq(Answers \cup Commands)
      /\ Len(Tail(line)) = Len(line) - 1 /\ Len(line) \in Nat \ {0} /\ Head(line) = line[1]
      /\ \A i \in 1 .. Len(Tail(line)) : Tail(line)[i] = line[i + 1]
  BY <1>1, HeadTailProperties, EmptySeq, LenProperties
<1>3. \A i \in 1 .. Len(line') : line'[i] = line[i + 1] /\ i + 1 \in 1 .. Len(line)
  BY <1>2
<1> QED
  BY <1>2, <1>3

LEMMA Said ==
  ASSUME TypeOK, NEW m \in Answers \cup Commands, line' = Append(line, m)
  PROVE  /\ line' \in Seq(Answers \cup Commands)
         /\ \A i \in 1 .. Len(line') : line'[i] = m \/ \E j \in 1 .. Len(line) : line'[i] = line[j]
<1>1. line \in Seq(Answers \cup Commands)
  BY DEF TypeOK
<1>2. /\ Len(line) \in Nat /\ Len(line') = Len(line) + 1 /\ line' \in Seq(Answers \cup Commands)
      /\ line'[Len(line) + 1] = m
      /\ \A i \in 1 .. Len(line) : line'[i] = line[i]
  BY <1>1, AppendProperties, LenProperties
<1>3. \A i \in 1 .. Len(line') : i = Len(line) + 1 \/ i \in 1 .. Len(line)
  BY <1>2
<1> QED
  BY <1>2, <1>3

(* A backpack with power has a UART to read it by.                         *)
LEMMA Served ==
  ASSUME BackpackInv
  PROVE  power => fd
<1>1. CASE Resting
  BY <1>1 DEF Resting, Rested
<1>2. CASE \E t \in Workers, p \in Phases, k \in Ends : Doing(t, p, k)
  <2>1. PICK p \in Phases : Powered(p)
    BY <1>2 DEF Doing
  <2>2. Rested => (fd <=> power)
    BY DEF Rested
  <2> QED
    BY <2>1, <2>2 DEF Powered, Cycling
<1> QED
  BY <1>1, <1>2 DEF BackpackInv, Control

(* What the readers and the head tracker do.                               *)
LEMMA OtherSteps ==
  ASSUME BackpackInv, NEW t \in Threads \ Workers, StepOf(t)
  PROVE  \/ t \in Readers /\ ((At(t, "lock") /\ Lock(t)) \/ Unlock(t) \/ Drain(t) \/ Tell(t))
         \/ t \in Readers /\ ReaderStep(t)
         \/ t = "ht" /\ (Drain(t) \/ Tell(t))
<1>1. t \in Readers \/ t = "ht"
  BY DEF Threads, Workers
<1>2. TypeOK /\ Reading
  BY DEF BackpackInv
<1>3. \A x \in Steps : At(t, x) => IF t \in Readers THEN x \in {"init", "loop", "drain", "tell",
                                                               "lock", "unlock"}
                                   ELSE x \in {"drain", "tell"}
  BY <1>1, <1>2, ReaderAt, TrackerAt
<1>4. "ht" \notin Readers /\ "main" \notin Readers /\ "input" \notin Readers
  BY DEF Readers
<1>5. t \notin {"main", "input"}
  BY DEF Workers
<1>6. /\ ~At(t, "retake") /\ ~OpenUart(t) /\ ~Settle(t) /\ ~disable_esp32(t) /\ ~Join(t)
      /\ ~Timer(t) /\ ~RequestUid(t) /\ ~Repower(t) /\ ~Watch(t) /\ ~Miss(t)
  BY <1>3, StepNames DEF OpenUart, Settle, disable_esp32, Join, Timer, RunTimer, NoTimer,
     RequestUid, Repower, Watch, Miss
<1>7. ~Ask(t)
  BY <1>3, StepNames DEF Ask, Requests, Modes
<1>8. ~Poll(t)
  BY <1>3, StepNames, Polls DEF Poll
<1>9. CASE t \in Readers
  BY <1>5, <1>6, <1>7, <1>8, <1>9 DEF StepOf, Lock
<1>10. CASE t = "ht"
  <2>1. ~Lock(t) /\ ~Unlock(t)
    BY <1>3, <1>4, <1>10, StepNames DEF Lock, Unlock
  <2> QED
    BY <1>4, <1>5, <1>6, <1>7, <1>8, <1>10, <2>1 DEF StepOf
<1> QED
  BY <1>1, <1>9, <1>10

LEMMA LockControl ==
  ASSUME BackpackInv, NEW t \in Readers, (At(t, "lock") /\ Lock(t)) \/ Unlock(t)
  PROVE  Control' /\ Reading'
<1>1. TypeOK /\ Reading /\ "lock" \in Steps /\ "unlock" \in Steps
  BY StepNames DEF BackpackInv
<1>2. /\ UNCHANGED <<enable, booted, fd, tid, slot, busy, polls, repower, armed, power, asked,
                     line, bound>>
      /\ Done(t)
  BY DEF Lock, Unlock, esp32, response, watchdog, chip
<1>3. /\ t \in Threads \ Workers
      /\ \/ At(t, "lock") /\ lvgl = "none" /\ lvgl' = t /\ Tail(todo[t]) = <<"unlock", "loop">>
         \/ At(t, "unlock") /\ lvgl = t /\ lvgl' = "none" /\ Tail(todo[t]) = <<"loop">>
      /\ fd /\ tid = t
  BY <1>1, ReaderAt DEF Lock, Unlock
<1>4. <<"unlock", "loop">> \in Seq(Steps) /\ <<"loop">> \in Seq(Steps)
      /\ <<"loop">> # <<"unlock", "loop">>
  <2>1. PICK a \in Steps, b \in Steps : a = "unlock" /\ b = "loop"
    BY StepNames
  <2>2. <<a, b>> \in Seq(Steps) /\ <<b>> \in Seq(Steps) /\ Tail(<<a, b>>) = <<b>>
        /\ Tail(<<b>>) = <<>> /\ <<b>> # <<>>
    BY One, Two
  <2> QED
    BY <2>1, <2>2
<1>5. todo'[t] = Tail(todo[t]) /\ \A u \in Threads \ {t} : todo'[u] = todo[u]
  BY <1>1, <1>2, <1>3, <1>4, DoneThen
<1>6. {"main", "input", "ht"} \subseteq Threads /\ Readers \subseteq Threads
      /\ t \notin {"main", "input", "ht", "none"}
  BY DEF Threads, Readers
<1>7. (Pairing => Pairing') /\ (NoStart => NoStart')
  BY <1>2 DEF Pairing, NoStart
<1>8. {lvgl, lvgl'} \cap Workers = {}
  BY <1>3 DEF Workers
<1>9. Control'
  BY <1>2, <1>5, <1>6, <1>7, <1>8, Undisturbed
<1>10. ASSUME NEW r \in Readers
       PROVE  /\ todo'[r] \in ReaderPrograms
              /\ todo'[r] = <<"unlock", "loop">> <=> lvgl' = r
              /\ todo'[r] # <<>> => fd' /\ tid' = r
  <2>1. CASE r = t
    <3>1. CASE lvgl' = t
      BY <1>2, <1>3, <1>5, <1>6, <2>1, <3>1 DEF ReaderPrograms
    <3>2. CASE lvgl' = "none"
      BY <1>2, <1>3, <1>4, <1>5, <1>6, <2>1, <3>2 DEF ReaderPrograms
    <3> QED
      BY <1>3, <3>1, <3>2
  <2>2. CASE r # t
    <3>1. todo'[r] = todo[r] /\ lvgl # r /\ lvgl' # r
      BY <1>3, <1>5, <1>6, <2>2 DEF Readers
    <3> QED
      BY <1>1, <1>2, <3>1 DEF Reading
  <2> QED
    BY <2>1, <2>2
<1>11. todo'["ht"] = todo["ht"] /\ lvgl' # "ht"
  BY <1>3, <1>5, <1>6
<1>12. Reading'
  BY <1>1, <1>10, <1>11 DEF Reading
<1> QED
  BY <1>9, <1>12

LEMMA ReaderNames ==
  /\ <<"init", "loop">> \in Seq(Steps) /\ <<"loop">> \in Seq(Steps) /\ <<>> \in Seq(Steps)
  /\ <<"unlock", "loop">> \in Seq(Steps) /\ <<"lock", "unlock", "loop">> \in Seq(Steps)
  /\ <<"drain", "tell", "loop">> \in Seq(Steps) /\ <<"tell", "loop">> \in Seq(Steps)
  /\ <<"drain", "tell">> \in Seq(Steps) /\ <<"tell">> \in Seq(Steps)
  /\ <<"unlock", "loop">> \notin {<<"init", "loop">>, <<"loop">>, <<>>, <<"tell", "loop">>,
                                  <<"lock", "unlock", "loop">>, <<"drain", "tell", "loop">>}
<1>1. PICK a \in Steps, b \in Steps, c \in Steps, d \in Steps, e \in Steps, f \in Steps :
        a = "init" /\ b = "loop" /\ c = "drain" /\ d = "tell" /\ e = "lock" /\ f = "unlock"
  BY StepNames
<1>2. a # f /\ b # f /\ c # f /\ d # f /\ e # f
  BY <1>1
<1>3. /\ <<a, b>> \in Seq(Steps) /\ <<f, b>> \in Seq(Steps) /\ <<d, b>> \in Seq(Steps)
      /\ <<c, d>> \in Seq(Steps) /\ Head(<<a, b>>) = a /\ Head(<<f, b>>) = f
      /\ Head(<<d, b>>) = d /\ <<f, b>> # <<>>
  BY Two
<1>4. /\ <<e, f, b>> \in Seq(Steps) /\ <<c, d, b>> \in Seq(Steps)
      /\ Head(<<e, f, b>>) = e /\ Head(<<c, d, b>>) = c
  BY Three
<1>5. <<b>> \in Seq(Steps) /\ <<d>> \in Seq(Steps) /\ <<>> \in Seq(Steps) /\ Head(<<b>>) = b
  BY One
<1> QED
  BY <1>1, <1>2, <1>3, <1>4, <1>5

(* A thread of their own that goes on, without the mutex.                  *)
LEMMA Private ==
  ASSUME BackpackInv, NEW t \in Readers \cup {"ht"}, NEW s,
         UNCHANGED <<fd, tid, lvgl>>, todo'[t] = s,
         \A u \in Threads \ {t} : todo'[u] = todo[u],
         t = "ht" => s \in {<<>>, <<"drain", "tell">>, <<"tell">>},
         t \in Readers =>
           s \in ReaderPrograms /\ s # <<"unlock", "loop">> /\ lvgl # t /\ fd /\ tid = t
  PROVE  Reading'
<1>1. Reading /\ Readers \subseteq Threads /\ "ht" \in Threads /\ "ht" \notin Readers
  BY DEF BackpackInv, Threads, Readers
<1>2. ASSUME NEW r \in Readers
      PROVE  /\ todo'[r] \in ReaderPrograms
             /\ todo'[r] = <<"unlock", "loop">> <=> lvgl' = r
             /\ todo'[r] # <<>> => fd' /\ tid' = r
  <2>1. CASE r = t
    BY <2>1
  <2>2. CASE r # t
    BY <1>1, <2>2 DEF Reading
  <2> QED
    BY <2>1, <2>2
<1>3. todo'["ht"] \in {<<>>, <<"drain", "tell">>, <<"tell">>} /\ lvgl' # "ht"
  BY <1>1 DEF Reading
<1> QED
  BY <1>2, <1>3 DEF Reading

LEMMA SendControl ==
  ASSUME BackpackInv, NEW t \in Readers \cup {"ht"}, Drain(t) \/ Tell(t)
  PROVE  Control' /\ Reading'
<1>1. TypeOK /\ Reading /\ "drain" \in Steps /\ "tell" \in Steps
  BY StepNames DEF BackpackInv
<1>2. /\ UNCHANGED <<lvgl, enable, booted, fd, tid, busy, polls, repower, armed, power, asked,
                     line, bound>>
      /\ Done(t) /\ slot' \in {slot, "none"}
  BY DEF Drain, Tell, locks, esp32, watchdog, chip
<1>3. PICK x \in {"drain", "tell"} : At(t, x)
  BY DEF Drain, Tell
<1>4. /\ t \in Threads \ {"main", "input"}
      /\ {"main", "input"} \subseteq Threads /\ "ht" \notin Readers
  BY DEF Threads, Readers
<1>5. PICK s \in {<<>>, <<"tell">>, <<"loop">>, <<"tell", "loop">>} :
        /\ s = Tail(todo[t]) /\ s \in Seq(Steps)
        /\ t = "ht" => s \in {<<>>, <<"tell">>}
        /\ t \in Readers => s \in {<<"loop">>, <<"tell", "loop">>} /\ fd /\ tid = t /\ lvgl # t
  <2>1. CASE t = "ht"
    <3>1. Tail(todo[t]) = IF x = "drain" THEN <<"tell">> ELSE <<>>
      BY <1>1, <1>3, <2>1, TrackerAt
    <3> QED
      BY <1>4, <2>1, <3>1, ReaderNames
  <2>2. CASE t \in Readers
    <3>1. /\ Tail(todo[t]) = IF x = "drain" THEN <<"tell", "loop">> ELSE <<"loop">>
          /\ fd /\ tid = t /\ lvgl # t
      BY <1>1, <1>3, <2>2, ReaderAt
    <3> QED
      BY <1>4, <2>2, <3>1, ReaderNames
  <2> QED
    BY <2>1, <2>2
<1>6. todo'[t] = s /\ \A u \in Threads \ {t} : todo'[u] = todo[u]
  BY <1>1, <1>2, <1>4, <1>5, DoneThen
<1>7. s # <<"unlock", "loop">> \/ t = "ht"
  BY <1>5, ReaderNames
<1>8. Reading'
  <2>1. t \in Readers => s \in ReaderPrograms
    BY <1>5 DEF ReaderPrograms
  <2>2. t = "ht" => s \in {<<>>, <<"drain", "tell">>, <<"tell">>}
    BY <1>5
  <2> QED
    BY <1>2, <1>4, <1>5, <1>6, <1>7, <2>1, <2>2, Private
<1>9. (Pairing => Pairing') /\ (NoStart => NoStart')
  BY <1>2 DEF Pairing, NoStart
<1>10. Control'
  BY <1>2, <1>4, <1>6, <1>9, Undisturbed
<1> QED
  BY <1>8, <1>10

LEMMA LoopControl ==
  ASSUME BackpackInv, NEW t \in Readers, ReaderInit(t) \/ ReaderExit(t)
  PROVE  Control' /\ Reading'
<1>1. TypeOK /\ Reading /\ "init" \in Steps /\ "loop" \in Steps
  BY StepNames DEF BackpackInv
<1>2. /\ UNCHANGED <<lvgl, enable, booted, fd, tid, slot, busy, polls, repower, armed, power,
                     asked, line, bound>>
      /\ Done(t)
  BY DEF ReaderInit, ReaderExit, locks, esp32, response, watchdog, chip
<1>3. PICK x \in {"init", "loop"} : At(t, x)
  BY DEF ReaderInit, ReaderExit
<1>4. t \in Threads \ {"main", "input"} /\ {"main", "input"} \subseteq Threads /\ t # "ht"
  BY DEF Threads, Readers
<1>5. PICK s \in {<<>>, <<"loop">>} :
        s = Tail(todo[t]) /\ s \in Seq(Steps) /\ fd /\ tid = t /\ lvgl # t
  BY <1>1, <1>3, ReaderAt, ReaderNames
<1>6. todo'[t] = s /\ \A u \in Threads \ {t} : todo'[u] = todo[u]
  BY <1>1, <1>2, <1>4, <1>5, DoneThen
<1>7. s # <<"unlock", "loop">> /\ s \in ReaderPrograms
  BY <1>5, ReaderNames DEF ReaderPrograms
<1>8. Reading'
  BY <1>2, <1>4, <1>5, <1>6, <1>7, Private
<1>9. (Pairing => Pairing') /\ (NoStart => NoStart')
  BY <1>2 DEF Pairing, NoStart
<1>10. Control'
  BY <1>2, <1>4, <1>6, <1>9, Undisturbed
<1> QED
  BY <1>8, <1>10

LEMMA ReceiveControl ==
  ASSUME BackpackInv, NEW t \in Readers, Receive(t)
  PROVE  Control' /\ Reading'
<1>1. TypeOK /\ Reading /\ "loop" \in Steps /\ At(t, "loop")
  BY StepNames DEF BackpackInv, Receive
<1>2. /\ UNCHANGED <<lvgl, enable, booted, fd, tid, busy, polls, repower, armed, power, asked,
                     bound>>
      /\ line # <<>> /\ line' = Tail(line)
  BY DEF Receive, locks, esp32, watchdog
<1>3. t \in Threads \ {"main", "input"} /\ {"main", "input"} \subseteq Threads /\ t # "ht"
  BY DEF Threads, Readers
<1>4. Tail(todo[t]) = <<>> /\ fd /\ tid = t /\ lvgl # t /\ todo[t] \in ReaderPrograms
  BY <1>1, ReaderAt DEF Reading
<1>5. PICK s \in ReaderPrograms :
        /\ todo'[t] = s /\ s # <<"unlock", "loop">>
        /\ \A u \in Threads \ {t} : todo'[u] = todo[u]
  <2>1. CASE UNCHANGED todo
    BY <1>1, <1>4, <2>1 DEF Reading
  <2>2. CASE Then(t, send("tell") \o <<"loop">>)
    <3>1. PICK a \in Steps, b \in Steps, c \in Steps : a = "drain" /\ b = "tell" /\ c = "loop"
      BY StepNames
    <3>2. <<a, b, c>> = <<a, b>> \o <<c>>
      BY Joined
    <3>3. send("tell") \o <<"loop">> = <<"drain", "tell", "loop">>
      BY <3>1, <3>2 DEF send
    <3>4. <<"drain", "tell", "loop">> \o <<>> = <<"drain", "tell", "loop">>
      BY ReaderNames, ConcatEmptySeq
    <3> QED
      BY <1>1, <1>3, <1>4, <2>2, <3>3, <3>4, Elsewhere, ReaderNames DEF ReaderPrograms
  <2>3. CASE Then(t, <<"lock", "unlock", "loop">>)
    <3>1. <<"lock", "unlock", "loop">> \o <<>> = <<"lock", "unlock", "loop">>
      BY ReaderNames, ConcatEmptySeq
    <3> QED
      BY <1>1, <1>3, <1>4, <2>3, <3>1, Elsewhere, ReaderNames DEF ReaderPrograms
  <2> QED
    BY <2>1, <2>2, <2>3 DEF Receive
<1>6. Reading'
  BY <1>2, <1>3, <1>4, <1>5, Private
<1>7. /\ \A i \in 1 .. Len(line') : \E j \in 1 .. Len(line) : line'[i] = line[j]
      /\ \E j \in 1 .. Len(line) : Head(line) = line[j]
      /\ slot' \in {slot, Head(line)}
  BY <1>1, <1>2, FirstOfLine DEF Receive
<1>8. NoStart => NoStart'
  BY <1>2, <1>7 DEF NoStart
<1>9. Pairing /\ power => Pairing'
  BY <1>2, <1>7 DEF Pairing, BackpackInv, Chip
<1>10. Control'
  BY <1>2, <1>3, <1>5, <1>8, <1>9, Undisturbed
<1> QED
  BY <1>6, <1>10

LEMMA TrackerControl ==
  ASSUME BackpackInv, HeadTracker
  PROVE  Control' /\ Reading'
<1>1. TypeOK /\ "ht" \in Threads /\ {"main", "input"} \subseteq Threads \ {"ht"}
      /\ Readers \subseteq Threads \ {"ht"}
  BY DEF BackpackInv, Threads, Readers
<1>2. todo'["ht"] = <<"drain", "tell">> /\ \A u \in Threads \ {"ht"} : todo'[u] = todo[u]
  BY <1>1 DEF HeadTracker, send, TypeOK
<1>3. UNCHANGED <<lvgl, enable, booted, fd, tid, slot, busy, polls, repower, armed, power, asked,
                  line, bound>>
  BY DEF HeadTracker, locks, esp32, response, watchdog, chip
<1>4. (Pairing => Pairing') /\ (NoStart => NoStart')
  BY <1>3 DEF Pairing, NoStart
<1>5. Control'
  BY <1>1, <1>2, <1>3, <1>4, Undisturbed
<1>6. Reading'
  BY <1>1, <1>2, <1>3, Private
<1> QED
  BY <1>5, <1>6

LEMMA RightControl ==
  ASSUME BackpackInv, RightButton
  PROVE  Control' /\ Reading'
<1>1. UNCHANGED <<todo, lvgl, enable, booted, fd, tid, slot, busy, polls, repower, armed, power,
                  asked, line, bound>>
  BY DEF RightButton, locks, esp32, watchdog, chip
<1>2. (Pairing => Pairing') /\ (NoStart => NoStart')
  BY <1>1 DEF Pairing, NoStart
<1> QED
  BY <1>1, <1>2, Undisturbed DEF BackpackInv, Reading

LEMMA BusyControl ==
  ASSUME BackpackInv, BusyEnds
  PROVE  Control' /\ Reading'
<1>1. /\ UNCHANGED <<todo, lvgl, enable, booted, fd, tid, slot, polls, repower, armed, power,
                     asked, line, bound>>
      /\ busy = "bind" => todo["input"] = <<>>
  BY DEF BusyEnds, locks, esp32, response, watchdog, chip
<1>2. todo["input"] # <<>> => ~Pairing
  BY <1>1 DEF Pairing
<1>3. NoStart => NoStart'
  BY <1>1 DEF NoStart
<1> QED
  BY <1>1, <1>2, <1>3, Undisturbed DEF BackpackInv, Reading

LEMMA DeviceControl ==
  ASSUME BackpackInv, Device
  PROVE  Control' /\ Reading' /\ Chip'
<1>1. /\ UNCHANGED <<todo, lvgl, enable, booted, fd, tid, slot, busy, polls, repower, armed, power>>
      /\ power
  BY DEF Device, Backpack, locks, esp32, response, watchdog
<1>2. bound => bound'
  BY DEF Device, Backpack, BackpackAnswers, BackpackBinds, BackpackCommands, BackpackHangs
<1>3. \/ UNCHANGED line
      \/ \E m \in Answers \cup Commands :
           line' = Append(line, m) /\ (m = "O" => bound') /\ (NoStart => m # "P")
  <2>1. CASE BackpackAnswers
    <3>1. asked \in Seq(Requests) /\ asked # <<>>
      BY <2>1 DEF BackpackAnswers, BackpackInv, TypeOK
    <3>2. Head(asked) \in Requests /\ Head(asked) = asked[1] /\ 1 \in 1 .. Len(asked)
      BY <3>1, HeadTailProperties, EmptySeq, LenProperties
    <3>3. line' = Append(line, IF Head(asked) \in Modes THEN "P" ELSE Head(asked))
      BY <2>1 DEF BackpackAnswers, Says
    <3>4. NoStart => Head(asked) \notin Modes
      BY <3>2 DEF NoStart
    <3>5. (IF Head(asked) \in Modes THEN "P" ELSE Head(asked)) \in Answers \ {"O"}
      BY <3>2 DEF Requests, Answers, Modes
    <3>6. NoStart => (IF Head(asked) \in Modes THEN "P" ELSE Head(asked)) # "P"
      BY <3>2, <3>4 DEF Requests, Modes
    <3> QED
      BY <3>3, <3>5, <3>6
  <2>2. CASE BackpackBinds
    BY <2>2 DEF BackpackBinds, Says, Answers
  <2>3. CASE BackpackCommands
    BY <2>3 DEF BackpackCommands, Says, Commands
  <2>4. CASE BackpackHangs
    BY <2>4 DEF BackpackHangs
  <2> QED
    BY <2>1, <2>2, <2>3, <2>4 DEF Device, Backpack
<1>4. /\ \A i \in 1 .. Len(line') : line'[i] = "O" =>
           bound' \/ \E j \in 1 .. Len(line) : line'[i] = line[j]
      /\ NoStart => \A i \in 1 .. Len(line') : line'[i] # "P"
  <2>1. TypeOK
    BY DEF BackpackInv
  <2>2. CASE UNCHANGED line
    BY <2>2 DEF NoStart
  <2>3. ASSUME NEW m \in Answers \cup Commands,
               line' = Append(line, m), m = "O" => bound', NoStart => m # "P"
        PROVE  /\ \A i \in 1 .. Len(line') : line'[i] = "O" =>
                    bound' \/ \E j \in 1 .. Len(line) : line'[i] = line[j]
               /\ NoStart => \A i \in 1 .. Len(line') : line'[i] # "P"
    <3>1. \A i \in 1 .. Len(line') : line'[i] = m \/ \E j \in 1 .. Len(line) : line'[i] = line[j]
      BY <2>1, <2>3, Said
    <3> QED
      BY <2>3, <3>1 DEF NoStart
  <2> QED
    BY <1>3, <2>2, <2>3
<1>5. NoStart => NoStart'
  <2>1. asked' = asked \/ (asked # <<>> /\ asked' = Tail(asked))
    BY DEF Device, Backpack, BackpackAnswers, BackpackBinds, BackpackCommands, BackpackHangs
  <2>2. \A i \in 1 .. Len(asked') : \E j \in 1 .. Len(asked) : asked'[i] = asked[j]
    <3>1. asked \in Seq(Requests)
      BY DEF BackpackInv, TypeOK
    <3>2. CASE asked # <<>> /\ asked' = Tail(asked)
      <4>1. /\ Len(asked') = Len(asked) - 1 /\ Len(asked) \in Nat \ {0}
            /\ \A i \in 1 .. Len(asked') : asked'[i] = asked[i + 1]
        BY <3>1, <3>2, HeadTailProperties, EmptySeq, LenProperties
      <4>2. \A i \in 1 .. Len(asked') : i + 1 \in 1 .. Len(asked)
        BY <4>1
      <4> QED
        BY <4>1, <4>2
    <3> QED
      BY <2>1, <3>2
  <2> QED
    BY <1>1, <1>4, <2>2 DEF NoStart
<1>6. Pairing => Pairing'
  BY <1>1, <1>2 DEF Pairing
<1>7. Control'
  BY <1>1, <1>2, <1>5, <1>6, Undisturbed
<1>8. Reading'
  BY <1>1 DEF BackpackInv, Reading
<1>9. Chip'
  <2>1. fd /\ power
    BY <1>1, Served
  <2> QED
    BY <1>1, <1>2, <1>4, <2>1 DEF BackpackInv, Chip
<1> QED
  BY <1>7, <1>8, <1>9
-----------------------------------------------------------------------------
(* Every step of a worker, and every click.                                *)
LEMMA WorkerLock ==
  ASSUME BackpackInv, NEW t \in Workers, Lock(t)
  PROVE  t = "input" /\ At(t, "retake")
<1>1. TypeOK /\ "lock" \in Steps /\ "retake" \in Steps
  BY StepNames DEF BackpackInv
<1>2. ASSUME NEW p \in Phases, NEW k \in Ends, Doing(t, p, k)
      PROVE  FALSE
  <2>1. \A x \in Steps : At(t, x) =>
          x = IF p # "nothing" THEN First(p) ELSE IF k = "arm" THEN "arm"
              ELSE IF k \in {"wifi", "bind"} THEN "awaitP" ELSE "unlock"
    BY <1>1, <1>2, Heads
  <2> QED
    BY <1>1, <2>1, PhaseAt DEF Lock
<1>3. At(t, "retake")
  BY <1>1, <1>2, Worker DEF Lock
<1>4. CASE t = "main"
  <2>1. todo["main"] # <<>>
    BY <1>3, <1>4, StepNames DEF At, doing
  <2>2. PICK u \in Workers, p \in Phases, k \in Ends : Doing(u, p, k)
    BY <2>1 DEF BackpackInv, Control, Resting
  <2> QED
    BY <1>2, <1>4, <2>1, <2>2 DEF Doing, Workers
<1> QED
  BY <1>3, <1>4 DEF Workers

LEMMA WorkerControl ==
  ASSUME BackpackInv, NEW t \in Workers, StepOf(t)
  PROVE  Control'
<1>1. \A x \in Requests \cup {"drain", "tell", "open", "settle", "disable", "join", "timers",
                              "pollSTATUS", "pollVERSION", "uid", "repower", "watch", "miss"} :
        At(t, x) => \E p \in Phases, k \in Ends : Doing(t, p, k)
  BY Worker, StepNames DEF Requests, Modes
<1>2. CASE Lock(t)
  BY <1>2, WorkerLock, RetakeControl
<1>3. CASE Unlock(t)
  BY <1>3, UnlockControl
<1>4. CASE Drain(t)
  BY <1>1, <1>4, DrainControl DEF Drain
<1>5. CASE Ask(t)
  <2>1. \E p \in Phases, k \in Ends : Doing(t, p, k)
    BY <1>1, <1>5 DEF Ask
  <2> QED
    BY <1>5, <2>1, AskControl
<1>6. CASE Tell(t)
  BY <1>1, <1>6, TellControl DEF Tell
<1>7. CASE OpenUart(t)
  <2>1. \E p \in Phases, k \in Ends : Doing(t, p, k)
    BY <1>1, <1>7 DEF OpenUart
  <2> QED
    BY <1>7, <2>1, OpenControl
<1>8. CASE Settle(t)
  <2>1. \E p \in Phases, k \in Ends : Doing(t, p, k)
    BY <1>1, <1>8 DEF Settle
  <2> QED
    BY <1>8, <2>1, SettleControl
<1>9. CASE disable_esp32(t)
  <2>1. \E p \in Phases, k \in Ends : Doing(t, p, k)
    BY <1>1, <1>9 DEF disable_esp32
  <2> QED
    BY <1>9, <2>1, DisableControl
<1>10. CASE Join(t)
  <2>1. \E p \in Phases, k \in Ends : Doing(t, p, k)
    BY <1>1, <1>10 DEF Join
  <2> QED
    BY <1>10, <2>1, JoinControl
<1>11. CASE Timer(t)
  <2>1. \E p \in Phases, k \in Ends : Doing(t, p, k)
    BY <1>1, <1>11 DEF Timer, RunTimer, NoTimer
  <2> QED
    BY <1>11, <2>1, TimerControl
<1>12. CASE Poll(t)
  <2>1. \E p \in Phases, k \in Ends : Doing(t, p, k)
    BY <1>1, <1>12, Polls DEF Poll
  <2> QED
    BY <1>12, <2>1, PollControl
<1>13. CASE RequestUid(t)
  BY <1>1, <1>13, UidControl DEF RequestUid
<1>14. CASE Repower(t)
  BY <1>1, <1>14, RepowerControl DEF Repower
<1>15. CASE Watch(t)
  <2>1. \E p \in Phases, k \in Ends : Doing(t, p, k)
    BY <1>1, <1>15 DEF Watch
  <2> QED
    BY <1>15, <2>1, WatchControl
<1>16. CASE Miss(t)
  <2>1. \E p \in Phases, k \in Ends : Doing(t, p, k)
    BY <1>1, <1>16 DEF Miss
  <2> QED
    BY <1>16, <2>1, MissControl
<1>17. CASE Arm
  BY <1>17, ArmControl
<1>18. CASE Listen \/ AwaitAgain \/ AwaitStart \/ Started \/ AwaitBind \/ ShowResult
  BY <1>18, ListenControl, AgainControl, StartControl, StartedControl, BindControl, ShowControl
<1>19. t \notin Readers
  BY DEF Workers, Readers
<1> QED
  BY <1>2, <1>3, <1>4, <1>5, <1>6, <1>7, <1>8, <1>9, <1>10, <1>11, <1>12, <1>13, <1>14, <1>15,
     <1>16, <1>17, <1>18, <1>19 DEF StepOf

LEMMA Kept ==
  ASSUME BackpackInv, UNCHANGED <<fd, tid>>, \A u \in Readers \cup {"ht"} : todo'[u] = todo[u],
         lvgl' = lvgl \/ {lvgl, lvgl'} \cap (Readers \cup {"ht"}) = {}
  PROVE  Reading'
<1>1. ASSUME NEW r \in Readers
      PROVE  /\ todo'[r] \in ReaderPrograms
             /\ todo'[r] = <<"unlock", "loop">> <=> lvgl' = r
             /\ todo'[r] # <<>> => fd' /\ tid' = r
  BY DEF BackpackInv, Reading
<1>2. todo'["ht"] \in {<<>>, <<"drain", "tell">>, <<"tell">>} /\ lvgl' # "ht"
  BY DEF BackpackInv, Reading
<1> QED
  BY <1>1, <1>2 DEF Reading

(* Whoever cuts the power waits for the reader, and whoever opens the UART *)
(* finds none.                                                             *)
LEMMA OpenReading ==
  ASSUME BackpackInv, NEW t \in Workers, OpenUart(t)
  PROVE  Reading' /\ Chip' /\ ~power
<1>1. TypeOK /\ Reading /\ Chip
  BY DEF BackpackInv
<1>2. PICK p \in Phases, k \in Ends : Doing(t, p, k)
  BY Worker, StepNames DEF OpenUart
<1>3. p \in {"open", "open_uid"}
  BY <1>1, <1>2, Heads, PhaseAt, StepNames DEF OpenUart
<1>4. ~fd /\ ~power /\ line = <<>> /\ asked = <<>> /\ \A r \in Readers : todo[r] = <<>>
  BY <1>1, <1>2, <1>3 DEF Doing, Powered, Opening, Chip, Reading
<1>5. PICK r \in Readers :
        tid' = r /\ todo' = [todo EXCEPT ![t] = Tail(@), ![r] = <<"init", "loop">>]
  BY DEF OpenUart, Readers
<1>6. /\ t \in Threads \ (Readers \cup {"ht"}) /\ Readers \subseteq Threads /\ "ht" \in Threads
      /\ "ht" \notin Readers
  BY DEF Workers, Threads, Readers
<1>7. /\ todo'[r] = <<"init", "loop">> /\ todo'["ht"] = todo["ht"]
      /\ \A u \in Readers \ {r} : todo'[u] = <<>>
  BY <1>1, <1>4, <1>5, <1>6 DEF TypeOK
<1>8. fd' /\ ~power' /\ UNCHANGED <<lvgl, asked, line, repower, busy>>
  BY DEF OpenUart, locks
<1>9. \A u \in Readers : lvgl # u
  BY <1>1, <1>4, ReaderNames DEF Reading
<1>10. ASSUME NEW u \in Readers
       PROVE  /\ todo'[u] \in ReaderPrograms
              /\ todo'[u] = <<"unlock", "loop">> <=> lvgl' = u
              /\ todo'[u] # <<>> => fd' /\ tid' = u
  <2>1. todo'[u] # <<"unlock", "loop">> /\ todo'[u] \in ReaderPrograms
    BY <1>7, ReaderNames DEF ReaderPrograms
  <2> QED
    BY <1>5, <1>7, <1>8, <1>9, <2>1
<1>11. Reading'
  BY <1>1, <1>7, <1>8, <1>10 DEF Reading
<1>12. Chip'
  BY <1>1, <1>4, <1>5, <1>8 DEF Chip
<1> QED
  BY <1>4, <1>11, <1>12

LEMMA JoinReading ==
  ASSUME BackpackInv, NEW t \in Workers, Join(t)
  PROVE  Reading' /\ Chip'
<1>1. TypeOK /\ Reading /\ Chip
  BY DEF BackpackInv
<1>2. PICK p \in Phases, k \in Ends : Doing(t, p, k)
  BY Worker, StepNames DEF Join
<1>3. p \in {"join", "cycling"}
  BY <1>1, <1>2, Heads, PhaseAt, StepNames DEF Join
<1>4. fd /\ ~power /\ tid \in Readers /\ \A r \in Readers : todo[r] = <<>>
  BY <1>1, <1>2, <1>3 DEF Doing, Powered, Cycling, Chip, Reading, Join
<1>5. /\ t \in Threads \ (Readers \cup {"ht"}) /\ Readers \subseteq Threads /\ "ht" \in Threads
      /\ "ht" \notin Readers
  BY DEF Workers, Threads, Readers
<1>6. \A u \in Threads \ {t} : todo'[u] = todo[u]
  BY <1>1, <1>5, Elsewhere DEF Join, Done
<1>7. ~fd' /\ line' = <<>> /\ UNCHANGED <<lvgl, tid, power, asked, bound, repower, busy>>
  BY DEF Join, locks
<1>8. Reading'
  <2>1. ASSUME NEW u \in Readers
        PROVE  /\ todo'[u] \in ReaderPrograms
               /\ todo'[u] = <<"unlock", "loop">> <=> lvgl' = u
               /\ todo'[u] # <<>> => fd' /\ tid' = u
    BY <1>1, <1>4, <1>5, <1>6, <1>7 DEF Reading
  <2>2. todo'["ht"] \in {<<>>, <<"drain", "tell">>, <<"tell">>} /\ lvgl' # "ht"
    BY <1>1, <1>5, <1>6, <1>7 DEF Reading
  <2> QED
    BY <2>1, <2>2 DEF Reading
<1>9. Chip'
  BY <1>1, <1>4, <1>7 DEF Chip
<1> QED
  BY <1>8, <1>9

LEMMA SettleChip ==
  ASSUME BackpackInv, NEW t \in Workers, Settle(t)
  PROVE  Chip'
<1>1. TypeOK /\ Chip
  BY DEF BackpackInv
<1>2. PICK p \in Phases, k \in Ends : Doing(t, p, k)
  BY Worker, StepNames DEF Settle
<1>3. p \in {"settle", "settle_uid"}
  BY <1>1, <1>2, Heads, PhaseAt, StepNames DEF Settle
<1>4. line = <<>> /\ fd
  BY <1>2, <1>3 DEF Doing, Powered, Opening
<1>5. power' = TRUE /\ UNCHANGED <<fd, tid, asked, line, bound, repower, busy>>
  BY DEF Settle, esp32
<1> QED
  BY <1>1, <1>4, <1>5, EmptySeq DEF Chip

LEMMA ShowChip ==
  ASSUME BackpackInv, ShowResult
  PROVE  Chip' /\ \A x \in Results : At("input", x) =>
           busy = "bind" /\ (x = "Success" => bound)
<1>1. PICK x \in Results : At("input", x)
  BY DEF ShowResult
<1>2. x \in Steps /\ x \notin {"listen", "awaitO", "retake"} /\ "input" \in Workers
  BY StepNames DEF Results, Workers
<1>3. PICK p \in Phases, k \in Ends : Doing("input", p, k)
  BY <1>1, <1>2, Worker
<1>4. p = x
  <2>1. x = IF p # "nothing" THEN First(p) ELSE IF k = "arm" THEN "arm"
            ELSE IF k \in {"wifi", "bind"} THEN "awaitP" ELSE "unlock"
    BY <1>1, <1>2, <1>3, Heads DEF BackpackInv
  <2> QED
    BY <2>1, PhaseAt DEF Results
<1>5. Pairing /\ (x = "Success" => bound)
  <2>1. p \notin Timed \cup Asking \cup Calm
    BY <1>4 DEF Timed, Asking, Calm, Watching, Opening, Cycling, Results
  <2>2. k = "unlock"
    BY <1>3, <2>1 DEF Doing, Flow, Ends, Asking, Timed
  <2> QED
    BY <1>3, <1>4, <2>2 DEF Doing, Flow
<1>6. busy = "bind" /\ UNCHANGED <<fd, tid, power, asked, line, bound, busy>>
  BY <1>5 DEF Pairing, ShowResult, esp32, chip
<1>7. Chip'
  BY <1>6 DEF BackpackInv, Chip
<1>8. \A y \in Results : At("input", y) => y = x
  BY <1>1 DEF At
<1> QED
  BY <1>5, <1>6, <1>7, <1>8

(* The other steps of a worker only change its own list.                   *)
LEMMA OwnList ==
  ASSUME BackpackInv, NEW t \in Workers, StepOf(t), ~OpenUart(t), ~Join(t)
  PROVE  \A u \in Readers \cup {"ht"} : todo'[u] = todo[u]
<1>1. /\ TypeOK /\ t \in Threads /\ t \notin Readers \cup {"ht"}
      /\ Readers \cup {"ht"} \subseteq Threads /\ "input" \notin Readers \cup {"ht"}
      /\ "main" \notin Readers \cup {"ht"} /\ "input" \in Threads /\ "main" \in Threads
  BY DEF BackpackInv, Workers, Threads, Readers
<1>2. ASSUME NEW u \in Threads, NEW s, Then(u, s), u \notin Readers \cup {"ht"}
      PROVE  \A r \in Readers \cup {"ht"} : todo'[r] = todo[r]
  BY <1>1, <1>2, Elsewhere
<1>3. CASE Lock(t) \/ Unlock(t) \/ Drain(t) \/ Ask(t) \/ Tell(t) \/ Settle(t)
  BY <1>1, <1>2, <1>3 DEF Lock, Unlock, Drain, Ask, Tell, Settle, Done
<1>4. CASE disable_esp32(t)
  BY <1>1, <1>2, <1>4 DEF disable_esp32, Done
<1>5. CASE Timer(t)
  BY <1>1, <1>2, <1>5 DEF Timer, RunTimer, NoTimer, Done
<1>6. CASE Poll(t)
  <2>1. \E s : Then(t, s)
    BY <1>6 DEF Poll, Done
  <2> QED
    BY <1>1, <1>2, <2>1
<1>7. CASE RequestUid(t) \/ Repower(t) \/ Miss(t)
  <2>1. \E s : Then(t, s)
    BY <1>7 DEF RequestUid, Repower, Miss
  <2> QED
    BY <1>1, <1>2, <2>1
<1>8. CASE Watch(t)
  <2>1. \E s : Then(t, s)
    BY <1>8 DEF Watch, Done
  <2> QED
    BY <1>1, <1>2, <2>1
<1>9. CASE Arm \/ Listen
  BY <1>1, <1>2, <1>9 DEF Arm, Listen, Done
<1>10. CASE AwaitAgain
  BY <1>10 DEF AwaitAgain
<1>11. CASE AwaitStart
  <2>1. \/ Then("input", <<>>)
        \/ todo' = [todo EXCEPT !["input"] = <<"unlock">>]
    BY <1>11 DEF AwaitStart, Done
  <2>2. CASE todo' = [todo EXCEPT !["input"] = <<"unlock">>]
    BY <1>1, <2>2 DEF TypeOK
  <2> QED
    BY <1>1, <1>2, <2>1, <2>2
<1>12. CASE Started
  BY <1>1, <1>2, <1>12 DEF Started
<1>13. CASE AwaitBind
  <2>1. \E s : todo' = [todo EXCEPT !["input"] = s]
    BY <1>13 DEF AwaitBind
  <2> QED
    BY <1>1, <2>1 DEF TypeOK
<1>14. CASE ShowResult
  <2>1. \E s : Then("input", s)
    BY <1>14 DEF ShowResult
  <2> QED
    BY <1>1, <1>2, <2>1
<1> QED
  BY <1>1, <1>3, <1>4, <1>5, <1>6, <1>7, <1>8, <1>9, <1>10, <1>11, <1>12, <1>13, <1>14 DEF StepOf

LEMMA WorkerReading ==
  ASSUME BackpackInv, NEW t \in Workers, StepOf(t)
  PROVE  Reading'
<1>1. CASE OpenUart(t) \/ Join(t)
  BY <1>1, OpenReading, JoinReading
<1>2. CASE ~OpenUart(t) /\ ~Join(t)
  <2>1. t \notin Readers \cup {"ht"} /\ "none" \notin Readers \cup {"ht"}
    BY DEF Workers, Readers
  <2>2. CASE Lock(t)
    <3>1. lvgl = "none" /\ lvgl' = t /\ UNCHANGED <<fd, tid>>
      BY <2>2 DEF Lock, esp32
    <3> QED
      BY <1>2, <2>1, <3>1, OwnList, Kept
  <2>3. CASE Unlock(t)
    <3>1. PICK p \in Phases, k \in Ends : Doing(t, p, k)
      BY <2>3, Worker, StepNames DEF Unlock
    <3>2. lvgl \notin Readers \cup {"ht"}
      <4>1. k # "arm"
        <5>1. "unlock" = IF p # "nothing" THEN First(p) ELSE IF k = "arm" THEN "arm"
                         ELSE IF k \in {"wifi", "bind"} THEN "awaitP" ELSE "unlock"
          BY <2>3, <3>1, Heads, StepNames DEF Unlock, BackpackInv
        <5> QED
          BY <5>1, PhaseAt
      <4> QED
        BY <2>1, <3>1, <4>1 DEF Doing
    <3>3. lvgl' = "none" /\ UNCHANGED <<fd, tid>>
      BY <2>3 DEF Unlock, esp32
    <3> QED
      BY <1>2, <2>1, <3>2, <3>3, OwnList, Kept
  <2>4. CASE ~Lock(t) /\ ~Unlock(t)
    <3>1. UNCHANGED <<fd, tid, lvgl>>
      BY <1>2, <2>1, <2>4 DEF StepOf, Drain, Ask, Tell, Settle, disable_esp32, Timer, RunTimer,
         NoTimer, Poll, RequestUid, Repower, Watch, Miss, Arm, Listen, AwaitAgain, AwaitStart,
         Started, AwaitBind, ShowResult, esp32, locks
    <3> QED
      BY <1>2, <3>1, OwnList, Kept
  <2> QED
    BY <2>2, <2>3, <2>4
<1> QED
  BY <1>1, <1>2

LEMMA SameChip ==
  ASSUME BackpackInv, UNCHANGED <<fd, tid, power, asked, line, bound>>,
         repower' => busy' # "no"
  PROVE  Chip'
BY DEF BackpackInv, Chip

LEMMA WorkerChip ==
  ASSUME BackpackInv, NEW t \in Workers, StepOf(t)
  PROVE  Chip'
<1>1. CASE OpenUart(t) \/ Join(t) \/ Settle(t)
  BY <1>1, OpenReading, JoinReading, SettleChip
<1>2. CASE ShowResult
  BY <1>2, ShowChip
<1>3. CASE Ask(t)
  <2>1. UNCHANGED <<fd, tid, power, line, bound, repower, busy>> /\ (~power => asked' = asked)
    BY <1>3 DEF Ask, esp32
  <2> QED
    BY <2>1 DEF BackpackInv, Chip
<1>4. CASE disable_esp32(t)
  <2>1. /\ UNCHANGED <<fd, tid, line, repower, busy>>
        /\ \/ ~power' /\ asked' = <<>>
           \/ UNCHANGED <<power, asked, bound>>
    BY <1>4 DEF disable_esp32
  <2> QED
    BY <2>1 DEF BackpackInv, Chip
<1>5. CASE RequestUid(t)
  <2>1. UNCHANGED <<fd, tid, power, asked, line, bound>> /\ busy' = "burst"
    BY <1>5 DEF RequestUid, esp32, chip
  <2> QED
    BY <2>1, SameChip
<1>6. CASE Repower(t)
  <2>1. UNCHANGED <<fd, tid, power, asked, line, bound>> /\ ~repower'
    BY <1>6 DEF Repower, esp32, chip
  <2> QED
    BY <2>1, SameChip
<1>7. ASSUME UNCHANGED <<fd, tid, power, asked, line, bound, repower, busy>>
      PROVE  Chip'
  BY <1>7, SameChip DEF BackpackInv, Chip
<1>8. CASE Lock(t) \/ Unlock(t) \/ Drain(t) \/ Tell(t)
  BY <1>7, <1>8 DEF Lock, Unlock, Drain, Tell, esp32, chip
<1>9. CASE Timer(t) \/ Poll(t) \/ Watch(t) \/ Miss(t)
  BY <1>7, <1>9 DEF Timer, RunTimer, NoTimer, Poll, Watch, Miss, esp32, chip
<1>10. CASE Arm \/ Listen \/ AwaitAgain \/ AwaitStart \/ Started \/ AwaitBind
  BY <1>7, <1>10 DEF Arm, Listen, AwaitAgain, AwaitStart, Started, AwaitBind, esp32, chip
<1>11. t \notin Readers
  BY DEF Workers, Readers
<1> QED
  BY <1>1, <1>2, <1>3, <1>4, <1>5, <1>6, <1>8, <1>9, <1>10, <1>11 DEF StepOf

(* What begins.                                                            *)
Beginning ==
  \/ \E timer \in due : MainLoop(timer)
  \/ Boot \/ PageEnter \/ VersionEnter \/ ClickPower \/ ClickVtx \/ ClickWifi \/ ClickBind

LEMMA BeginningControl ==
  ASSUME BackpackInv, Beginning
  PROVE  Control'
BY MainLoopControl, BootControl, EnterControl, VersionControl, PowerControl, VtxControl,
   WifiControl, PairControl DEF Beginning

LEMMA BeginningReading ==
  ASSUME BackpackInv, Beginning
  PROVE  Reading'
<1>1. /\ TypeOK /\ Readers \cup {"ht"} \subseteq Threads \ {"main", "input"}
      /\ {"none", "main", "input"} \cap (Readers \cup {"ht"}) = {}
  BY DEF BackpackInv, Threads, Readers
<1>2. UNCHANGED <<fd, tid>>
  BY DEF Beginning, MainLoop, Boot, PageEnter, VersionEnter, ClickPower, ClickVtx, ClickWifi,
     ClickBind, esp32
<1>3. ASSUME NEW t \in {"main", "input"}, NEW s, Enter(t, s)
      PROVE  /\ \A u \in Readers \cup {"ht"} : todo'[u] = todo[u]
             /\ {lvgl, lvgl'} \cap (Readers \cup {"ht"}) = {}
  BY <1>1, <1>3 DEF Enter, TypeOK
<1>4. CASE \E timer \in due : MainLoop(timer)
  BY <1>2, <1>3, <1>4, Kept DEF MainLoop
<1>5. CASE Boot
  <2>1. (\A u \in Readers \cup {"ht"} : todo'[u] = todo[u]) /\ lvgl' = lvgl
    BY <1>1, <1>5 DEF Boot, TypeOK, locks
  <2> QED
    BY <1>2, <2>1, Kept
<1>6. ASSUME NEW kind, NEW s, Click(kind, s)
      PROVE  Reading'
  BY <1>2, <1>3, <1>6, Kept DEF Click
<1>7. CASE ClickPower
  BY <1>6, <1>7 DEF ClickPower
<1>8. CASE PageEnter
  BY <1>6, <1>8 DEF PageEnter
<1>9. CASE VersionEnter \/ ClickVtx \/ ClickWifi \/ ClickBind
  BY <1>6, <1>9 DEF VersionEnter, ClickVtx, ClickWifi, ClickBind
<1> QED
  BY <1>4, <1>5, <1>7, <1>8, <1>9 DEF Beginning

LEMMA BeginningChip ==
  ASSUME BackpackInv, Beginning
  PROVE  Chip'
<1>1. /\ UNCHANGED <<fd, tid, power, asked, line, bound, repower>>
      /\ busy' \in {busy, "burst", "wifi", "bind"}
  BY DEF Beginning, MainLoop, Boot, PageEnter, VersionEnter, ClickPower, ClickVtx, ClickWifi,
     ClickBind, esp32, chip
<1> QED
  BY <1>1, SameChip DEF BackpackInv, Chip

(* What is neither.                                                        *)
LEMMA OthersChip ==
  ASSUME BackpackInv,
         \/ \E t \in Readers : Lock(t) \/ Unlock(t) \/ Drain(t) \/ Tell(t) \/ ReaderStep(t)
                               \/ ReadError(t)
         \/ Drain("ht") \/ Tell("ht") \/ HeadTracker \/ RightButton \/ BusyEnds
  PROVE  Chip'
<1>1. CASE \E t \in Readers : Receive(t)
  <2>1. /\ UNCHANGED <<fd, tid, power, asked, bound, repower, busy>>
        /\ line # <<>> /\ line' = Tail(line)
    BY <1>1 DEF Receive, esp32
  <2>2. \A i \in 1 .. Len(line') : \E j \in 1 .. Len(line) : line'[i] = line[j]
    BY <2>1, FirstOfLine DEF BackpackInv
  <2> QED
    BY <2>1, <2>2 DEF BackpackInv, Chip
<1>2. CASE BusyEnds
  <2>1. UNCHANGED <<fd, tid, power, asked, bound, line>> /\ ~repower'
    BY <1>2 DEF BusyEnds, esp32, chip
  <2> QED
    BY <2>1, SameChip
<1>3. ASSUME UNCHANGED <<fd, tid, power, asked, line, bound, repower, busy>>
      PROVE  Chip'
  BY <1>3, SameChip DEF BackpackInv, Chip
<1>4. CASE \E t \in Readers \cup {"ht"} : Lock(t) \/ Unlock(t) \/ Drain(t) \/ Tell(t)
  BY <1>3, <1>4 DEF Lock, Unlock, Drain, Tell, esp32, chip
<1>5. CASE \E t \in Readers : ReaderInit(t) \/ ReaderStop(t) \/ ReadError(t)
  BY <1>3, <1>5 DEF ReaderInit, ReaderStop, ReadError, ReaderExit, esp32, chip
<1>6. CASE HeadTracker \/ RightButton
  BY <1>3, <1>6 DEF HeadTracker, RightButton, esp32, chip
<1> QED
  BY <1>1, <1>2, <1>4, <1>5, <1>6 DEF ReaderStep
-----------------------------------------------------------------------------
(* The types.                                                              *)
LEMMA TypedThen ==
  ASSUME TypeOK, NEW t \in Threads, todo[t] # <<>>, NEW s \in Seq(Steps), Then(t, s)
  PROVE  todo' \in [Threads -> Seq(Steps)]
<1>1. Tail(todo[t]) \in Seq(Steps)
  BY HeadTailProperties DEF TypeOK
<1>2. s \o Tail(todo[t]) \in Seq(Steps)
  BY <1>1, ConcatProperties
<1> QED
  BY <1>2 DEF Then, TypeOK

LEMMA TypedDone ==
  ASSUME TypeOK, NEW t \in Threads, NEW x \in Steps, At(t, x), Done(t)
  PROVE  todo' \in [Threads -> Seq(Steps)]
<1>1. todo[t] # <<>>
  BY StepNames DEF At, doing
<1>2. <<>> \in Seq(Steps)
  BY EmptySeq
<1> QED
  BY <1>1, <1>2, TypedThen DEF Done

LEMMA Spelled ==
  /\ \A q \in {"STATUS", "VERSION", "tell", "W", "B"} : send(q) \in Seq(Steps)
  /\ send("VERSION") \o <<"miss">> \in Seq(Steps)
  /\ send("tell") \o <<"loop">> \in Seq(Steps)
  /\ enable_esp32 \in Seq(Steps) /\ enable_esp32 \o <<"uid">> \in Seq(Steps)
  /\ <<>> \o <<"uid">> \in Seq(Steps)
  /\ <<"disable">> \o enable_esp32 \in Seq(Steps) /\ enable_esp32 \o <<"arm">> \in Seq(Steps)
  /\ \A x \in Steps : <<x>> \in Seq(Steps)
  /\ \A x, y, z \in Steps : <<x, y, z>> \in Seq(Steps)
  /\ <<>> \in Seq(Steps)
  /\ <<"timers", "unlock", "listen", "awaitO", "retake">> \in Seq(Steps)
  /\ <<"lock", "unlock", "loop">> \in Seq(Steps)
  /\ <<"timers", "awaitP">> \in Seq(Steps) /\ <<"timers", "awaitP", "started">> \in Seq(Steps)
<1>1. \A x, y \in Steps : <<x, y>> \in Seq(Steps)
  BY Two
<1>2. \A x \in Steps : <<x>> \in Seq(Steps)
  BY One
<1>3. \A x, y, z \in Steps : <<x, y, z>> \in Seq(Steps)
  BY Three
<1>4. \A a \in Seq(Steps), b \in Seq(Steps) : a \o b \in Seq(Steps)
  BY ConcatProperties
<1>5. \A q \in {"STATUS", "VERSION", "tell", "W", "B"} : send(q) \in Seq(Steps)
  BY <1>1, StepNames DEF send
<1>6. enable_esp32 \in Seq(Steps)
  BY <1>1, StepNames DEF enable_esp32
<1>7. <<>> \in Seq(Steps)
  BY EmptySeq
<1>8. <<"miss">> \in Seq(Steps) /\ <<"loop">> \in Seq(Steps) /\ <<"uid">> \in Seq(Steps)
      /\ <<"disable">> \in Seq(Steps) /\ <<"arm">> \in Seq(Steps)
  BY <1>2, StepNames
<1>9. <<"timers", "unlock", "listen", "awaitO", "retake">> \in Seq(Steps)
  <2>1. PICK x \in Steps, y \in Steps, z \in Steps, u \in Steps, v \in Steps :
          x = "timers" /\ y = "unlock" /\ z = "listen" /\ u = "awaitO" /\ v = "retake"
    BY StepNames
  <2>2. <<x, y, z, u, v>> \in Seq(Steps)
    BY Five
  <2> QED
    BY <2>1, <2>2
<1>10. /\ <<"lock", "unlock", "loop">> \in Seq(Steps) /\ <<"timers", "awaitP">> \in Seq(Steps)
       /\ <<"timers", "awaitP", "started">> \in Seq(Steps)
  BY <1>1, <1>3, StepNames
<1>11. /\ send("VERSION") \o <<"miss">> \in Seq(Steps)
       /\ send("tell") \o <<"loop">> \in Seq(Steps)
  BY <1>4, <1>5, <1>8
<1>12. /\ enable_esp32 \o <<"uid">> \in Seq(Steps) /\ <<>> \o <<"uid">> \in Seq(Steps)
       /\ <<"disable">> \o enable_esp32 \in Seq(Steps) /\ enable_esp32 \o <<"arm">> \in Seq(Steps)
  BY <1>4, <1>6, <1>7, <1>8
<1> QED
  BY <1>2, <1>3, <1>5, <1>6, <1>7, <1>9, <1>10, <1>11, <1>12

(* The lists of steps stay lists of steps.                                 *)
LEMMA TypedTodo ==
  ASSUME BackpackInv, Next
  PROVE  todo' \in [Threads -> Seq(Steps)]
<1>1. /\ TypeOK /\ "input" \in Threads /\ "main" \in Threads /\ "ht" \in Threads
      /\ Readers \subseteq Threads
  BY DEF BackpackInv, Threads
<1>2. ASSUME NEW t \in Threads, NEW x \in Steps, At(t, x), NEW s \in Seq(Steps), Then(t, s)
      PROVE  todo' \in [Threads -> Seq(Steps)]
  <2>1. todo[t] # <<>>
    BY <1>2, StepNames DEF At, doing
  <2> QED
    BY <1>1, <1>2, <2>1, TypedThen
<1>3. ASSUME NEW t \in Threads, NEW s \in Seq(Steps), todo' = [todo EXCEPT ![t] = s]
      PROVE  todo' \in [Threads -> Seq(Steps)]
  BY <1>1, <1>3 DEF TypeOK
<1>4. ASSUME NEW t \in Threads, StepOf(t)
      PROVE  todo' \in [Threads -> Seq(Steps)]
  <2>1. CASE Lock(t) \/ Unlock(t)
    BY <1>1, <2>1, TypedDone, StepNames DEF Lock, Unlock
  <2>2. CASE Drain(t) \/ Tell(t) \/ Settle(t) \/ Join(t)
    BY <1>1, <2>2, TypedDone, StepNames DEF Drain, Tell, Settle, Join
  <2>3. CASE Ask(t)
    BY <1>1, <2>3, TypedDone, StepNames DEF Ask, Requests, Modes
  <2>4. CASE OpenUart(t)
    <3>1. PICK r \in Readers : todo' = [todo EXCEPT ![t] = Tail(@), ![r] = <<"init", "loop">>]
      BY <2>4 DEF OpenUart, Readers
    <3>2. todo[t] # <<>>
      BY <2>4, StepNames DEF OpenUart, At, doing
    <3>3. Tail(todo[t]) \in Seq(Steps)
      BY <1>1, <3>2, HeadTailProperties DEF TypeOK
    <3> QED
      BY <1>1, <3>1, <3>3, ReaderNames DEF TypeOK
  <2>5. CASE disable_esp32(t)
    <3>1. At(t, "disable") /\ "disable" \in Steps /\ \E s \in {<<"join">>, <<>>} : Then(t, s)
      BY <2>5, StepNames DEF disable_esp32, Done
    <3>2. {<<"join">>, <<>>} \subseteq Seq(Steps)
      BY Spelled, StepNames
    <3> QED
      BY <1>2, <3>1, <3>2
  <2>6. CASE Timer(t)
    <3>1. At(t, "timers") /\ "timers" \in Steps
      BY <2>6, StepNames DEF Timer, RunTimer, NoTimer
    <3>2. \A timer \in due : timer \in Steps
      BY StepNames, Polls DEF due
    <3>3. \E s \in Seq(Steps) : Then(t, s)
      BY <2>6, <3>2, Spelled DEF Timer, RunTimer, NoTimer, Done
    <3> QED
      BY <1>2, <3>1, <3>3
  <2>7. CASE Poll(t)
    <3>1. \E x \in Steps : At(t, x)
      BY <2>7, StepNames, Polls DEF Poll
    <3>2. \E s \in Seq(Steps) : Then(t, s)
      BY <2>7, Polls, Spelled DEF Poll, Done
    <3> QED
      BY <1>2, <3>1, <3>2
  <2>8. CASE RequestUid(t)
    <3>1. At(t, "uid") /\ "uid" \in Steps /\ \E s \in Seq(Steps) : Then(t, s)
      BY <2>8, Spelled, StepNames DEF RequestUid
    <3> QED
      BY <1>2, <3>1
  <2>9. CASE Repower(t)
    <3>1. At(t, "repower") /\ "repower" \in Steps
      BY <2>9, StepNames DEF Repower
    <3>2. \E s \in Seq(Steps) : Then(t, s)
      <4>1. CASE enable
        BY <2>9, <4>1, Spelled DEF Repower
      <4>2. CASE ~enable
        BY <2>9, <4>2, Spelled DEF Repower
      <4> QED
        BY <4>1, <4>2
    <3> QED
      BY <1>2, <3>1, <3>2
  <2>10. CASE Watch(t)
    <3>1. At(t, "watch") /\ "watch" \in Steps /\ \E s \in Seq(Steps) : Then(t, s)
      BY <2>10, Spelled, StepNames DEF Watch, Done
    <3> QED
      BY <1>2, <3>1
  <2>11. CASE Miss(t)
    <3>1. At(t, "miss") /\ "miss" \in Steps /\ \E s \in Seq(Steps) : Then(t, s)
      BY <2>11, Spelled, StepNames DEF Miss
    <3> QED
      BY <1>2, <3>1
  <2>12. CASE t \in Readers /\ ReaderStep(t)
    <3>1. CASE ReaderInit(t) \/ ReaderStop(t)
      BY <1>1, <3>1, TypedDone, StepNames DEF ReaderInit, ReaderStop, ReaderExit
    <3>2. CASE Receive(t)
      <4>1. At(t, "loop") /\ "loop" \in Steps
        BY <3>2, StepNames DEF Receive
      <4>2. UNCHANGED todo \/ \E s \in Seq(Steps) : Then(t, s)
        BY <3>2, Spelled DEF Receive
      <4> QED
        BY <1>1, <1>2, <4>1, <4>2 DEF TypeOK
    <3> QED
      BY <2>12, <3>1, <3>2 DEF ReaderStep
  <2>13. CASE t = "main" /\ Arm
    BY <1>1, <2>13, TypedDone, StepNames DEF Arm
  <2>14. CASE Listen
    BY <1>1, <2>14, TypedDone, StepNames DEF Listen
  <2>15. CASE AwaitAgain
    BY <1>1, <2>15 DEF AwaitAgain, TypeOK
  <2>16. CASE AwaitStart
    <3>1. Done("input") \/ todo' = [todo EXCEPT !["input"] = <<"unlock">>]
      BY <2>16 DEF AwaitStart
    <3>2. At("input", "awaitP") /\ "awaitP" \in Steps /\ <<"unlock">> \in Seq(Steps)
      BY <2>16, Spelled, StepNames DEF AwaitStart
    <3>3. CASE Done("input")
      BY <1>1, <3>2, <3>3, TypedDone
    <3>4. CASE todo' = [todo EXCEPT !["input"] = <<"unlock">>]
      BY <1>1, <1>3, <3>2, <3>4
    <3> QED
      BY <3>1, <3>3, <3>4
  <2>17. CASE Started
    <3>1. At("input", "started") /\ "started" \in Steps /\ \E s \in Seq(Steps) : Then("input", s)
      BY <2>17, Spelled, StepNames DEF Started
    <3> QED
      BY <1>1, <1>2, <3>1
  <2>18. CASE AwaitBind
    <3>1. \E x \in Results : todo' = [todo EXCEPT !["input"] = <<"retake", x, "unlock">>]
      BY <2>18 DEF AwaitBind
    <3>2. \A x \in Results : <<"retake", x, "unlock">> \in Seq(Steps)
      BY Spelled, StepNames DEF Results
    <3> QED
      BY <1>1, <1>3, <3>1, <3>2
  <2>19. CASE ShowResult
    <3>1. \E x \in Steps : At("input", x)
      BY <2>19, StepNames DEF ShowResult, Results
    <3>2. \E s \in Seq(Steps) : Then("input", s)
      BY <2>19, Spelled, StepNames DEF ShowResult
    <3> QED
      BY <1>1, <1>2, <3>1, <3>2
  <2> QED
    BY <1>4, <2>1, <2>2, <2>3, <2>4, <2>5, <2>6, <2>7, <2>8, <2>9, <2>10, <2>11, <2>12, <2>13,
       <2>14, <2>15, <2>16, <2>17, <2>18, <2>19 DEF StepOf
<1>5. ASSUME NEW t \in Threads, NEW s \in Seq(Steps), Enter(t, s)
      PROVE  todo' \in [Threads -> Seq(Steps)]
  <2>1. <<"unlock">> \in Seq(Steps)
    BY Spelled, StepNames
  <2>2. s \o <<"unlock">> \in Seq(Steps)
    BY <2>1, ConcatProperties
  <2> QED
    BY <1>3, <1>5, <2>2 DEF Enter
<1>6. CASE \E timer \in due : MainLoop(timer)
  <2>1. \A timer \in due : <<timer>> \in Seq(Steps)
    BY StepNames, Polls, Spelled DEF due
  <2> QED
    BY <1>1, <1>5, <1>6, <2>1 DEF MainLoop
<1>7. CASE Boot
  <2>1. \E s \in Seq(Steps) : todo' = [todo EXCEPT !["main"] = s]
    BY <1>7, Spelled DEF Boot
  <2> QED
    BY <1>1, <1>3, <2>1
<1>8. ASSUME NEW kind, NEW s \in Seq(Steps), Click(kind, s)
      PROVE  todo' \in [Threads -> Seq(Steps)]
  BY <1>1, <1>5, <1>8 DEF Click
<1>9. CASE PageEnter
  <2>1. (IF enable THEN <<"uid">> ELSE <<>>) \in Seq(Steps)
    BY Spelled, StepNames
  <2> QED
    BY <1>8, <1>9, <2>1 DEF PageEnter
<1>10. CASE ClickPower
  <2>1. (IF enable' THEN enable_esp32 ELSE <<"disable">>) \in Seq(Steps)
    BY Spelled, StepNames
  <2> QED
    BY <1>8, <1>10, <2>1 DEF ClickPower
<1>11. CASE VersionEnter \/ ClickVtx
  BY <1>8, <1>11, Spelled DEF VersionEnter, ClickVtx
<1>12. CASE ClickWifi \/ ClickBind
  <2>1. /\ send("W") \o <<"timers", "awaitP">> \in Seq(Steps)
        /\ send("B") \o <<"timers", "awaitP", "started">> \in Seq(Steps)
    BY Spelled, ConcatProperties
  <2> QED
    BY <1>8, <1>12, <2>1 DEF ClickWifi, ClickBind
<1>13. CASE HeadTracker
  <2>1. send("tell") \in Seq(Steps)
    BY Spelled
  <2> QED
    BY <1>1, <1>3, <1>13, <2>1 DEF HeadTracker
<1>14. CASE RightButton \/ BusyEnds \/ Device
  BY <1>1, <1>14 DEF RightButton, BusyEnds, Device, Backpack, TypeOK
<1>15. CASE \E r \in Readers : ReadError(r)
  BY <1>1, <1>15, TypedDone, StepNames DEF ReadError, ReaderExit
<1> QED
  BY <1>4, <1>6, <1>7, <1>9, <1>10, <1>11, <1>12, <1>13, <1>14, <1>15 DEF Next, User

LEMMA SemTypes ==
  ASSUME TypeOK
  PROVE  /\ 0 \in 0 .. MaxSem /\ Raised \in 0 .. MaxSem
         /\ (IF sem > 0 THEN sem - 1 ELSE 0) \in 0 .. MaxSem
         /\ sem > 0 => sem - 1 \in 0 .. MaxSem
         /\ MaxPolls \in 0 .. MaxPolls /\ 0 \in 0 .. MaxPolls
BY BackpackAssumption DEF TypeOK, Raised

LEMMA WorkerTypes ==
  ASSUME BackpackInv, todo' \in [Threads -> Seq(Steps)], NEW t \in Threads, StepOf(t)
  PROVE  TypeOK'
<1>1. TypeOK
  BY DEF BackpackInv
<1>2. CASE Lock(t) \/ Unlock(t)
  BY <1>1, <1>2 DEF Lock, Unlock, TypeOK, esp32, response, watchdog, page, chip
<1>3. CASE Drain(t) \/ Tell(t)
  BY <1>1, <1>3, SemTypes DEF Drain, Tell, TypeOK, locks, esp32, watchdog, page, chip
<1>4. CASE Ask(t)
  <2>1. slot' = "none" /\ asked' \in Seq(Requests)
    <3>1. PICK q \in Requests :
            asked' = IF power /\ Len(asked) < MaxLine THEN Append(asked, q) ELSE asked
      BY <1>4 DEF Ask
    <3>2. Append(asked, q) \in Seq(Requests)
      BY <1>1, AppendProperties DEF TypeOK
    <3> QED
      BY <1>1, <1>4, <3>1, <3>2 DEF Ask, TypeOK
  <2> QED
    BY <1>1, <1>4, <2>1 DEF Ask, TypeOK, locks, esp32, watchdog, page
<1>5. CASE OpenUart(t)
  <2>1. tid' \in Readers
    BY <1>5 DEF OpenUart, Readers
  <2>2. UNCHANGED <<lvgl, enable, booted, stopping, slot, sem, cancelled, busy, polls,
                    repower, armed, misses, recovered, binding, label, headtracking,
                    pairing, hung, bound, asked, line>>
    BY <1>5 DEF OpenUart, locks, response, watchdog, page
  <2>3. fd' \in BOOLEAN /\ power' \in BOOLEAN
    BY <1>5 DEF OpenUart
  <2> QED
    BY <1>1, <2>1, <2>2, <2>3 DEF TypeOK
<1>6. CASE Settle(t)
  BY <1>1, <1>6 DEF Settle, TypeOK, locks, esp32, response, watchdog, page
<1>7. CASE disable_esp32(t)
  <2>1. asked' \in Seq(Requests)
    <3>1. asked' = <<>> \/ asked' = asked
      BY <1>7 DEF disable_esp32
    <3>2. <<>> \in Seq(Requests) /\ asked \in Seq(Requests)
      BY <1>1, EmptySeq DEF TypeOK
    <3> QED
      BY <3>1, <3>2
  <2>2. UNCHANGED <<lvgl, enable, booted, fd, tid, slot, sem, cancelled, busy, polls,
                    repower, armed, misses, recovered, binding, label, headtracking, line>>
    BY <1>7 DEF disable_esp32, locks, response, watchdog, page
  <2>3. /\ stopping' \in BOOLEAN /\ power' \in BOOLEAN /\ pairing' \in BOOLEAN
        /\ hung' \in BOOLEAN /\ bound' \in BOOLEAN
    BY <1>1, <1>7 DEF disable_esp32, TypeOK
  <2> QED
    BY <1>1, <2>1, <2>2, <2>3 DEF TypeOK
<1>8. CASE Join(t)
  <2>1. line' \in Seq(Answers \cup Commands)
    <3>1. line' = <<>>
      BY <1>8 DEF Join
    <3> QED
      BY <3>1
  <2>2. UNCHANGED <<lvgl, enable, booted, tid, stopping, slot, sem, cancelled, busy, polls,
                    repower, armed, misses, recovered, binding, label, headtracking, power,
                    pairing, hung, bound, asked>>
    BY <1>8 DEF Join, locks, response, watchdog, page
  <2>3. fd' \in BOOLEAN
    BY <1>8 DEF Join
  <2> QED
    BY <1>1, <2>1, <2>2, <2>3 DEF TypeOK
<1>9. CASE Timer(t)
  <2>1. UNCHANGED <<lvgl, enable, booted, fd, tid, stopping, slot, sem, cancelled, busy,
                    polls, repower, armed, misses, recovered, binding, label, headtracking,
                    power, pairing, hung, bound, asked, line>>
    BY <1>9 DEF Timer, RunTimer, NoTimer, locks, esp32, response, watchdog, page, chip
  <2> QED
    BY <1>1, <2>1 DEF TypeOK
<1>10. CASE Poll(t)
  <2>1. PICK k \in DOMAIN poll :
          /\ At(t, poll[k])
          /\ polls' \in {[polls EXCEPT ![k] = 0], [polls EXCEPT ![k] = @ - 1]}
    BY <1>10 DEF Poll
  <2>2. poll[k] \in {"pollSTATUS", "pollVERSION"} /\ poll[k] \in Steps
    BY Polls, StepNames
  <2>3. t \in Workers
    <3>1. Reading
      BY DEF BackpackInv
    <3>2. t \notin Readers /\ t # "ht"
      BY <1>1, <2>1, <2>2, <3>1, ReaderAt, TrackerAt
    <3> QED
      BY <3>2 DEF Threads, Workers
  <2>4. PICK p \in Phases, e \in Ends : Doing(t, p, e)
    BY <2>1, <2>2, <2>3, Worker
  <2>5. p = poll[k]
    <3>1. PICK x \in {"pollSTATUS", "pollVERSION"} : x = poll[k]
      BY <2>2
    <3>2. At(t, x) /\ x \in Steps
      BY <2>1, <3>1, StepNames
    <3>3. x = IF p # "nothing" THEN First(p) ELSE IF e = "arm" THEN "arm"
              ELSE IF e \in {"wifi", "bind"} THEN "awaitP" ELSE "unlock"
      BY <1>1, <2>3, <2>4, <3>2, Heads
    <3> QED
      BY <3>1, <3>3, PhaseAt
  <2>6. polls[k] > 0
    BY <2>4, <2>5, Polls DEF Doing, Powered
  <2>7. polls' \in [DOMAIN poll -> 0 .. MaxPolls]
    <3>1. polls \in [DOMAIN poll -> 0 .. MaxPolls] /\ MaxPolls \in Nat
      BY <1>1, BackpackAssumption DEF TypeOK
    <3>2. polls[k] - 1 \in 0 .. MaxPolls /\ 0 \in 0 .. MaxPolls
      BY <2>6, <3>1
    <3> QED
      BY <2>1, <3>1, <3>2
  <2>8. sem' \in 0 .. MaxSem
    BY <1>1, <1>10, SemTypes DEF Poll
  <2> QED
    BY <1>1, <1>10, <2>7, <2>8 DEF Poll, TypeOK, locks, esp32, watchdog, page, chip
<1>11. CASE RequestUid(t)
  <2>1. polls' \in [DOMAIN poll -> 0 .. MaxPolls]
    BY <1>1, <1>11, SemTypes DEF RequestUid, TypeOK
  <2>2. UNCHANGED <<lvgl, enable, booted, fd, tid, stopping, slot, sem, cancelled, repower,
                    armed, misses, recovered, binding, label, headtracking, power, pairing,
                    hung, bound, asked, line>>
        /\ busy' = "burst"
    BY <1>11 DEF RequestUid, locks, esp32, response, watchdog, page, chip
  <2> QED
    BY <1>1, <2>1, <2>2 DEF TypeOK
<1>12. CASE Repower(t)
  <2>1. UNCHANGED <<lvgl, enable, booted, fd, tid, stopping, slot, sem, cancelled, busy,
                    polls, armed, misses, recovered, binding, label, headtracking, power,
                    pairing, hung, bound, asked, line>>
        /\ repower' \in BOOLEAN
    BY <1>12 DEF Repower, locks, esp32, response, watchdog, page, chip
  <2> QED
    BY <1>1, <2>1 DEF TypeOK
<1>13. CASE Watch(t)
  <2>1. armed' \in BOOLEAN /\ misses' \in Nat /\ sem' \in 0 .. MaxSem
    BY <1>1, <1>13, SemTypes DEF Watch, TypeOK
  <2> QED
    BY <1>1, <1>13, <2>1 DEF Watch, TypeOK, locks, esp32, page, chip
<1>14. CASE Miss(t)
  <2>1. misses' \in Nat /\ recovered' \in BOOLEAN
    BY <1>1, <1>14 DEF Miss, TypeOK
  <2>2. UNCHANGED <<lvgl, enable, booted, fd, tid, stopping, slot, sem, cancelled, busy,
                    polls, repower, armed, binding, label, headtracking, power, pairing,
                    hung, bound, asked, line>>
    BY <1>14 DEF Miss, locks, esp32, response, page, chip
  <2> QED
    BY <1>1, <2>1, <2>2 DEF TypeOK
<1>15. CASE ReaderInit(t) \/ ReaderExit(t)
  <2>1. UNCHANGED <<lvgl, enable, booted, fd, tid, slot, sem, cancelled, busy, polls,
                    repower, armed, misses, recovered, binding, label, headtracking, power,
                    pairing, hung, bound, asked, line>>
        /\ stopping' \in BOOLEAN
    BY <1>1, <1>15 DEF ReaderInit, ReaderExit, TypeOK, locks, esp32, response, watchdog, page, chip
  <2> QED
    BY <1>1, <2>1 DEF TypeOK
<1>16. CASE Receive(t)
  <2>1. line' \in Seq(Answers \cup Commands) /\ Head(line) \in Answers \cup Commands
    BY <1>1, <1>16, FirstOfLine DEF Receive
  <2>2. slot' \in Answers \cup {"none"} /\ sem' \in 0 .. MaxSem /\ headtracking' \in BOOLEAN
    BY <1>1, <1>16, <2>1, SemTypes DEF Receive, TypeOK
  <2> QED
    BY <1>1, <1>16, <2>1, <2>2 DEF Receive, TypeOK, locks, esp32, watchdog, page
<1>17. CASE Arm
  <2>1. UNCHANGED <<lvgl, enable, booted, fd, tid, stopping, slot, sem, cancelled, busy,
                    polls, repower, misses, recovered, binding, label, headtracking, power,
                    pairing, hung, bound, asked, line>>
        /\ armed' \in BOOLEAN
    BY <1>17 DEF Arm, locks, esp32, response, page, chip
  <2> QED
    BY <1>1, <2>1 DEF TypeOK
<1>18. CASE Listen
  <2>1. UNCHANGED <<lvgl, enable, booted, fd, tid, stopping, slot, sem, busy, polls,
                    repower, armed, misses, recovered, binding, label, headtracking, power,
                    pairing, hung, bound, asked, line>>
        /\ cancelled' \in BOOLEAN
    BY <1>18 DEF Listen, locks, esp32, watchdog, page, chip
  <2> QED
    BY <1>1, <2>1 DEF TypeOK
<1>19. CASE AwaitAgain
  BY <1>1, <1>19, SemTypes DEF AwaitAgain, TypeOK, locks, esp32, watchdog, page, chip
<1>20. CASE AwaitStart
  <2>1. sem' \in 0 .. MaxSem /\ label' \in Results \cup {"idle", "Binding"}
    BY <1>1, <1>20, SemTypes DEF AwaitStart, Heard, TypeOK, Results
  <2> QED
    BY <1>1, <1>20, <2>1 DEF AwaitStart, TypeOK, locks, esp32, watchdog, chip
<1>21. CASE Started
  BY <1>1, <1>21 DEF Started, TypeOK, locks, esp32, response, watchdog, chip
<1>22. CASE AwaitBind
  <2>1. sem' \in 0 .. MaxSem
    BY <1>1, <1>22, SemTypes DEF AwaitBind, Heard, TypeOK
  <2> QED
    BY <1>1, <1>22, <2>1 DEF AwaitBind, TypeOK, locks, esp32, watchdog, page, chip
<1>23. CASE ShowResult
  <2>1. repower' \in BOOLEAN /\ label' \in Results /\ binding' \in BOOLEAN
    BY <1>1, <1>23 DEF ShowResult, TypeOK
  <2> QED
    BY <1>1, <1>23, <2>1 DEF ShowResult, TypeOK, locks, esp32, response, watchdog, chip
<1> QED
  BY <1>2, <1>3, <1>4, <1>5, <1>6, <1>7, <1>8, <1>9, <1>10, <1>11, <1>12, <1>13, <1>14, <1>15,
     <1>16, <1>17, <1>18, <1>19, <1>20, <1>21, <1>22, <1>23 DEF StepOf, ReaderStep, ReaderStop

LEMMA OtherTypes ==
  ASSUME BackpackInv, todo' \in [Threads -> Seq(Steps)],
         \/ Beginning \/ HeadTracker \/ RightButton \/ BusyEnds \/ Device
         \/ \E r \in Readers : ReadError(r)
  PROVE  TypeOK'
<1>1. TypeOK /\ "main" \in Threads /\ "input" \in Threads
  BY DEF BackpackInv, Threads
<1>2. ASSUME NEW kind, NEW s, Click(kind, s)
      PROVE  lvgl' \in Threads
  BY <1>1, <1>2 DEF Click, Enter
<1>3. CASE \E timer \in due : MainLoop(timer)
  BY <1>1, <1>3 DEF MainLoop, Enter, TypeOK, esp32, response, watchdog, page, chip
<1>4. CASE Boot
  BY <1>1, <1>4 DEF Boot, TypeOK, locks, esp32, response, watchdog, page, chip
<1>5. CASE PageEnter
  <2>1. lvgl' \in Threads
    BY <1>2, <1>5 DEF PageEnter
  <2> QED
    BY <1>1, <1>5, <2>1 DEF PageEnter, TypeOK, esp32, response, watchdog, chip
<1>6. CASE VersionEnter
  <2>1. lvgl' \in Threads
    BY <1>2, <1>6 DEF VersionEnter
  <2>2. polls' \in [DOMAIN poll -> 0 .. MaxPolls]
    BY <1>1, <1>6, SemTypes DEF VersionEnter, TypeOK
  <2> QED
    BY <1>1, <1>6, <2>1, <2>2 DEF VersionEnter, TypeOK, esp32, response, watchdog, page, chip
<1>7. CASE ClickPower
  <2>1. lvgl' \in Threads
    BY <1>2, <1>7 DEF ClickPower
  <2>2. enable' \in BOOLEAN
    BY <1>7 DEF ClickPower
  <2> QED
    BY <1>1, <1>7, <2>1, <2>2 DEF ClickPower, TypeOK, esp32, response, watchdog, chip
<1>8. CASE ClickVtx
  <2>1. lvgl' \in Threads
    BY <1>2, <1>8 DEF ClickVtx
  <2> QED
    BY <1>1, <1>8, <2>1 DEF ClickVtx, TypeOK, esp32, response, watchdog, chip
<1>9. CASE ClickWifi
  <2>1. lvgl' \in Threads
    BY <1>2, <1>9 DEF ClickWifi
  <2>2. UNCHANGED <<enable, booted, fd, tid, stopping, slot, sem, polls, repower, armed,
                    misses, recovered, binding, headtracking, power, pairing, hung, bound,
                    asked, line>>
        /\ busy' = "wifi" /\ label' = "idle" /\ cancelled' \in BOOLEAN
    BY <1>9 DEF ClickWifi, esp32, watchdog, chip
  <2> QED
    BY <1>1, <2>1, <2>2 DEF TypeOK
<1>10. CASE ClickBind
  <2>1. lvgl' \in Threads
    BY <1>2, <1>10 DEF ClickBind
  <2>2. UNCHANGED <<enable, booted, fd, tid, stopping, slot, sem, polls, repower, armed,
                    misses, recovered, binding, headtracking, power, pairing, hung, bound,
                    asked, line>>
        /\ busy' = "bind" /\ label' = "idle" /\ cancelled' \in BOOLEAN
    BY <1>10 DEF ClickBind, esp32, watchdog, chip
  <2> QED
    BY <1>1, <2>1, <2>2 DEF TypeOK
<1>11. CASE HeadTracker
  BY <1>1, <1>11 DEF HeadTracker, TypeOK, locks, esp32, response, watchdog, page, chip
<1>12. CASE RightButton
  BY <1>1, <1>12, SemTypes DEF RightButton, TypeOK, locks, esp32, watchdog, page, chip
<1>13. CASE BusyEnds
  BY <1>1, <1>13 DEF BusyEnds, TypeOK, locks, esp32, response, watchdog, page, chip
<1>14. CASE \E r \in Readers : ReadError(r)
  BY <1>1, <1>14 DEF ReadError, ReaderExit, TypeOK, locks, esp32, response, watchdog, page, chip
<1>15. CASE Device
  <2>1. asked' \in Seq(Requests)
    <3>1. asked' = asked \/ (asked # <<>> /\ asked' = Tail(asked))
      BY <1>15 DEF Device, Backpack, BackpackAnswers, BackpackBinds, BackpackCommands, BackpackHangs
    <3> QED
      BY <1>1, <3>1, HeadTailProperties DEF TypeOK
  <2>2. line' = line \/ \E m \in Answers \cup Commands : line' = Append(line, m)
    <3>1. CASE BackpackAnswers
      <4>1. Head(asked) \in Requests
        BY <1>1, <3>1, HeadTailProperties DEF BackpackAnswers, TypeOK
      <4>2. (IF Head(asked) \in Modes THEN "P" ELSE Head(asked)) \in Answers
        BY <4>1 DEF Requests, Answers, Modes
      <4> QED
        BY <3>1, <4>2 DEF BackpackAnswers, Says
    <3>2. CASE BackpackBinds
      BY <3>2 DEF BackpackBinds, Says, Answers
    <3>3. CASE BackpackCommands
      BY <3>3 DEF BackpackCommands, Says, Commands
    <3>4. CASE BackpackHangs
      BY <3>4 DEF BackpackHangs
    <3> QED
      BY <1>15, <3>1, <3>2, <3>3, <3>4 DEF Device, Backpack
  <2>3. line' \in Seq(Answers \cup Commands)
    BY <1>1, <2>2, Said DEF TypeOK
  <2>4. pairing' \in BOOLEAN /\ hung' \in BOOLEAN /\ bound' \in BOOLEAN
    BY <1>1, <1>15
    DEF Device, Backpack, BackpackAnswers, BackpackBinds, BackpackCommands, BackpackHangs, TypeOK
  <2>5. UNCHANGED <<lvgl, enable, booted, fd, tid, stopping, slot, sem, cancelled, busy, polls,
                    repower, armed, misses, recovered, binding, label, headtracking, power>>
    BY <1>15 DEF Device, Backpack, locks, esp32, response, watchdog, page
  <2> QED
    BY <1>1, <2>1, <2>3, <2>4, <2>5 DEF TypeOK
<1> QED
  BY <1>3, <1>4, <1>5, <1>6, <1>7, <1>8, <1>9, <1>10, <1>11, <1>12, <1>13, <1>14, <1>15
  DEF Beginning
-----------------------------------------------------------------------------
LEMMA Initial == Init => BackpackInv
<1> SUFFICES ASSUME Init
             PROVE  BackpackInv
  OBVIOUS
<1>1. todo \in [Threads -> Seq(Steps)]
  BY EmptySeq DEF Init
<1>2. asked \in Seq(Requests) /\ line \in Seq(Answers \cup Commands)
  BY EmptySeq DEF Init
<1>3. sem \in 0 .. MaxSem /\ polls \in [DOMAIN poll -> 0 .. MaxPolls]
  BY BackpackAssumption DEF Init
<1>4. enable \in BOOLEAN
  BY DEF Init
<1>5. TypeOK
  BY <1>1, <1>2, <1>3, <1>4 DEF Init, TypeOK
<1>6. todo["main"] = <<>> /\ todo["input"] = <<>> /\ todo["ht"] = <<>>
      /\ \A r \in Readers : todo[r] = <<>>
  BY DEF Init, Threads
<1>7. Control
  <2>1. polls["STATUS"] = 0 /\ polls["VERSION"] = 0
    BY Polls DEF Init
  <2>2. ~booted /\ ~fd /\ ~power /\ ~repower /\ ~armed /\ lvgl \notin Workers
    BY DEF Init, Workers
  <2> QED
    BY <1>6, <2>1, <2>2 DEF Control, Resting
<1>8. Reading
  <2>1. \A r \in Readers : lvgl # r
    BY DEF Init, Readers
  <2>2. lvgl # "ht" /\ <<"unlock", "loop">> # <<>>
    BY DEF Init
  <2> QED
    BY <1>6, <2>1, <2>2 DEF Reading, ReaderPrograms
<1>9. Chip
  BY DEF Init, Chip
<1> QED
  BY <1>5, <1>7, <1>8, <1>9 DEF BackpackInv

LEMMA Step ==
  ASSUME BackpackInv, Next
  PROVE  BackpackInv'
<1>1. todo' \in [Threads -> Seq(Steps)]
  BY TypedTodo
<1>2. ASSUME NEW t \in Threads, StepOf(t)
      PROVE  BackpackInv'
  <2>1. TypeOK'
    BY <1>1, <1>2, WorkerTypes
  <2>2. CASE t \in Workers
    BY <1>2, <2>1, <2>2, WorkerControl, WorkerReading, WorkerChip DEF BackpackInv
  <2>3. CASE t \notin Workers
    <3>1. \/ t \in Readers /\ ((At(t, "lock") /\ Lock(t)) \/ Unlock(t) \/ Drain(t) \/ Tell(t))
          \/ t \in Readers /\ ReaderStep(t)
          \/ t = "ht" /\ (Drain(t) \/ Tell(t))
      BY <1>2, <2>3, OtherSteps
    <3>2. Control' /\ Reading'
      BY <3>1, LockControl, SendControl, LoopControl, ReceiveControl DEF ReaderStep, ReaderStop
    <3>3. Chip'
      BY <3>1, OthersChip
    <3> QED
      BY <2>1, <3>2, <3>3 DEF BackpackInv
  <2> QED
    BY <2>2, <2>3
<1>3. CASE Beginning
  BY <1>1, <1>3, OtherTypes, BeginningControl, BeginningReading, BeginningChip DEF BackpackInv
<1>4. CASE HeadTracker \/ RightButton \/ BusyEnds
  <2>1. Control' /\ Reading'
    BY <1>4, TrackerControl, RightControl, BusyControl
  <2>2. TypeOK' /\ Chip'
    BY <1>1, <1>4, OtherTypes, OthersChip
  <2> QED
    BY <2>1, <2>2 DEF BackpackInv
<1>5. CASE \E r \in Readers : ReadError(r)
  <2>1. Control' /\ Reading'
    BY <1>5, LoopControl DEF ReadError
  <2>2. TypeOK' /\ Chip'
    BY <1>1, <1>5, OtherTypes, OthersChip
  <2> QED
    BY <2>1, <2>2 DEF BackpackInv
<1>6. CASE Device
  BY <1>1, <1>6, OtherTypes, DeviceControl DEF BackpackInv
<1> QED
  BY <1>2, <1>3, <1>4, <1>5, <1>6 DEF Next, User, Beginning

LEMMA Stutter ==
  ASSUME BackpackInv, UNCHANGED vars
  PROVE  BackpackInv'
<1>1. UNCHANGED <<todo, lvgl, enable, booted, fd, tid, stopping, slot, sem, cancelled, busy, polls,
                  repower, armed, misses, recovered, binding, label, headtracking, power, asked,
                  line, pairing, hung, bound>>
  BY DEF vars, locks, esp32, response, watchdog, page, chip
<1>2. TypeOK'
  BY <1>1 DEF BackpackInv, TypeOK
<1>3. (Pairing => Pairing') /\ (NoStart => NoStart')
  BY <1>1 DEF Pairing, NoStart
<1>4. Control'
  BY <1>1, <1>3, Undisturbed
<1>5. Reading' /\ Chip'
  BY <1>1 DEF BackpackInv, Reading, Chip
<1> QED
  BY <1>2, <1>4, <1>5 DEF BackpackInv

LEMMA Invariance == Spec => []BackpackInv
<1>1. BackpackInv /\ [Next]_vars => BackpackInv'
  BY Step, Stutter
<1> QED
  BY <1>1, Initial, PTL DEF Spec
-----------------------------------------------------------------------------
(* The backpack's threads, timers and messages stay in their types, and    *)
(* the bursts' polls are never counted below zero.                         *)
THEOREM TypeCorrect == Spec => []TypeOK
<1>1. BackpackInv => TypeOK
  BY DEF BackpackInv
<1> QED
  BY <1>1, Invariance, PTL

(* One reader at most: whoever powers the backpack off waits for it, and   *)
(* nobody opens the UART while one runs.                                   *)
THEOREM ReaderAlone == Spec => []OneReader
<1>1. BackpackInv => OneReader
  <2> SUFFICES ASSUME BackpackInv
               PROVE  OneReader
    OBVIOUS
  <2> DEFINE A == {r \in Readers : todo[r] # <<>>}
  <2>1. A \subseteq {tid}
    BY DEF BackpackInv, Reading
  <2>2. IsFiniteSet({tid}) /\ Cardinality({tid}) = 1
    BY FS_Singleton
  <2>3. IsFiniteSet(A) /\ Cardinality(A) <= Cardinality({tid})
    BY <2>1, <2>2, FS_Subset
  <2>4. Cardinality(A) <= 1
    BY <2>2, <2>3
  <2> QED
    BY <2>4 DEF OneReader
<1> QED
  BY <1>1, Invariance, PTL

(* Once nothing is under way, a backpack that is switched on has power, or *)
(* waits for the timer of a cancelled bind; one that is switched off has   *)
(* none.                                                                   *)
THEOREM PowerTrue == Spec => []PowerFollowsSwitch
<1>1. BackpackInv => PowerFollowsSwitch
  <2> SUFFICES ASSUME BackpackInv, booted, todo["main"] = <<>>, todo["input"] = <<>>
               PROVE  IF enable THEN power \/ repower ELSE ~power
    BY DEF PowerFollowsSwitch
  <2>1. ASSUME NEW t \in Workers, NEW p \in Phases, NEW k \in Ends, Doing(t, p, k)
        PROVE  FALSE
    BY <2>1, Facing DEF Doing, Workers
  <2> QED
    BY <2>1 DEF BackpackInv, Control, Resting, Rested
<1> QED
  BY <1>1, Invariance, PTL

(* A bind shown as successful is one the backpack completed.               *)
THEOREM SuccessTrue == Spec => SuccessIsReal
<1>1. ASSUME BackpackInv, Next, label' = "Success", label # "Success"
      PROVE  bound
  <2>1. PICK t \in Threads : StepOf(t)
    BY <1>1 DEF Next, User, MainLoop, Boot, BusyEnds, HeadTracker, Device, Backpack, ReadError,
       ReaderExit, PageEnter, VersionEnter, ClickPower, ClickVtx, ClickWifi, ClickBind,
       RightButton, page
  <2>2. ShowResult
    <3>1. ~AwaitStart /\ ~Started
      BY <1>1 DEF AwaitStart, Started
    <3>2. \A u \in Threads :
            ~(Lock(u) \/ Unlock(u) \/ Drain(u) \/ Ask(u) \/ Tell(u) \/ OpenUart(u) \/ Settle(u)
              \/ disable_esp32(u) \/ Join(u))
      BY <1>1 DEF Lock, Unlock, Drain, Ask, Tell, OpenUart, Settle, disable_esp32, Join, page
    <3>3. \A u \in Threads :
            ~(Timer(u) \/ Poll(u) \/ RequestUid(u) \/ Repower(u) \/ Watch(u) \/ Miss(u))
      BY <1>1 DEF Timer, RunTimer, NoTimer, Poll, RequestUid, Repower, Watch, Miss, page
    <3>4. \A u \in Threads : ~ReaderStep(u)
      BY <1>1 DEF ReaderStep, ReaderInit, ReaderStop, ReaderExit, Receive, page
    <3>5. ~Arm /\ ~Listen /\ ~AwaitAgain /\ ~AwaitBind
      BY <1>1 DEF Arm, Listen, AwaitAgain, AwaitBind, page
    <3> QED
      BY <2>1, <3>1, <3>2, <3>3, <3>4, <3>5 DEF StepOf
  <2>3. At("input", "Success") /\ "Success" \in Results
    BY <1>1, <2>2 DEF ShowResult, Results
  <2> QED
    BY <1>1, <2>2, <2>3, ShowChip
<1>2. BackpackInv /\ [Next]_vars => [label' = "Success" /\ label # "Success" => bound]_vars
  BY <1>1
<1> QED
  BY <1>2, Invariance, PTL DEF Spec, SuccessIsReal

(* While the page waits for a bind, nobody cuts the backpack's power.      *)
THEOREM BindLeftAlone == Spec => BindUndisturbed
<1>1. ASSUME BackpackInv, Next, At("input", "awaitO"), power
      PROVE  power'
  <2>1. ASSUME NEW t \in Workers, NEW x \in {"open", "disable"}, At(t, x)
        PROVE  FALSE
    <3>1. x \in Steps /\ "awaitO" \in Steps
      BY StepNames
    <3>2. CASE t = "input"
      BY <1>1, <2>1, <3>2 DEF At
    <3>3. CASE t = "main"
      <4>1. todo["main"] # <<>>
        BY <2>1, <3>1, <3>3, StepNames DEF At, doing
      <4>2. PICK p \in Calm : p \in Phases /\ Doing("main", p, "loop")
        BY <1>1, <4>1, Waiter DEF Resting
      <4>3. x = IF p # "nothing" THEN First(p) ELSE "unlock"
        <5>1. "loop" \in Ends /\ "main" \in Workers
          BY DEF Ends, Workers
        <5>2. x = IF p # "nothing" THEN First(p) ELSE IF "loop" = "arm" THEN "arm"
                  ELSE IF "loop" \in {"wifi", "bind"} THEN "awaitP" ELSE "unlock"
          BY <1>1, <2>1, <3>1, <3>3, <4>2, <5>1, Heads DEF BackpackInv
        <5> QED
          BY <5>2
      <4>4. p \in {"open", "open_uid", "disable", "cycle"}
        BY <4>2, <4>3, PhaseAt
      <4> QED
        BY <4>2, <4>4 DEF Calm
    <3> QED
      BY <3>2, <3>3 DEF Workers
  <2>2. ASSUME NEW t \in Threads, StepOf(t)
        PROVE  power'
    <3>1. CASE t \notin Workers
      <4>1. \/ Lock(t) \/ Unlock(t) \/ Drain(t) \/ Tell(t) \/ ReaderStep(t)
        BY <1>1, <2>2, <3>1, OtherSteps
      <4> QED
        BY <1>1, <4>1 DEF Lock, Unlock, Drain, Tell, ReaderStep, ReaderInit, ReaderStop,
           ReaderExit, Receive, chip
    <3>2. CASE t \in Workers
      <4>1. ~OpenUart(t) /\ ~disable_esp32(t) /\ t \notin Readers
        BY <2>1, <3>2 DEF OpenUart, disable_esp32, Workers, Readers
      <4>2. CASE Settle(t)
        BY <4>2 DEF Settle
      <4>3. CASE Lock(t) \/ Unlock(t) \/ Drain(t) \/ Ask(t) \/ Tell(t) \/ Join(t)
        BY <1>1, <4>3 DEF Lock, Unlock, Drain, Ask, Tell, Join, chip
      <4>4. CASE Timer(t) \/ Poll(t) \/ RequestUid(t) \/ Repower(t) \/ Watch(t) \/ Miss(t)
        BY <1>1, <4>4 DEF Timer, RunTimer, NoTimer, Poll, RequestUid, Repower, Watch, Miss, chip
      <4>5. CASE Arm \/ Listen \/ AwaitAgain \/ AwaitStart \/ Started \/ AwaitBind \/ ShowResult
        BY <1>1, <4>5 DEF Arm, Listen, AwaitAgain, AwaitStart, Started, AwaitBind, ShowResult, chip
      <4> QED
        BY <2>2, <4>1, <4>2, <4>3, <4>4, <4>5 DEF StepOf
    <3> QED
      BY <3>1, <3>2
  <2>3. CASE ~\E t \in Threads : StepOf(t)
    BY <1>1, <2>3 DEF Next, User, MainLoop, Boot, BusyEnds, HeadTracker, Device, Backpack,
       ReadError, ReaderExit, PageEnter, VersionEnter, ClickPower, ClickVtx, ClickWifi,
       ClickBind, RightButton, chip
  <2> QED
    BY <2>2, <2>3
<1>2. BackpackInv /\ [Next]_vars => [At("input", "awaitO") /\ power => power']_vars
  BY <1>1
<1> QED
  BY <1>2, Invariance, PTL DEF Spec, BindUndisturbed

(* Nobody who has come to the end of what he does keeps lvgl_mutex, nor    *)
(* does the click that waits for a bind.                                   *)
THEOREM LockReturned ==
  Spec => [](\A t \in Threads : todo[t] = <<>> \/ At(t, "awaitO") => lvgl # t)
<1>1. BackpackInv => \A t \in Threads : todo[t] = <<>> \/ At(t, "awaitO") => lvgl # t
  <2> SUFFICES ASSUME BackpackInv, NEW t \in Threads, todo[t] = <<>> \/ At(t, "awaitO")
               PROVE  lvgl # t
    OBVIOUS
  <2>1. ASSUME NEW u \in Workers, NEW p \in Phases, NEW k \in Ends, Doing(u, p, k), lvgl = t
        PROVE  FALSE
    <3>1. CASE t = u
      <4>1. At(u, "awaitO") /\ "awaitO" \in Steps
        BY <2>1, <3>1, Heads, StepNames DEF BackpackInv
      <4>2. "awaitO" = IF p # "nothing" THEN First(p) ELSE IF k = "arm" THEN "arm"
                       ELSE IF k \in {"wifi", "bind"} THEN "awaitP" ELSE "unlock"
        BY <2>1, <4>1, Heads DEF BackpackInv
      <4> QED
        BY <4>2, PhaseAt
    <3>2. CASE t # u
      <4>1. t \notin Workers
        BY <2>1, <3>2 DEF Doing, Workers
      <4>2. t \in Readers /\ todo[t] = <<"unlock", "loop">>
        BY <2>1, <4>1 DEF BackpackInv, Reading, Threads, Workers, Readers
      <4> QED
        BY <4>2 DEF At, doing
    <3> QED
      BY <3>1, <3>2
  <2>2. CASE Resting
    <3>1. CASE t \in Workers
      BY <2>2, <3>1 DEF Resting
    <3>2. CASE t \notin Workers
      <4>1. lvgl = t => t \in Readers /\ todo[t] = <<"unlock", "loop">>
        BY <3>2 DEF BackpackInv, Reading, Threads, Workers, Readers
      <4> QED
        BY <4>1 DEF At, doing
    <3> QED
      BY <3>1, <3>2
  <2> QED
    BY <2>1, <2>2 DEF BackpackInv, Control
<1> QED
  BY <1>1, Invariance, PTL
=============================================================================
