------------------------------ MODULE Backpack ------------------------------
(***************************************************************************)
(* The ELRS backpack: its power and the thread that reads its UART         *)
(* (driver/esp32.c), MSP requests, which all share one response slot and   *)
(* one semaphore, and the watchdog (core/elrs.c), the ELRS and Version     *)
(* pages that use them (ui/page_elrs.c, ui/page_version.c), and the gate   *)
(* that brings the backpack up after boot (core/main.c).                   *)
(*                                                                         *)
(* A thread is the list of the steps it still has to do, as in module Dvr. *)
(* Flashing the backpack is left out.  Timers run in main's loop, and in   *)
(* the lv_timer_handler calls of the clicks.                               *)
(***************************************************************************)
EXTENDS Naturals, Sequences, FiniteSets

CONSTANTS
  MissLimit,   \* ELRS_WATCHDOG_MISS_LIMIT (bound: 5 in the code)
  MaxPolls,    \* bound: the polls of a burst (20 in the code)
  MaxLine,     \* bound: messages on their way, in each direction
  MaxSem,      \* bound: the semaphore's count
  Inputs       \* what may happen around the backpack, a subset of InputKinds

InputKinds == {"bind", "wifi", "power", "enter", "version", "vtx",     \* the user
               "query", "track", "channel",                  \* commands it sends
               "slow", "hang", "readError"}                  \* faults

ASSUME BackpackAssumption ==
  /\ {MissLimit, MaxPolls, MaxLine, MaxSem} \subseteq Nat \ {0}
  /\ Inputs \subseteq InputKinds

VARIABLES
  todo,        \* the steps each thread still has to do
  lvgl,        \* the owner of lvgl_mutex, or "none"
  enable,      \* g_setting.elrs.enable
  booted,      \* elrs_backpack_started
  fd, tid, stopping,           \* the statics of esp32.c; fd: is it open?
  slot, sem, cancelled,        \* response_packet, response_semaphore, cancelled
  busy,        \* the flow g_elrs_msp_busy_until covers, or "no"
  polls,       \* polls left of elrs_status_timer and elrs_version_timer
  repower,     \* elrs_enable_timer is waiting
  armed, misses, recovered,    \* the watchdog's timer and its statics
  binding, label,              \* of the ELRS page; label: label_bind_status
  headtracking,                \* headtracking_enabled
  power,       \* GPIO_ESP32_EN
  asked, line, \* requests on their way to the backpack, and its messages back
  pairing, hung, bound         \* the backpack itself; bound since power-up

locks == <<lvgl>>
esp32 == <<fd, tid, stopping>>
response == <<slot, sem, cancelled>>
watchdog == <<armed, misses, recovered>>
page == <<binding, label>>
chip == <<power, asked, line, pairing, hung, bound>>
vars == <<todo, locks, enable, booted, esp32, response, busy, polls, repower, watchdog,
          page, headtracking, chip>>

Readers == {"r1", "r2"}
Threads == {"main", "input", "ht"} \cup Readers
Modes == {"B", "W"}                   \* MSP_SET_MODE: bind, WiFi
Requests == Modes \cup {"STATUS", "VERSION"}
Answers == {"P", "O", "STATUS", "VERSION"}     \* P and O answer MSP_SET_MODE
Commands == {"query", "track", "channel"}
Results == {"Success", "Timeout", "Failed", "Cancelled"}
poll == [STATUS |-> "pollSTATUS", VERSION |-> "pollVERSION"]      \* the steps
Steps == Requests \cup Results \cup
  {"drain", "tell", "timers", "pollSTATUS", "pollVERSION", "repower", "watch", "miss",
   "arm", "disable", "join", "open", "settle", "init", "loop", "lock", "unlock",
   "listen", "awaitP", "started", "binding", "awaitO", "retake", "uid"}

TypeOK ==
  /\ todo \in [Threads -> Seq(Steps)] /\ lvgl \in Threads \cup {"none"}
  /\ enable \in BOOLEAN /\ booted \in BOOLEAN
  /\ fd \in BOOLEAN /\ tid \in Readers \cup {"none"} /\ stopping \in BOOLEAN
  /\ slot \in Answers \cup {"none"} /\ sem \in 0..MaxSem /\ cancelled \in BOOLEAN
  /\ busy \in {"no", "burst", "wifi", "bind"}
  /\ polls \in [DOMAIN poll -> 0..MaxPolls] /\ repower \in BOOLEAN
  /\ armed \in BOOLEAN /\ misses \in Nat /\ recovered \in BOOLEAN
  /\ binding \in BOOLEAN /\ label \in Results \cup {"idle", "Binding"}
  /\ headtracking \in BOOLEAN
  /\ power \in BOOLEAN /\ pairing \in BOOLEAN /\ hung \in BOOLEAN /\ bound \in BOOLEAN
  /\ asked \in Seq(Requests) /\ line \in Seq(Answers \cup Commands)

Init ==
  /\ todo = [t \in Threads |-> <<>>] /\ lvgl = "none"
  /\ enable \in {TRUE} \cup {"power" \notin Inputs} /\ booted = FALSE
  /\ fd = FALSE /\ tid = "none" /\ stopping = FALSE
  /\ slot = "none" /\ sem = 0 /\ cancelled = FALSE
  /\ busy = "no" /\ polls = [k \in DOMAIN poll |-> 0] /\ repower = FALSE
  /\ armed = FALSE /\ misses = 0 /\ recovered = FALSE
  /\ binding = FALSE /\ label = "idle" /\ headtracking = FALSE
  /\ power = FALSE /\ asked = <<>> /\ line = <<>>
  /\ pairing = FALSE /\ hung = FALSE /\ bound = FALSE
-----------------------------------------------------------------------------
doing(t) == IF todo[t] = <<>> THEN "idle" ELSE Head(todo[t])
At(t, step) == doing(t) = step
Then(t, steps) == todo' = [todo EXCEPT ![t] = steps \o Tail(@)]
Done(t) == Then(t, <<>>)

(* A handler that runs under lvgl_mutex begins when it gets it.            *)
Enter(t, steps) ==
  /\ todo[t] = <<>> /\ lvgl = "none" /\ lvgl' = t
  /\ todo' = [todo EXCEPT ![t] = steps \o <<"unlock">>]

Lock(t) ==
  /\ (At(t, "lock") \/ At(t, "retake")) /\ lvgl = "none" /\ lvgl' = t /\ Done(t)
  /\ UNCHANGED <<enable, booted, esp32, response, busy, polls, repower, watchdog, page,
                 headtracking, chip>>

Unlock(t) ==
  /\ At(t, "unlock") /\ lvgl' = "none" /\ Done(t)
  /\ UNCHANGED <<enable, booted, esp32, response, busy, polls, repower, watchdog, page,
                 headtracking, chip>>
-----------------------------------------------------------------------------
(* enable_esp32 and disable_esp32.                                         *)
enable_esp32 == <<"open", "settle">>

OpenUart(t) ==        \* EN low, and a new reader
  /\ At(t, "open")
  /\ LET r == IF todo["r1"] = <<>> THEN "r1" ELSE "r2" IN
       /\ todo[r] = <<>> /\ tid' = r
       /\ todo' = [todo EXCEPT ![t] = Tail(@), ![r] = <<"init", "loop">>]
  /\ fd' = TRUE /\ power' = FALSE
  /\ UNCHANGED <<locks, enable, booted, stopping, response, busy, polls, repower, watchdog,
                 page, headtracking, asked, line, pairing, hung, bound>>

(* The 50 ms before EN goes high are enough for the reader's first lines.  *)
Settle(t) ==
  /\ At(t, "settle") /\ ~At(tid, "init") /\ Done(t)
  /\ power' = TRUE
  /\ UNCHANGED <<locks, enable, booted, esp32, response, busy, polls, repower, watchdog, page,
                 headtracking, asked, line, pairing, hung, bound>>

DisableUntold(t) ==   \* the reader is not told to stop
  /\ At(t, "disable")
  /\ IF fd
     THEN /\ Then(t, <<"join">>) /\ UNCHANGED stopping
          /\ power' = FALSE /\ asked' = <<>> /\ pairing' = FALSE /\ hung' = FALSE
          /\ bound' = FALSE
     ELSE Done(t) /\ UNCHANGED <<stopping, power, asked, pairing, hung, bound>>
  /\ UNCHANGED <<locks, enable, booted, fd, tid, response, busy, polls, repower, watchdog,
                 page, headtracking, line>>

disable_esp32(t) ==
  /\ At(t, "disable")
  /\ IF fd
     THEN /\ Then(t, <<"join">>) /\ stopping' = TRUE
          /\ power' = FALSE /\ asked' = <<>> /\ pairing' = FALSE /\ hung' = FALSE
          /\ bound' = FALSE
     ELSE Done(t) /\ UNCHANGED <<stopping, power, asked, pairing, hung, bound>>
  /\ UNCHANGED <<locks, enable, booted, fd, tid, response, busy, polls, repower, watchdog,
                 page, headtracking, line>>

CloseUnjoined(t) ==   \* without waiting for the reader
  /\ At(t, "join") /\ Done(t)
  /\ fd' = FALSE /\ line' = <<>>
  /\ UNCHANGED <<locks, enable, booted, tid, stopping, response, busy, polls, repower,
                 watchdog, page, headtracking, power, asked, pairing, hung, bound>>

Join(t) ==            \* and close the UART, with what nobody has read
  /\ At(t, "join") /\ todo[tid] = <<>> /\ Done(t)
  /\ fd' = FALSE /\ line' = <<>>
  /\ UNCHANGED <<locks, enable, booted, tid, stopping, response, busy, polls, repower,
                 watchdog, page, headtracking, power, asked, pairing, hung, bound>>
-----------------------------------------------------------------------------
(* msp_send_packet: forget the last response, and write.                   *)
Drain(t) ==
  /\ At(t, "drain") /\ sem' = 0 /\ Done(t)
  /\ UNCHANGED <<locks, enable, booted, esp32, slot, cancelled, busy, polls, repower, watchdog,
                 page, headtracking, chip>>

Ask(t) ==
  /\ \E q \in Requests :
       /\ At(t, q)
       /\ asked' = IF power /\ Len(asked) < MaxLine THEN Append(asked, q) ELSE asked
  /\ slot' = "none" /\ Done(t)
  /\ UNCHANGED <<locks, enable, booted, esp32, sem, cancelled, busy, polls, repower, watchdog,
                 page, headtracking, power, line, pairing, hung, bound>>

Tell(t) ==            \* a packet that no answer is expected to
  /\ At(t, "tell") /\ slot' = "none" /\ Done(t)
  /\ UNCHANGED <<locks, enable, booted, esp32, sem, cancelled, busy, polls, repower, watchdog,
                 page, headtracking, chip>>

send(q) == <<"drain", q>>

(* The semaphore counts up to MaxSem here.                                 *)
Raised == IF sem < MaxSem THEN sem + 1 ELSE sem
-----------------------------------------------------------------------------
(* pthread_recv_esp32.                                                     *)
ReaderInit(r) ==
  /\ At(r, "init") /\ stopping' = FALSE /\ Done(r)
  /\ UNCHANGED <<locks, enable, booted, fd, tid, response, busy, polls, repower, watchdog,
                 page, headtracking, chip>>

ReaderExit(r) ==
  /\ At(r, "loop") /\ Done(r)
  /\ UNCHANGED <<locks, enable, booted, esp32, response, busy, polls, repower, watchdog,
                 page, headtracking, chip>>

ReaderStop(r) == stopping /\ ReaderExit(r)
ReadError(r) == "readError" \in Inputs /\ ~stopping /\ ReaderExit(r)

(* msp_process_packet.  An answer goes into the slot and then the          *)
(* semaphore up, which is one step here: no other thread can tell.  The    *)
(* commands that ask are answered, those that retune take lvgl_mutex.      *)
Receive(r) ==
  LET m == Head(line) IN
  /\ At(r, "loop") /\ ~stopping /\ line # <<>> /\ line' = Tail(line)
  /\ \/ /\ m \in Answers /\ slot' = m /\ sem' = Raised
        /\ UNCHANGED <<todo, headtracking>>
     \/ /\ m = "query" /\ Then(r, send("tell") \o <<"loop">>)
        /\ UNCHANGED <<slot, sem, headtracking>>
     \/ /\ m = "track" /\ headtracking' = ~headtracking /\ UNCHANGED <<slot, sem, todo>>
     \/ /\ m = "channel" /\ Then(r, <<"lock", "unlock", "loop">>)
        /\ UNCHANGED <<slot, sem, headtracking>>
  /\ UNCHANGED <<locks, enable, booted, esp32, cancelled, busy, polls, repower, watchdog,
                 page, power, asked, pairing, hung, bound>>

HeadTracker ==        \* msp_ht_update, in a thread of its own
  /\ headtracking /\ enable /\ todo["ht"] = <<>>
  /\ todo' = [todo EXCEPT !["ht"] = send("tell")]
  /\ UNCHANGED <<locks, enable, booted, esp32, response, busy, polls, repower, watchdog, page,
                 headtracking, chip>>
-----------------------------------------------------------------------------
(* The timers.  Those that may be due, and what they do.                   *)

(* Slow is a backpack that takes longer than the two seconds of a tick, or *)
(* the time-out of an await; what another one answered, and what the head  *)
(* tracker was sending, has been handled by then.                          *)
Settled ==
  \/ "slow" \in Inputs \/ hung
  \/ \A r \in Readers : todo[r] = <<>>
  \/ asked = <<>> /\ Answers \cap {line[i] : i \in DOMAIN line} = {} /\ todo["ht"] = <<>>

dueForever ==         \* no lv_timer_set_repeat_count
  {poll[k] : k \in {q \in DOMAIN poll : booted}}
  \cup (IF repower THEN {"repower"} ELSE {})
  \cup (IF armed /\ Settled THEN {"watch"} ELSE {})

due ==
  {poll[k] : k \in {q \in DOMAIN poll : polls[q] > 0}}
  \cup (IF repower THEN {"repower"} ELSE {})
  \cup (IF armed /\ Settled THEN {"watch"} ELSE {})

(* lv_timer_handler.  It runs at most one timer here.                      *)
RunTimer(t, timer) ==
  /\ At(t, "timers") /\ timer \in due /\ Then(t, <<timer>>)
  /\ UNCHANGED <<locks, enable, booted, esp32, response, busy, polls, repower, watchdog, page,
                 headtracking, chip>>

NoTimer(t) ==
  /\ At(t, "timers") /\ Done(t)
  /\ UNCHANGED <<locks, enable, booted, esp32, response, busy, polls, repower, watchdog, page,
                 headtracking, chip>>

MainLoop(timer) ==
  /\ timer \in due /\ Enter("main", <<timer>>)
  /\ UNCHANGED <<enable, booted, esp32, response, busy, polls, repower, watchdog, page,
                 headtracking, chip>>

(* elrs_status_timer, elrs_version_timer: msp_read_resposne, which takes   *)
(* the semaphore whatever the response, and then ask again.                *)
Poll(t) ==
  /\ \E k \in DOMAIN poll :
       /\ At(t, poll[k])
       /\ IF sem > 0 /\ slot = k
          THEN polls' = [polls EXCEPT ![k] = 0] /\ Done(t)
          ELSE polls' = [polls EXCEPT ![k] = @ - 1] /\ Then(t, send(k))
  /\ sem' = IF sem > 0 THEN sem - 1 ELSE 0
  /\ UNCHANGED <<locks, enable, booted, esp32, slot, cancelled, busy, repower, watchdog, page,
                 headtracking, chip>>

(* request_uid, and the same for the version.                              *)
RequestUid(t) ==
  /\ At(t, "uid") /\ busy' = "burst" /\ polls' = [polls EXCEPT !["STATUS"] = MaxPolls]
  /\ Then(t, send("STATUS"))
  /\ UNCHANGED <<locks, enable, booted, esp32, response, repower, watchdog, page, headtracking,
                 chip>>

RepowerAlways(t) ==   \* whatever the setting by then
  /\ At(t, "repower") /\ repower' = FALSE
  /\ Then(t, enable_esp32 \o <<"uid">>)
  /\ UNCHANGED <<locks, enable, booted, esp32, response, busy, polls, watchdog, page,
                 headtracking, chip>>

Repower(t) ==         \* elrs_enable_timer
  /\ At(t, "repower") /\ repower' = FALSE
  /\ Then(t, (IF enable THEN enable_esp32 ELSE <<>>) \o <<"uid">>)
  /\ UNCHANGED <<locks, enable, booted, esp32, response, busy, polls, watchdog, page,
                 headtracking, chip>>

(* elrs_watchdog_timer.                                                    *)
WatchAlways(t) ==     \* does not look at g_elrs_msp_busy_until
  /\ At(t, "watch")
  /\ armed' = (enable /\ ~recovered)
  /\ IF ~armed' THEN Done(t) /\ UNCHANGED <<sem, misses>>
     ELSE /\ sem' = IF sem > 0 THEN sem - 1 ELSE 0
          /\ IF sem > 0 /\ slot = "VERSION"
             THEN misses' = 0 /\ Done(t)
             ELSE UNCHANGED misses /\ Then(t, send("VERSION") \o <<"miss">>)
  /\ UNCHANGED <<locks, enable, booted, esp32, slot, cancelled, busy, polls, repower,
                 recovered, page, headtracking, chip>>

Watch(t) ==
  /\ At(t, "watch")
  /\ armed' = (enable /\ ~recovered)
  /\ IF ~armed' \/ busy # "no" THEN Done(t) /\ UNCHANGED <<sem, misses>>
     ELSE /\ sem' = IF sem > 0 THEN sem - 1 ELSE 0
          /\ IF sem > 0 /\ slot = "VERSION"
             THEN misses' = 0 /\ Done(t)
             ELSE UNCHANGED misses /\ Then(t, send("VERSION") \o <<"miss">>)
  /\ UNCHANGED <<locks, enable, booted, esp32, slot, cancelled, busy, polls, repower,
                 recovered, page, headtracking, chip>>

MissUnpowered(t) ==   \* powers off, and not on again
  /\ At(t, "miss") /\ misses' = misses + 1
  /\ recovered' = (misses' >= MissLimit)
  /\ Then(t, IF recovered' THEN <<"disable">> ELSE <<>>)
  /\ UNCHANGED <<locks, enable, booted, esp32, response, busy, polls, repower, armed, page,
                 headtracking, chip>>

Miss(t) ==
  /\ At(t, "miss") /\ misses' = misses + 1
  /\ recovered' = (misses' >= MissLimit)
  /\ Then(t, IF recovered' THEN <<"disable">> \o enable_esp32 ELSE <<>>)
  /\ UNCHANGED <<locks, enable, booted, esp32, response, busy, polls, repower, armed, page,
                 headtracking, chip>>

(* The 2, 6 or 125 seconds of a flow are longer than the flow, and than    *)
(* the 100 ms of elrs_enable_timer.                                        *)
BusyEnds ==
  /\ ~repower
  /\ \/ busy = "wifi" /\ todo["input"] = <<>>
     \/ busy = "burst" /\ \A k \in DOMAIN polls : polls[k] = 0
     \/ busy = "bind" /\ todo["input"] = <<>> /\ \A k \in DOMAIN polls : polls[k] = 0
  /\ busy' = "no"
  /\ UNCHANGED <<todo, locks, enable, booted, esp32, response, polls, repower, watchdog, page,
                 headtracking, chip>>

(* main's loop, after boot has settled, without lvgl_mutex.                *)
BootAlways ==         \* whatever the setting
  /\ ~booted /\ booted' = TRUE /\ todo["main"] = <<>>
  /\ todo' = [todo EXCEPT !["main"] = enable_esp32 \o <<"arm">>]
  /\ UNCHANGED <<locks, enable, esp32, response, busy, polls, repower, watchdog, page,
                 headtracking, chip>>

Boot ==
  /\ ~booted /\ booted' = TRUE /\ todo["main"] = <<>>
  /\ todo' = [todo EXCEPT !["main"] = IF enable THEN enable_esp32 \o <<"arm">> ELSE <<>>]
  /\ UNCHANGED <<locks, enable, esp32, response, busy, polls, repower, watchdog, page,
                 headtracking, chip>>

Arm ==                \* elrs_watchdog_start
  /\ At("main", "arm") /\ armed' = TRUE /\ Done("main")
  /\ UNCHANGED <<locks, enable, booted, esp32, response, busy, polls, repower, misses,
                 recovered, page, headtracking, chip>>
-----------------------------------------------------------------------------
(* The ELRS page, and entering the Version page.  The user does nothing    *)
(* before boot has brought the backpack up.                                *)
Click(kind, steps) ==
  /\ kind \in Inputs /\ booted /\ ~(\E i \in DOMAIN todo["main"] : todo["main"][i] = "arm")
  /\ Enter("input", steps)

PageEnter ==
  /\ Click("enter", IF enable THEN <<"uid">> ELSE <<>>) /\ label' = "idle"
  /\ UNCHANGED <<enable, booted, esp32, response, busy, polls, repower, watchdog, binding,
                 headtracking, chip>>

VersionEnter ==
  /\ Click("version", send("VERSION"))
  /\ busy' = "burst" /\ polls' = [polls EXCEPT !["VERSION"] = MaxPolls]
  /\ UNCHANGED <<enable, booted, esp32, response, repower, watchdog, page, headtracking, chip>>

(* Off at any time, on again not within the 100 ms of an elrs_enable_timer *)
(* that is waiting: two clicks on the switch take longer.                  *)
ClickPower ==
  /\ repower => enable
  /\ enable' = ~enable /\ label' = "idle"
  /\ Click("power", IF enable' THEN enable_esp32 ELSE <<"disable">>)
  /\ UNCHANGED <<booted, esp32, response, busy, polls, repower, watchdog, binding,
                 headtracking, chip>>

ClickVtx ==           \* msp_channel_update
  /\ enable /\ Click("vtx", send("tell")) /\ label' = "idle"
  /\ UNCHANGED <<enable, booted, esp32, response, busy, polls, repower, watchdog, binding,
                 headtracking, chip>>

(* Both waits for "P" keep lvgl_mutex, which a cancellation needs, so that *)
(* their cancelled = false is moved here.                                  *)
ClickWifi ==
  /\ enable /\ Click("wifi", send("W") \o <<"timers", "awaitP">>)
  /\ busy' = "wifi" /\ label' = "idle" /\ cancelled' = FALSE
  /\ UNCHANGED <<enable, booted, esp32, slot, sem, polls, repower, watchdog, binding,
                 headtracking, chip>>

ClickBind ==
  /\ enable /\ Click("bind", send("B") \o <<"timers", "awaitP", "started">>)
  /\ busy' = "bind" /\ label' = "idle" /\ cancelled' = FALSE
  /\ UNCHANGED <<enable, booted, esp32, slot, sem, polls, repower, watchdog, binding,
                 headtracking, chip>>

(* msp_await_resposne.                                                     *)
Listen ==             \* cancelled = false
  /\ At("input", "listen") /\ cancelled' = FALSE /\ Done("input")
  /\ UNCHANGED <<locks, enable, booted, esp32, slot, sem, busy, polls, repower, watchdog, page,
                 headtracking, chip>>

Awaiting == At("input", "awaitP") \/ At("input", "awaitO")

(* Woken: by an answer, a cancellation, or an answer taken back since.     *)
outcomeUnread(wanted) ==  \* the payload is not compared
  IF cancelled THEN "Cancelled" ELSE "Success"

outcome(wanted) ==
  IF cancelled THEN "Cancelled" ELSE IF slot = wanted THEN "Success" ELSE "Failed"

Heard(answer, result) ==
  \/ /\ sem > 0 /\ sem' = sem - 1
     /\ cancelled \/ slot \in {"P", "O"}
     /\ result = outcome(answer)
  \/ sem = 0 /\ Settled /\ UNCHANGED sem /\ result = "Timeout"

AwaitAgain ==         \* another function's answer, or none
  /\ Awaiting /\ sem > 0 /\ ~cancelled /\ slot \notin {"P", "O"} /\ sem' = sem - 1
  /\ UNCHANGED <<todo, locks, enable, booted, esp32, slot, cancelled, busy, polls, repower,
                 watchdog, page, headtracking, chip>>

AwaitStart ==
  /\ At("input", "awaitP")
  /\ \E result \in Results :
       /\ Heard("P", result)
       /\ IF result = "Success" THEN Done("input") /\ UNCHANGED label
          ELSE /\ todo' = [todo EXCEPT !["input"] = <<"unlock">>]
               /\ label' = IF busy = "bind" THEN "Failed" ELSE label
  /\ UNCHANGED <<locks, enable, booted, esp32, slot, cancelled, busy, polls, repower, watchdog,
                 binding, headtracking, chip>>

Started ==            \* and lvgl_mutex is given up for the wait
  /\ At("input", "started") /\ label' = "Binding" /\ binding' = TRUE
  /\ Then("input", <<"timers", "unlock", "listen", "awaitO", "retake">>)
  /\ UNCHANGED <<locks, enable, booted, esp32, response, busy, polls, repower, watchdog,
                 headtracking, chip>>

AwaitBind ==
  /\ At("input", "awaitO")
  /\ \E result \in Results :
       Heard("O", result) /\ todo' = [todo EXCEPT !["input"] = <<"retake", result, "unlock">>]
  /\ UNCHANGED <<locks, enable, booted, esp32, slot, cancelled, busy, polls, repower, watchdog,
                 page, headtracking, chip>>

(* A cancelled backpack is powered off now and on again by a timer.        *)
ShowResult ==
  /\ \E result \in Results :
       /\ At("input", result) /\ label' = result /\ binding' = FALSE
       /\ Then("input", IF result = "Success" THEN <<"uid">>
                        ELSE IF result = "Cancelled" THEN <<"disable">> ELSE <<>>)
       /\ repower' = (repower \/ (result = "Cancelled" /\ enable))
  /\ UNCHANGED <<locks, enable, booted, esp32, response, busy, polls, watchdog, headtracking,
                 chip>>

(* page_elrs_on_rbtn under lvgl_mutex, in the thread of the right button,  *)
(* and msp_cancel_await.                                                   *)
RightButton ==
  /\ binding /\ lvgl = "none" /\ cancelled' = TRUE /\ sem' = Raised
  /\ UNCHANGED <<todo, locks, enable, booted, esp32, slot, busy, polls, repower, watchdog,
                 page, headtracking, chip>>
-----------------------------------------------------------------------------
(* The backpack: it answers in order, completes a bind, sends commands of  *)
(* its own, and may stop answering.                                        *)
Backpack(event) ==
  /\ power /\ ~hung /\ event
  /\ UNCHANGED <<todo, locks, enable, booted, esp32, response, busy, polls, repower, watchdog,
                 page, headtracking, power>>

Says(m) == Len(line) < MaxLine /\ line' = Append(line, m)

BackpackAnswers ==
  LET q == Head(asked) IN
  /\ asked # <<>> /\ asked' = Tail(asked)
  /\ Says(IF q \in Modes THEN "P" ELSE q)
  /\ pairing' = IF q \in Modes THEN q = "B" ELSE pairing
  /\ UNCHANGED <<hung, bound>>

BackpackBinds ==
  /\ pairing /\ pairing' = FALSE /\ bound' = TRUE /\ Says("O")
  /\ UNCHANGED <<asked, hung>>

BackpackCommands ==
  /\ \E m \in Commands \cap Inputs : Says(m)
  /\ UNCHANGED <<asked, pairing, hung, bound>>

BackpackHangs ==
  /\ "hang" \in Inputs /\ hung' = TRUE
  /\ UNCHANGED <<asked, line, pairing, bound>>

Device ==
  \/ Backpack(BackpackAnswers) \/ Backpack(BackpackBinds) \/ Backpack(BackpackCommands)
  \/ Backpack(BackpackHangs)

ReaderStep(r) == ReaderInit(r) \/ ReaderStop(r) \/ Receive(r)

Timer(t) == (\E timer \in due : RunTimer(t, timer)) \/ NoTimer(t)

StepOf(t) ==
  \/ Lock(t) \/ Unlock(t) \/ Drain(t) \/ Ask(t) \/ Tell(t)
  \/ OpenUart(t) \/ Settle(t) \/ disable_esp32(t) \/ Join(t)
  \/ Timer(t) \/ Poll(t) \/ RequestUid(t) \/ Repower(t) \/ Watch(t) \/ Miss(t)
  \/ t \in Readers /\ ReaderStep(t)
  \/ t = "main" /\ Arm
  \/ t = "input" /\ (Listen \/ AwaitAgain \/ AwaitStart \/ Started \/ AwaitBind \/ ShowResult)

User ==
  \/ PageEnter \/ VersionEnter \/ ClickPower \/ ClickVtx \/ ClickWifi \/ ClickBind
  \/ RightButton

Next ==
  \/ \E t \in Threads : StepOf(t)
  \/ \E timer \in due : MainLoop(timer)
  \/ Boot \/ BusyEnds \/ HeadTracker
  \/ User \/ Device
  \/ \E r \in Readers : ReadError(r)

Spec == Init /\ [][Next]_vars

(* Threads go on, and get the mutex they wait for sooner or later; main's  *)
(* loop comes round to every timer; time passes; the backpack answers      *)
(* unless it hangs.  Nobody has to click, cancel, or complete a bind.      *)
FairSpec ==
  /\ Spec
  /\ \A t \in Threads \ {"input"} : WF_vars(StepOf(t))
  /\ SF_vars(StepOf("input"))
  /\ \A timer \in {"pollSTATUS", "pollVERSION", "repower", "watch"} :
       SF_vars(MainLoop(timer))
  /\ WF_vars(Boot) /\ WF_vars(BusyEnds)
  /\ SF_vars(Backpack(BackpackAnswers))
-----------------------------------------------------------------------------
(* driver/esp32.c keeps one UART, one stop flag and one ring of bytes, for *)
(* one reader: a new one starts only after the last is gone.               *)
OneReader == Cardinality({r \in Readers : todo[r] # <<>>}) <= 1

(* However a flow or a power cycle ends, a backpack that is switched on is *)
(* powered, or about to be, once nothing is under way; one that is         *)
(* switched off is not.                                                    *)
PowerFollowsSwitch ==
  booted /\ todo["main"] = <<>> /\ todo["input"] = <<>>
    => IF enable THEN power \/ repower ELSE ~power

(* A bind shown as successful is one the backpack completed, however late  *)
(* the answers and whoever else sent packets meanwhile.                    *)
SuccessIsReal == [][label' = "Success" /\ label # "Success" => bound]_vars

(* While the page waits for a bind, with lvgl_mutex released, nobody else  *)
(* cuts the power: neither the watchdog nor a timer left from before.      *)
BindUndisturbed == [][At("input", "awaitO") /\ power => power']_vars

(* Every click of the page returns, and the timers run again: whoever      *)
(* powers the backpack off waits for its reader under lvgl_mutex, and the  *)
(* reader gets there.                                                      *)
ClickReturns == []<>(todo["input"] = <<>>) /\ []<>(todo["main"] = <<>>)

(* The self-healing watchdog: a backpack that hangs is power-cycled and    *)
(* read again, if that has not happened before, once the pages are left    *)
(* alone; head tracking and button presses that send packets cannot keep   *)
(* it from that.                                                           *)
well == power /\ ~hung /\ todo[tid] # <<>>
Healed == <>[](busy = "no") => (power /\ ~well /\ armed /\ ~recovered ~> well \/ ~enable)
=============================================================================
