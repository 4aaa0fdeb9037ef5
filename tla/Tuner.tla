------------------------------- MODULE Tuner -------------------------------
(***************************************************************************)
(* The two receivers of a goggle that has both, HDZero (two bandwidths)    *)
(* and analog, and everybody who powers, opens and tunes them: the         *)
(* switches of core/app_state.c, the watchdogs of core/scan_core.c in      *)
(* thread_peripheral, sleep mode (core/sleep_mode.c), the screen saver of  *)
(* core/ht.c, and the retuning by the backpack (core/elrs.c).              *)
(*                                                                         *)
(* A thread is the list of the steps it still has to do, as in module Dvr. *)
(* There is one channel: the video transmitter is on it or not, and what   *)
(* the dial does to the channel is something that happens to vtx.          *)
(***************************************************************************)
EXTENDS Naturals, Sequences

CONSTANTS
  AutoDetect,  \* g_setting.source.auto_protocol_detect
  Inputs       \* what may happen around the tuner, a subset of InputKinds

InputKinds == {"menu", "sleep", "retune", "saver", "idle", "vtx"}

ASSUME TunerAssumption == AutoDetect \in BOOLEAN /\ Inputs \subseteq InputKinds

VARIABLES
  todo,          \* the steps each thread still has to do
  lvgl,          \* the owner of lvgl_mutex, or "none"
  app,           \* g_app_state: "video", "sleep", or anything else, "menu"
  previous,      \* previousState of sleep_mode.c
  isSleeping, source,
  setting,       \* g_setting.source.hdzero_bw: "both", or a fixed one, "wide"
  detected,      \* g_hdz_detected_bw
  open, bw,      \* g_hw_stat.hdzero_open, g_hw_stat.hdz_bw
  garbage,       \* the baseband is locked on garbage after an analog probe
  found,         \* what the sweep under way has found
  avOn,          \* the power of the analog receiver
  avDown,        \* analog_powered_down
  probed,        \* last_probe_ts is not zero
  saving,        \* the screen saver has switched screen and receiver off
  vtx            \* the transmitter: "none", "analog", or its bandwidth

state == <<app, previous, isSleeping, source>>
receiver == <<open, bw, garbage>>
analog == <<avOn, avDown>>
vars == <<todo, lvgl, state, setting, detected, receiver, found, analog, probed, saving, vtx>>

Bandwidths == {"wide", "narrow"}
other(b) == IF b = "wide" THEN "narrow" ELSE "wide"
Threads == {"input", "peripheral", "backpack"}
Receivers == {"hdzero", "analog"}
States == {"video", "menu", "sleep"}
Steps == States \cup Receivers \cup Bandwidths \cup
  {"lock", "unlock", "close", "open", "avOn", "avOff", "noteOn", "noteOff", "clear",
   "bwTick", "recheck", "hop", "idle", "forget", "cross", "probe", "compare", "try", "look",
   "verdict", "adopt", "doze", "wake"}

TypeOK ==
  /\ todo \in [Threads -> Seq(Steps)] /\ lvgl \in Threads \cup {"none"}
  /\ app \in States /\ previous \in States
  /\ isSleeping \in BOOLEAN /\ source \in Receivers
  /\ setting \in {"wide", "both"} /\ detected \in Bandwidths
  /\ open \in BOOLEAN /\ bw \in Bandwidths /\ garbage \in BOOLEAN
  /\ found \in Bandwidths \cup {"none"}
  /\ avOn \in BOOLEAN /\ avDown \in BOOLEAN /\ probed \in BOOLEAN /\ saving \in BOOLEAN
  /\ vtx \in Bandwidths \cup {"analog", "none"}

(* In video, on either source.                                             *)
Init ==
  /\ todo = [t \in Threads |-> <<>>] /\ lvgl = "none"
  /\ app = "video" /\ previous = "menu" /\ isSleeping = FALSE
  /\ source \in Receivers /\ setting \in {"wide", "both"}
  /\ detected = "wide" /\ bw = "wide" /\ garbage = FALSE /\ found = "none"
  /\ open = (source = "hdzero") /\ avOn = ~open /\ avDown = open
  /\ probed = ~open /\ saving = FALSE
  /\ vtx \in Bandwidths \cup {"analog", "none"}
-----------------------------------------------------------------------------
doing(t) == IF todo[t] = <<>> THEN "nothing" ELSE Head(todo[t])
At(t, step) == doing(t) = step
Then(t, steps) == todo' = [todo EXCEPT ![t] = steps \o Tail(@)]
Done(t) == Then(t, <<>>)
Begin(t, steps) == todo[t] = <<>> /\ todo' = [todo EXCEPT ![t] = steps]

Lock(t) ==
  /\ At(t, "lock") /\ lvgl = "none" /\ lvgl' = t /\ Done(t)
  /\ UNCHANGED <<state, setting, detected, receiver, found, analog, probed, saving, vtx>>

Unlock(t) ==
  /\ At(t, "unlock") /\ lvgl' = "none" /\ Done(t)
  /\ UNCHANGED <<state, setting, detected, receiver, found, analog, probed, saving, vtx>>

(* hdzero_effective_bw, rx_valid, and what the analog receiver shows; any  *)
(* transmitter's carrier raises its RSSI.                                  *)
hdzero_effective_bw == IF setting = "both" THEN detected ELSE setting
rx_valid == open /\ ~garbage /\ vtx = bw
rssi == avOn /\ vtx # "none"
av_bay_status == avOn /\ vtx = "analog"

(* HDZero_open resets the baseband if the bandwidth is another one.        *)
HDZero_open(b) ==
  /\ open' = TRUE /\ bw' = IF open /\ bw = b THEN bw ELSE b
  /\ garbage' = (garbage /\ open /\ bw = b)

Open(t) ==
  /\ \/ At(t, "open") /\ HDZero_open(hdzero_effective_bw)
     \/ \E b \in Bandwidths : At(t, b) /\ HDZero_open(b)
  /\ Done(t)
  /\ UNCHANGED <<lvgl, state, setting, detected, found, analog, probed, saving, vtx>>

HDZero_Close(t) ==
  /\ At(t, "close") /\ open' = FALSE /\ garbage' = FALSE /\ Done(t)
  /\ UNCHANGED <<lvgl, state, setting, detected, bw, found, analog, probed, saving, vtx>>

rtc6715_init(t) ==
  /\ \/ At(t, "avOn") /\ avOn' = TRUE
     \/ At(t, "avOff") /\ avOn' = FALSE
  /\ Done(t)
  /\ UNCHANGED <<lvgl, state, setting, detected, receiver, found, avDown, probed, saving, vtx>>

(* scan_core_notify_analog_powered_on and _off.                            *)
Notify(t) ==
  /\ \/ At(t, "noteOn") /\ avDown' = FALSE /\ probed' = TRUE
     \/ At(t, "noteOff") /\ avDown' = TRUE /\ UNCHANGED probed
     \/ At(t, "clear") /\ avDown' = FALSE /\ UNCHANGED probed
  /\ Done(t)
  /\ UNCHANGED <<lvgl, state, setting, detected, receiver, found, avOn, saving, vtx>>

app_state_push(t) ==
  /\ \E s \in States : At(t, s) /\ app' = s
  /\ Done(t)
  /\ UNCHANGED <<lvgl, previous, isSleeping, source, setting, detected, receiver, found,
                 analog, probed, saving, vtx>>

SetSource(t) ==
  /\ \E s \in Receivers : At(t, s) /\ source' = s
  /\ Done(t)
  /\ UNCHANGED <<lvgl, app, previous, isSleeping, setting, detected, receiver, found, analog,
                 probed, saving, vtx>>

app_switch_to_menu == <<"menu", "close", "avOff", "noteOff">>
app_switch_to_hdzero == <<"avOff", "noteOff", "open">>
app_switch_to_analog == <<"close", "avOn", "noteOn">>
app_exit_menu == IF source = "hdzero" THEN app_switch_to_hdzero ELSE app_switch_to_analog

(* ... and what all callers of the switches do after them.                 *)
switchTo(s) ==
  (IF s = "hdzero" THEN app_switch_to_hdzero ELSE app_switch_to_analog) \o <<"video", s>>
-----------------------------------------------------------------------------
(* The round of thread_peripheral, as far as it is about receivers.        *)
Tick ==
  /\ Begin("peripheral", <<"bwTick", "idle", "cross">>)
  /\ UNCHANGED <<lvgl, state, setting, detected, receiver, found, analog, probed, saving, vtx>>

(* scan_core_hdz_bw_tick: nothing is done before the picture has been      *)
(* dark for a while, and then everything is looked at again under the lock.*)
watchesHDZero == app = "video" /\ source = "hdzero" /\ (AutoDetect \/ setting = "both")

BwTick(attempt) ==
  /\ At("peripheral", "bwTick")
  /\ detected' = IF watchesHDZero /\ rx_valid THEN bw ELSE detected
  /\ attempt => watchesHDZero /\ ~rx_valid
  /\ Then("peripheral", IF attempt THEN <<"lock", "recheck">> ELSE <<>>)
  /\ UNCHANGED <<lvgl, state, setting, receiver, found, analog, probed, saving, vtx>>

Recheck ==
  /\ At("peripheral", "recheck")
  /\ Then("peripheral",
          IF ~watchesHDZero \/ rx_valid THEN <<"unlock">>
          ELSE IF setting = "both" THEN <<other(detected), "hop", "unlock">>
          ELSE <<"close", "open", "unlock">>)
  /\ UNCHANGED <<lvgl, state, setting, detected, receiver, found, analog, probed, saving, vtx>>

(* It stays on the other bandwidth or goes home.                           *)
Hop ==
  /\ At("peripheral", "hop") /\ probed' = TRUE
  /\ IF rx_valid THEN detected' = bw /\ Done("peripheral")
                 ELSE Then("peripheral", <<detected>>) /\ UNCHANGED detected
  /\ UNCHANGED <<lvgl, state, setting, receiver, found, analog, saving, vtx>>

IdleAnyway ==       \* does not look at the source
  /\ At("peripheral", "idle")
  /\ \/ Done("peripheral")
     \/ /\ AutoDetect /\ probed /\ "idle" \in Inputs
        /\ Then("peripheral", <<"avOff", "noteOff", "forget">>)
  /\ UNCHANGED <<lvgl, state, setting, detected, receiver, found, analog, probed, saving, vtx>>

(* scan_core_idle_tick: five seconds after the last probe the analog       *)
(* receiver goes off if the source is HDZero.                              *)
IdleTick ==
  /\ At("peripheral", "idle")
  /\ \/ Done("peripheral")
     \/ /\ AutoDetect /\ probed /\ "idle" \in Inputs
        /\ Then("peripheral", (IF source = "hdzero" THEN <<"avOff", "noteOff">> ELSE <<>>)
                               \o <<"forget">>)
  /\ UNCHANGED <<lvgl, state, setting, detected, receiver, found, analog, probed, saving, vtx>>

Forget ==
  /\ At("peripheral", "forget") /\ probed' = FALSE /\ Done("peripheral")
  /\ UNCHANGED <<lvgl, state, setting, detected, receiver, found, analog, saving, vtx>>

(* Its crossover half, and try_crossover_probe: dark for long enough, the  *)
(* other protocol is probed, for HDZero on each bandwidth (scan_hdz_bw_list)*)
(* that the setting allows.                                                *)
dark == IF source = "hdzero" THEN ~rx_valid ELSE ~av_bay_status
sweepClosed ==      \* does not open what it reads
  <<"look">> \o (IF setting = "both" THEN <<"look">> ELSE <<>>)

sweep == <<"wide", "look">> \o (IF setting = "both" THEN <<"narrow", "look">> ELSE <<>>)

CrossTick(attempt) ==
  /\ At("peripheral", "cross")
  /\ attempt => AutoDetect /\ app = "video" /\ dark
  /\ Then("peripheral",
          IF ~attempt THEN <<>>
          ELSE <<"probe">> \o (IF source = "hdzero" THEN <<"compare">> ELSE sweep \o <<"verdict">>))
  /\ found' = "none"
  /\ UNCHANGED <<lvgl, state, setting, detected, receiver, analog, probed, saving, vtx>>

(* scan_probe_analog: the receiver is powered if its flag says that it is  *)
(* not; the HDZero baseband may lock on garbage meanwhile.                 *)
ProbeAnalog ==
  /\ At("peripheral", "probe") /\ probed' = TRUE
  /\ garbage' \in {garbage, garbage \/ open}
  /\ Then("peripheral", IF avDown THEN <<"avOn", "clear">> ELSE <<>>)
  /\ UNCHANGED <<lvgl, state, setting, detected, open, bw, found, analog, saving, vtx>>

(* A carrier: it may be that of HDZero on the other bandwidth.             *)
Compare ==
  /\ At("peripheral", "compare")
  /\ Then("peripheral",
          IF ~rssi THEN <<>>
          ELSE IF setting = "both" THEN <<"lock", other(bw), "try">>
          ELSE <<"lock">> \o switchTo("analog") \o <<"unlock">>)
  /\ UNCHANGED <<lvgl, state, setting, detected, receiver, found, analog, probed, saving, vtx>>

TryOther ==
  /\ At("peripheral", "try") /\ probed' = TRUE
  /\ IF rx_valid
     THEN detected' = bw /\ Then("peripheral", <<"unlock">>)
     ELSE /\ Then("peripheral", <<"unlock", "lock">> \o switchTo("analog") \o <<"unlock">>)
          /\ UNCHANGED detected
  /\ UNCHANGED <<lvgl, state, setting, receiver, found, analog, saving, vtx>>

(* scan_probe_hdzero_sweep: the stronger lock wins.                        *)
Look ==
  /\ At("peripheral", "look") /\ probed' = TRUE
  /\ found' \in IF rx_valid THEN {bw, found} \ {"none"} ELSE {found}
  /\ Done("peripheral")
  /\ UNCHANGED <<lvgl, state, setting, detected, receiver, analog, saving, vtx>>

VerdictAlways ==    \* takes a miss for a find
  /\ At("peripheral", "verdict")
  /\ Then("peripheral", <<"lock", "adopt">> \o switchTo("hdzero") \o <<"unlock">>)
  /\ UNCHANGED <<lvgl, state, setting, detected, receiver, found, analog, probed, saving, vtx>>

Verdict ==
  /\ At("peripheral", "verdict")
  /\ Then("peripheral",
          IF found = "none" THEN <<"close">>
          ELSE <<"lock", "adopt">> \o switchTo("hdzero") \o <<"unlock">>)
  /\ UNCHANGED <<lvgl, state, setting, detected, receiver, found, analog, probed, saving, vtx>>

Adopt ==
  /\ At("peripheral", "adopt") /\ detected' = found /\ found' = "none" /\ Done("peripheral")
  /\ UNCHANGED <<lvgl, state, setting, receiver, analog, probed, saving, vtx>>
-----------------------------------------------------------------------------
(* What a button does in each state of the app, and a channel command of   *)
(* the backpack (change_channel_hdzero, change_channel_analog) in any.     *)
go_sleep == <<"doze", "close", "avOff">>
wake_up ==
  <<"wake", previous>>
    \o (IF previous = "video" THEN app_switch_to_menu \o <<"video">> \o app_exit_menu ELSE <<>>)
btn_press == IF app = "video" THEN app_switch_to_menu ELSE app_exit_menu \o <<"video">>
pressed ==
  IF app = "sleep" THEN {wake_up}
  ELSE (IF "menu" \in Inputs THEN {btn_press} ELSE {})
         \cup (IF "sleep" \in Inputs THEN {go_sleep} ELSE {})
commanded == IF "retune" \in Inputs THEN {switchTo(s) : s \in Receivers} ELSE {}

(* Both take the lock first, and then look at the state of the app.        *)
Request ==
  /\ lvgl = "none"
  /\ \E t \in {"input", "backpack"} :
       /\ lvgl' = t
       /\ \E steps \in IF t = "input" THEN pressed ELSE commanded :
            Begin(t, steps \o <<"unlock">>)
  /\ UNCHANGED <<state, setting, detected, receiver, found, analog, probed, saving, vtx>>

Sleeping ==
  /\ \/ At("input", "doze") /\ previous' = app /\ app' = "sleep" /\ isSleeping' = TRUE
     \/ At("input", "wake") /\ isSleeping' = FALSE /\ UNCHANGED <<app, previous>>
  /\ Done("input")
  /\ UNCHANGED <<lvgl, source, setting, detected, receiver, found, analog, probed, saving, vtx>>

(* detect_motion, under the lock of the main loop, into OLED_MD_OFF and    *)
(* out of it: it switches off, and on, the receiver of the source on the   *)
(* screen, which a menu is not.                                            *)
detect_motion ==
  /\ "saver" \in Inputs /\ lvgl = "none" /\ ~isSleeping /\ saving' = ~saving
  /\ IF app = "video" /\ source = "hdzero"
     THEN /\ IF saving THEN HDZero_open(hdzero_effective_bw)
             ELSE open' = FALSE /\ garbage' = FALSE /\ bw' = bw
          /\ UNCHANGED avOn
     ELSE /\ avOn' = IF app = "video" THEN saving ELSE avOn
          /\ UNCHANGED receiver
  /\ UNCHANGED <<todo, lvgl, state, setting, detected, found, avDown, probed, vtx>>

(* The transmitter, or the dial, which stands for another transmitter.     *)
Transmitter ==
  /\ "vtx" \in Inputs /\ vtx' \in (Bandwidths \cup {"analog", "none"}) \ {vtx}
  /\ UNCHANGED <<todo, lvgl, state, setting, detected, receiver, found, analog, probed, saving>>
-----------------------------------------------------------------------------
Step(t) ==
  \/ Lock(t) \/ Unlock(t) \/ Open(t) \/ HDZero_Close(t) \/ rtc6715_init(t) \/ Notify(t)
  \/ app_state_push(t) \/ SetSource(t)

Peripheral ==
  \/ Tick \/ Recheck \/ Hop \/ IdleTick \/ Forget \/ ProbeAnalog \/ Compare \/ TryOther
  \/ Look \/ Verdict \/ Adopt
  \/ \E attempt \in BOOLEAN : BwTick(attempt) \/ CrossTick(attempt)

Next ==
  \/ (\E t \in Threads : Step(t)) \/ Peripheral \/ Request \/ Sleeping
  \/ detect_motion \/ Transmitter

Spec == Init /\ [][Next]_vars

(* Threads run, a mutex that keeps coming free is had, and a receiver that *)
(* stays dark gets its attempts. Nobody has to press anything.             *)
FairSpec ==
  /\ Spec /\ SF_vars(Lock("peripheral"))
  /\ WF_vars(Step("peripheral") \/ Peripheral) /\ WF_vars(Step("backpack"))
  /\ WF_vars(Step("input") \/ Sleeping)
  /\ SF_vars(BwTick(TRUE)) /\ SF_vars(CrossTick(TRUE))
-----------------------------------------------------------------------------
resting == lvgl = "none" /\ \A t \in Threads : todo[t] = <<>>

(* The analog receiver is on whenever analog video is on the screen and    *)
(* nobody is at work: neither the idle check, nor the probes, nor a way    *)
(* through menu, sleep or screen saver leaves it off.                      *)
AnalogStaysOn ==
  resting /\ app = "video" /\ source = "analog" /\ ~saving => avOn

(* A transmitter that stays on, of whatever kind the setting admits, gets  *)
(* its picture on the screen and keeps it, whatever the source and the     *)
(* bandwidth were, once video is left on the screen. For analog one thing  *)
(* may be in the way: analog_powered_down, cleared by a probe after another*)
(* thread has switched the receiver off, makes each later probe read one   *)
(* that has no power.                                                      *)
picture == IF source = "hdzero" THEN rx_valid ELSE av_bay_status
stale == ~avDown /\ ~avOn
Reacquired ==
  \A v \in Bandwidths \cup {"analog"} :
    <>[](/\ vtx = v /\ app = "video" /\ ~saving
         /\ (v = "narrow" => setting = "both") /\ (v = "analog" => ~stale))
      => <>[]picture
=============================================================================
