------------------------------- MODULE Settings -------------------------------
(***************************************************************************)
(* The chooser's settings: app_main's network start (main/main.c) and      *)
(* guiSplash, the options menu, its callback and the debug screen          *)
(* (main/gui.c), over the NVS namespace "8bkc".                            *)
(*                                                                         *)
(* NVS, WiFi and the menu widget are external: nvs_open may fail for a     *)
(* whole start-up, esp_wifi_set_config accepts the channels 1..13, and the *)
(* menu calls the callback with a button and the selected item.            *)
(***************************************************************************)
EXTENDS Integers

CONSTANTS
  MaxChannel,   \* 13
  DefChannel,   \* 5
  MaxLevel,     \* 255, of volume and brightness
  Step          \* 10, of volume and brightness

ASSUME ChannelAssumption == MaxChannel \in Nat /\ DefChannel \in 1..MaxChannel
ASSUME LevelAssumption   == MaxLevel \in Nat /\ Step \in Nat \ {0}

VARIABLES
  nvs,     \* the stored kl, wifi and channel; Unset if nothing was stored
  level,   \* volume and brightness, kept by the HAL
  nvsOk,   \* nvs_open works (since this start-up)
  ap,      \* channel of the running access point, 0 if it is down
  splash,  \* what guiSplash showed: "none", "ap" or "off"
  ui,      \* "boot", "splash", "menu", "options" or "debug"
  opt,     \* show_options: keylock, wifi_en, channel and the old values
  text,    \* what the menu shows for each option
  dbg      \* debug_screen: where it returns to, selReleased

vars == <<nvs, level, nvsOk, ap, splash, ui, opt, text, dbg>>
local == <<opt, text, dbg>>

Unset == -1
Stored(field, default) == IF nvsOk /\ nvs[field] # Unset THEN nvs[field] ELSE default

NoOpt  == [kl |-> 0, wifi |-> 0, channel |-> 0, wifi_old |-> 0, channel_old |-> 0,
           then |-> "menu"]
NoText == [kl |-> 0, wifi |-> 0, channel |-> 0, vol |-> 0, bright |-> 0]
NoDbg  == [back |-> "menu", released |-> FALSE]

Init ==
  /\ nvs = [kl |-> Unset, wifi |-> Unset, channel |-> Unset]
  /\ level \in [{"vol", "bright"} -> {0, MaxLevel}]
  /\ nvsOk = TRUE
  /\ ap = 0 /\ splash = "none" /\ ui = "boot"
  /\ opt = NoOpt /\ text = NoText /\ dbg = NoDbg

\* kchal_boot_into_new_app without an app, a panic, or power off and on.
Reboot ==
  /\ ui' = "boot" /\ ap' = 0 /\ splash' = "none"
  /\ opt' = NoOpt /\ text' = NoText /\ dbg' = NoDbg
  /\ nvsOk' \in BOOLEAN

(***************************************************************************)
(* app_main and guiSplash                                                  *)
(***************************************************************************)

\* What guiSplash tells of the WiFi setting.
SplashOf == IF Stored("wifi", 1) # 0 THEN "ap" ELSE "off"

\* The access point is started on the stored channel; ESP_ERROR_CHECK aborts
\* if the channel is refused. WiFi is started whatever the wifi setting says.
StartNetwork ==
  /\ ui = "boot"
  /\ LET channel == Stored("channel", DefChannel)
     IN  IF channel \in 1..MaxChannel
         THEN /\ ap' = channel
              /\ splash' = SplashOf
              /\ ui' = "splash"
              /\ UNCHANGED <<nvsOk, local>>
         ELSE Reboot
  /\ UNCHANGED <<nvs, level>>

\* guiMenu waits for a button and shows the app menu.
EnterMenu ==
  /\ ui = "splash"
  /\ ui' = "menu"
  /\ UNCHANGED <<nvs, level, nvsOk, ap, splash, local>>

(***************************************************************************)
(* fccallback: the buttons of the app menu; several may be down at once.   *)
(***************************************************************************)

Shown(o) ==
  [kl |-> o.kl, wifi |-> o.wifi, channel |-> o.channel,
   vol |-> level["vol"], bright |-> level["bright"]]

\* show_options loads the stored values. The old channel is taken before a
\* channel out of range is replaced.
LoadOptions(next) ==
  LET stored == Stored("channel", DefChannel)
  IN  [kl          |-> Stored("kl", 0),
       wifi        |-> Stored("wifi", 1),
       channel     |-> IF stored \in 1..MaxChannel THEN stored ELSE DefChannel,
       wifi_old    |-> Stored("wifi", 1),
       channel_old |-> stored,
       then        |-> next]

DebugFrom(back) == [back |-> back, released |-> FALSE]

MenuButtons(power, start, select) ==
  /\ ui = "menu"
  /\ IF power THEN Reboot
     ELSE IF start
     THEN /\ ui' = "options"
          /\ opt' = LoadOptions(IF select THEN "debug" ELSE "menu")
          /\ text' = Shown(opt')
          /\ UNCHANGED <<nvsOk, ap, splash, dbg>>
     ELSE /\ select
          /\ ui' = "debug" /\ dbg' = DebugFrom("menu")
          /\ UNCHANGED <<nvsOk, ap, splash, opt, text>>
  /\ UNCHANGED <<nvs, level>>

(***************************************************************************)
(* option_menu_cb and the loop of show_options                             *)
(***************************************************************************)

Not(v) == IF v = 0 THEN 1 ELSE 0
\* Wrong variant: one too many.
ClampOneMore(n, low, high) == IF n < low THEN low ELSE IF n > high + 1 THEN high + 1 ELSE n

Clamp(n, low, high) == IF n < low THEN low ELSE IF n > high THEN high ELSE n

\* Left or Right (d = -1, 1) on an entry that is an option.
Change(item, d) ==
  /\ ui = "options"
  /\ opt' = CASE item = "kl"      -> [opt EXCEPT !.kl = Not(@)]
              [] item = "wifi"    -> [opt EXCEPT !.wifi = Not(@)]
              [] item = "channel" -> [opt EXCEPT !.channel = Clamp(@ + d, 1, MaxChannel)]
              [] OTHER            -> opt
  /\ level' = IF item \in DOMAIN level
              THEN [level EXCEPT ![item] = Clamp(@ + d * Step, 0, MaxLevel)]
              ELSE level
  /\ text' = [text EXCEPT ![item] = IF item \in DOMAIN level THEN level'[item] ELSE opt'[item]]
  /\ UNCHANGED <<nvs, nvsOk, ap, splash, ui, dbg>>

\* Left or Right on "Debug info" or "Exit", which have no option data: the
\* callback reads through a null pointer, and the panic handler reboots.
ChangeNothing ==
  /\ ui = "options"
  /\ Reboot
  /\ UNCHANGED <<nvs, level>>

\* A on an entry: the menu returns its number. Key lock and WiFi are toggled.
Select(item) ==
  /\ ui = "options"
  /\ opt' = CASE item = "kl"   -> [opt EXCEPT !.kl = Not(@)]
              [] item = "wifi" -> [opt EXCEPT !.wifi = Not(@)]
              [] OTHER         -> opt
  /\ text' = IF item \in {"kl", "wifi"} THEN [text EXCEPT ![item] = opt'[item]] ELSE text
  /\ IF item = "debug"
     THEN ui' = "debug" /\ dbg' = DebugFrom("options")
     ELSE UNCHANGED <<ui, dbg>>
  /\ UNCHANGED <<nvs, level, nvsOk, ap, splash>>

\* Wrong variant: a new channel does not restart the network.
NeedsRebootWifi == opt.wifi_old # opt.wifi

NeedsReboot == opt.wifi_old # opt.wifi \/ opt.channel # opt.channel_old

\* Wrong variant: two of the keys are swapped.
LeaveOptionsSwapped ==
  /\ ui = "options"
  /\ nvs' = IF nvsOk THEN [kl |-> opt.wifi, wifi |-> opt.kl, channel |-> opt.channel] ELSE nvs
  /\ IF NeedsReboot THEN Reboot
     ELSE /\ ui' = opt.then
          /\ dbg' = IF opt.then = "debug" THEN DebugFrom("menu") ELSE dbg
          /\ opt' = NoOpt /\ text' = NoText
          /\ UNCHANGED <<nvsOk, ap, splash>>
  /\ UNCHANGED level

\* B, or A on "Exit": store the settings, and reboot if the network changed.
LeaveOptions ==
  /\ ui = "options"
  /\ nvs' = IF nvsOk THEN [kl |-> opt.kl, wifi |-> opt.wifi, channel |-> opt.channel] ELSE nvs
  /\ IF NeedsReboot THEN Reboot
     ELSE /\ ui' = opt.then
          /\ dbg' = IF opt.then = "debug" THEN DebugFrom("menu") ELSE dbg
          /\ opt' = NoOpt /\ text' = NoText
          /\ UNCHANGED <<nvsOk, ap, splash>>
  /\ UNCHANGED level

\* The power fails between two of the three nvs_set_u8 calls.
CutWhileStoring(fields) ==
  /\ ui = "options" /\ nvsOk
  /\ nvs' = [f \in DOMAIN nvs |-> IF f \in fields THEN opt[f] ELSE nvs[f]]
  /\ Reboot
  /\ UNCHANGED level

\* One round of debug_screen: Select must be seen up before it ends it.
DebugPoll(select) ==
  /\ ui = "debug"
  /\ IF select /\ dbg.released
     THEN ui' = dbg.back /\ dbg' = NoDbg
     ELSE dbg' = [dbg EXCEPT !.released = @ \/ ~select] /\ UNCHANGED ui
  /\ UNCHANGED <<nvs, level, nvsOk, ap, splash, opt, text>>

PowerCut ==
  /\ Reboot
  /\ UNCHANGED <<nvs, level>>

Options ==
  \/ \E item \in {"kl", "wifi", "channel", "vol", "bright"}, d \in {-1, 1} : Change(item, d)
  \/ ChangeNothing
  \/ \E item \in {"kl", "wifi", "channel", "vol", "bright", "debug"} : Select(item)
  \/ LeaveOptions
  \/ \E fields \in {{"kl"}, {"kl", "wifi"}} : CutWhileStoring(fields)

Next ==
  \/ StartNetwork
  \/ EnterMenu
  \/ \E power, start, select \in BOOLEAN : MenuButtons(power, start, select)
  \/ Options
  \/ \E select \in BOOLEAN : DebugPoll(select)
  \/ PowerCut

Spec == Init /\ [][Next]_vars

(***************************************************************************)
(* Properties.                                                             *)
(***************************************************************************)

Bit == {0, 1}

\* Type correctness; volume and brightness stay in 0..255.
TypeOK ==
  /\ nvs \in [kl : Bit \cup {Unset}, wifi : Bit \cup {Unset},
              channel : Int]
  /\ level \in [{"vol", "bright"} -> 0..MaxLevel]
  /\ nvsOk \in BOOLEAN
  /\ ap \in 0..MaxChannel
  /\ splash \in {"none", "ap", "off"}
  /\ ui \in {"boot", "splash", "menu", "options", "debug"}
  /\ opt \in [kl : Bit, wifi : Bit, channel : 0..MaxChannel, wifi_old : Bit,
              channel_old : Int, then : {"menu", "debug"}]
  /\ text \in [kl : Bit, wifi : Bit, channel : 0..MaxChannel, vol : 0..MaxLevel,
               bright : 0..MaxLevel]
  /\ dbg \in [back : {"menu", "options"}, released : BOOLEAN]

\* The chooser never stores a channel that its next start-up would refuse:
\* ESP_ERROR_CHECK would abort every start-up from then on.
StoredChannelStarts == nvs.channel \in 1..MaxChannel \cup {Unset}

\* Outside the options menu the access point runs on the stored channel and
\* the splash screen told the stored WiFi setting: whoever changes one of
\* them is rebooted, and nobody leaves the menu with a stale network.
SettingsInEffect ==
  ui \in {"splash", "menu"} \/ (ui = "debug" /\ dbg.back = "menu") =>
    /\ ap = Stored("channel", DefChannel)
    /\ (splash = "ap") <=> (Stored("wifi", 1) # 0)

\* The options menu shows the values that it will store, whichever of the
\* ways to change one was used.
ShownIsSet ==
  ui = "options" => text = Shown(opt)

\* Only leaving the options menu changes what is stored, and what is stored
\* then is what the menu shows: all of it, unless the device restarts at once.
StoredAsShown ==
  [][nvs' # nvs =>
       /\ ui = "options" /\ ui' # "options"
       /\ \A f \in DOMAIN nvs : nvs'[f] = text[f] \/ (ui' = "boot" /\ nvs'[f] = nvs[f])]_vars
===============================================================================
