---------------------------- MODULE SettingsProofs ----------------------------
(***************************************************************************)
(* Proofs about Settings for every number of channels, every default       *)
(* channel and every range of the levels.                                  *)
(***************************************************************************)
EXTENDS Settings, TLAPS

\* The options menu is working on values that its screen shows, and on the
\* old values that are in effect.
OptionsInv ==
  ui = "options" \/ (ui = "debug" /\ dbg.back = "options") =>
    /\ text = Shown(opt)
    /\ opt.channel \in 1..MaxChannel
    /\ opt.channel_old = Stored("channel", DefChannel)
    /\ opt.wifi_old = Stored("wifi", 1)

\* The network that runs is the stored one until the options menu stores
\* another one and reboots.
NetworkInv ==
  ui # "boot" =>
    /\ ap = Stored("channel", DefChannel)
    /\ (splash = "ap") <=> (Stored("wifi", 1) # 0)

IInv ==
  /\ TypeOK
  /\ StoredChannelStarts
  /\ OptionsInv
  /\ NetworkInv

\* The stored values have their types, and a channel can always be started.
LEMMA StoredFacts ==
  ASSUME TypeOK, StoredChannelStarts
  PROVE  /\ Stored("kl", 0) \in Bit /\ Stored("wifi", 1) \in Bit
         /\ Stored("channel", DefChannel) \in 1..MaxChannel
<1>1. nvs.kl \in Bit \cup {Unset} /\ nvs.wifi \in Bit \cup {Unset}
      /\ nvs.channel \in 1..MaxChannel \cup {Unset}
  BY DEF TypeOK, StoredChannelStarts
<1>2. 0 \in Bit /\ 1 \in Bit /\ DefChannel \in 1..MaxChannel
  BY ChannelAssumption DEF Bit
<1> QED BY <1>1, <1>2 DEF Stored

\* The initial state of the settings.
LEMMA InitIInv == Init => IInv
<1> SUFFICES ASSUME Init PROVE IInv
  OBVIOUS
<1>0. /\ 0 \in Bit /\ 0 \in 0..MaxChannel /\ 0 \in 0..MaxLevel /\ MaxLevel \in 0..MaxLevel
      /\ Unset \in Int /\ 0 \in Int
  BY ChannelAssumption, LevelAssumption DEF Bit, Unset
<1>1. level \in [{"vol", "bright"} -> 0..MaxLevel]
  BY <1>0 DEF Init
<1>2. TypeOK
  BY <1>0, <1>1 DEF Init, TypeOK, NoOpt, NoText, NoDbg
<1>3. StoredChannelStarts /\ OptionsInv /\ NetworkInv
  BY DEF Init, StoredChannelStarts, OptionsInv, NetworkInv
<1> QED BY <1>2, <1>3 DEF IInv

\* A reboot is safe whatever was stored before it, if what was stored is.
LEMMA RebootIInv ==
  ASSUME Reboot, StoredChannelStarts', level' \in [{"vol", "bright"} -> 0..MaxLevel],
         nvs' \in [kl : Bit \cup {Unset}, wifi : Bit \cup {Unset}, channel : Int]
  PROVE  IInv'
<1>0. 0 \in Bit /\ 0 \in 0..MaxChannel /\ 0 \in 0..MaxLevel /\ 0 \in Int
  BY ChannelAssumption, LevelAssumption DEF Bit
<1>1. opt' = NoOpt /\ text' = NoText /\ dbg' = NoDbg /\ ui' = "boot" /\ ap' = 0
      /\ splash' = "none" /\ nvsOk' \in BOOLEAN
  BY DEF Reboot
<1>2. TypeOK'
  BY <1>0, <1>1 DEF TypeOK, NoOpt, NoText, NoDbg
<1>3. OptionsInv' /\ NetworkInv'
  BY <1>1 DEF OptionsInv, NetworkInv
<1> QED BY <1>2, <1>3 DEF IInv

\* A reboot that stores nothing.
LEMMA PlainRebootIInv == ASSUME IInv, Reboot, UNCHANGED <<nvs, level>> PROVE IInv'
<1>1. StoredChannelStarts' /\ level' \in [{"vol", "bright"} -> 0..MaxLevel]
      /\ nvs' \in [kl : Bit \cup {Unset}, wifi : Bit \cup {Unset}, channel : Int]
  BY DEF IInv, TypeOK, StoredChannelStarts
<1> QED BY <1>1, RebootIInv

\* The network starts on the stored channel, which is never refused.
LEMMA StartNetworkIInv == ASSUME IInv, StartNetwork PROVE IInv'
<1>1. Stored("channel", DefChannel) \in 1..MaxChannel
  BY StoredFacts DEF IInv
<1>2. /\ UNCHANGED <<nvs, level, nvsOk, opt, text, dbg>>
      /\ ap' = Stored("channel", DefChannel)
      /\ splash' = IF Stored("wifi", 1) # 0 THEN "ap" ELSE "off"
      /\ ui' = "splash"
  BY <1>1 DEF StartNetwork, SplashOf, local
<1>3. TypeOK'
  BY <1>1, <1>2 DEF IInv, TypeOK
<1>4. StoredChannelStarts' /\ OptionsInv'
  BY <1>2 DEF IInv, StoredChannelStarts, OptionsInv
<1>5. NetworkInv'
  BY <1>2 DEF NetworkInv, Stored
<1> QED BY <1>3, <1>4, <1>5 DEF IInv

\* The app menu starts with the network as stored.
LEMMA EnterMenuIInv == ASSUME IInv, EnterMenu PROVE IInv'
<1>1. UNCHANGED <<nvs, level, nvsOk, ap, splash, opt, text, dbg>> /\ ui = "splash" /\ ui' = "menu"
  BY DEF EnterMenu, local
<1>2. TypeOK' /\ StoredChannelStarts'
  BY <1>1 DEF IInv, TypeOK, StoredChannelStarts
<1>3. OptionsInv' /\ NetworkInv'
  BY <1>1 DEF IInv, OptionsInv, NetworkInv, Stored
<1> QED BY <1>2, <1>3 DEF IInv

\* The options menu starts with the stored values, which are in effect.
LEMMA MenuButtonsIInv ==
  ASSUME IInv, NEW power \in BOOLEAN, NEW start \in BOOLEAN, NEW select \in BOOLEAN,
         MenuButtons(power, start, select)
  PROVE  IInv'
<1>1. CASE power
  BY <1>1, PlainRebootIInv DEF MenuButtons
<1>2. CASE ~power /\ start
  <2>1. PICK next \in {"menu", "debug"} : opt' = LoadOptions(next)
    BY <1>2 DEF MenuButtons
  <2>2. UNCHANGED <<nvs, level, nvsOk, ap, splash, dbg>> /\ ui = "menu" /\ ui' = "options"
        /\ text' = Shown(opt')
    BY <1>2 DEF MenuButtons
  <2>3. Stored("kl", 0) \in Bit /\ Stored("wifi", 1) \in Bit
        /\ Stored("channel", DefChannel) \in 1..MaxChannel
    BY StoredFacts DEF IInv
  <2>4. opt' = [kl |-> Stored("kl", 0), wifi |-> Stored("wifi", 1),
                channel |-> Stored("channel", DefChannel), wifi_old |-> Stored("wifi", 1),
                channel_old |-> Stored("channel", DefChannel), then |-> next]
    BY <2>1, <2>3 DEF LoadOptions
  <2>5. level.vol \in 0..MaxLevel /\ level.bright \in 0..MaxLevel
    BY DEF IInv, TypeOK
  <2>6. text' = [kl |-> Stored("kl", 0), wifi |-> Stored("wifi", 1),
                 channel |-> Stored("channel", DefChannel),
                 vol |-> level.vol, bright |-> level.bright]
    BY <2>2, <2>4 DEF Shown
  <2>7. \A x \in 1..MaxChannel : x \in 0..MaxChannel /\ x \in Int
    BY ChannelAssumption
  <2>8. opt' \in [kl : Bit, wifi : Bit, channel : 0..MaxChannel, wifi_old : Bit,
                  channel_old : Int, then : {"menu", "debug"}]
        /\ text' \in [kl : Bit, wifi : Bit, channel : 0..MaxChannel, vol : 0..MaxLevel,
                      bright : 0..MaxLevel]
    BY <2>3, <2>4, <2>5, <2>6, <2>7
  <2>9. TypeOK' /\ StoredChannelStarts'
    BY <2>2, <2>8 DEF IInv, TypeOK, StoredChannelStarts
  <2>10. NetworkInv'
    BY <2>2 DEF IInv, NetworkInv, Stored
  <2>11. OptionsInv'
    BY <2>2, <2>3, <2>4 DEF OptionsInv, Stored, Shown
  <2> QED BY <2>9, <2>10, <2>11 DEF IInv
<1>3. CASE ~power /\ ~start
  <2>1. UNCHANGED <<nvs, level, nvsOk, ap, splash, opt, text>> /\ ui = "menu" /\ ui' = "debug"
        /\ dbg' = [back |-> "menu", released |-> FALSE]
    BY <1>3 DEF MenuButtons, DebugFrom
  <2>2. TypeOK' /\ StoredChannelStarts'
    BY <2>1 DEF IInv, TypeOK, StoredChannelStarts
  <2>3. NetworkInv' /\ OptionsInv'
    BY <2>1 DEF IInv, NetworkInv, OptionsInv, Stored
  <2> QED BY <2>2, <2>3 DEF IInv
<1> QED BY <1>1, <1>2, <1>3
\* Clamping keeps a value in its range.
LEMMA ClampFacts ==
  ASSUME NEW n \in Int, NEW low \in Int, NEW high \in Int, low <= high
  PROVE  Clamp(n, low, high) \in low..high
BY DEF Clamp

\* A toggled flag is a flag.
LEMMA NotFacts == \A v \in Bit : Not(v) \in Bit
BY DEF Not, Bit

\* What a change in the open options menu has to keep: new values of the
\* right types, shown as they are.
LEMMA OptionsStep ==
  ASSUME IInv, ui = "options",
         UNCHANGED <<nvs, nvsOk, ap, splash>>,
         ui' \in {"options", "debug"},
         dbg' \in [back : {"menu", "options"}, released : BOOLEAN],
         ui' = "debug" => dbg'.back = "options",
         NEW kl \in Bit, NEW wifi \in Bit, NEW channel \in 1..MaxChannel,
         opt' = [kl |-> kl, wifi |-> wifi, channel |-> channel, wifi_old |-> opt.wifi_old,
                 channel_old |-> opt.channel_old, then |-> opt.then],
         level' \in [{"vol", "bright"} -> 0..MaxLevel],
         text' = [kl |-> kl, wifi |-> wifi, channel |-> channel,
                  vol |-> level'["vol"], bright |-> level'["bright"]]
  PROVE  IInv'
<1>1. /\ opt.wifi_old \in Bit /\ opt.channel_old \in Int /\ opt.then \in {"menu", "debug"}
      /\ opt.channel_old = Stored("channel", DefChannel)
      /\ opt.wifi_old = Stored("wifi", 1)
  BY DEF IInv, TypeOK, OptionsInv
<1>2. channel \in 0..MaxChannel
  BY ChannelAssumption
<1>3. opt' \in [kl : Bit, wifi : Bit, channel : 0..MaxChannel, wifi_old : Bit,
                channel_old : Int, then : {"menu", "debug"}]
  BY <1>1, <1>2
<1>4. text' \in [kl : Bit, wifi : Bit, channel : 0..MaxChannel, vol : 0..MaxLevel,
                 bright : 0..MaxLevel]
  BY <1>2
<1>5. TypeOK' /\ StoredChannelStarts'
  BY <1>3, <1>4 DEF IInv, TypeOK, StoredChannelStarts
<1>6. NetworkInv'
  BY DEF IInv, NetworkInv, Stored
<1>7. OptionsInv'
  BY <1>1 DEF OptionsInv, Stored, Shown
<1> QED BY <1>5, <1>6, <1>7 DEF IInv

\* The values of the open options menu, one by one.
LEMMA OptionFields ==
  ASSUME IInv, ui = "options"
  PROVE  /\ opt.kl \in Bit /\ opt.wifi \in Bit /\ opt.channel \in 1..MaxChannel
         /\ opt = [kl |-> opt.kl, wifi |-> opt.wifi, channel |-> opt.channel,
                   wifi_old |-> opt.wifi_old, channel_old |-> opt.channel_old,
                   then |-> opt.then]
         /\ text = [kl |-> opt.kl, wifi |-> opt.wifi, channel |-> opt.channel,
                    vol |-> level["vol"], bright |-> level["bright"]]
         /\ level \in [{"vol", "bright"} -> 0..MaxLevel]
         /\ DOMAIN level = {"vol", "bright"}
<1>1. opt \in [kl : Bit, wifi : Bit, channel : 0..MaxChannel, wifi_old : Bit,
               channel_old : Int, then : {"menu", "debug"}]
      /\ level \in [{"vol", "bright"} -> 0..MaxLevel]
  BY DEF IInv, TypeOK
<1>2. text = Shown(opt) /\ opt.channel \in 1..MaxChannel
  BY DEF IInv, OptionsInv
<1> QED BY <1>1, <1>2 DEF Shown

\* Left and Right keep the values in range and the shown text up to date.
LEMMA ChangeIInv ==
  ASSUME IInv, NEW item \in {"kl", "wifi", "channel", "vol", "bright"}, NEW d \in {-1, 1},
         Change(item, d)
  PROVE  IInv'
<1>1. /\ ui = "options" /\ UNCHANGED <<nvs, nvsOk, ap, splash, ui, dbg>>
      /\ dbg' \in [back : {"menu", "options"}, released : BOOLEAN]
  BY DEF Change, IInv, TypeOK
<1>2. CASE item = "kl"
  <2>1. opt' = [opt EXCEPT !.kl = Not(@)] /\ level' = level /\ text' = [text EXCEPT !.kl = opt'.kl]
    BY <1>1, <1>2, OptionFields DEF Change
  <2>2. Not(opt.kl) \in Bit
    BY <1>1, OptionFields, NotFacts
  <2> QED BY <1>1, <2>1, <2>2, OptionFields, OptionsStep
<1>3. CASE item = "wifi"
  <2>1. opt' = [opt EXCEPT !.wifi = Not(@)] /\ level' = level
        /\ text' = [text EXCEPT !.wifi = opt'.wifi]
    BY <1>1, <1>3, OptionFields DEF Change
  <2>2. Not(opt.wifi) \in Bit
    BY <1>1, OptionFields, NotFacts
  <2> QED BY <1>1, <2>1, <2>2, OptionFields, OptionsStep
<1>4. CASE item = "channel"
  <2>1. opt' = [opt EXCEPT !.channel = Clamp(@ + d, 1, MaxChannel)] /\ level' = level
        /\ text' = [text EXCEPT !.channel = opt'.channel]
    BY <1>1, <1>4, OptionFields DEF Change
  <2>2. Clamp(opt.channel + d, 1, MaxChannel) \in 1..MaxChannel
    <3>1. opt.channel + d \in Int /\ 1 \in Int /\ MaxChannel \in Int /\ 1 <= MaxChannel
      <4>1. opt.channel \in 1..MaxChannel
        BY <1>1, OptionFields
      <4> QED BY <4>1, ChannelAssumption
    <3> QED BY <3>1, ClampFacts
  <2> QED BY <1>1, <2>1, <2>2, OptionFields, OptionsStep
<1>5. CASE item \in {"vol", "bright"}
  <2>1. opt' = opt /\ level' = [level EXCEPT ![item] = Clamp(@ + d * Step, 0, MaxLevel)]
        /\ text' = [text EXCEPT ![item] = level'[item]]
    BY <1>1, <1>5, OptionFields DEF Change
  <2>2. level[item] \in Int /\ d * Step \in Int /\ MaxLevel \in Nat
    BY <1>1, <1>5, OptionFields, LevelAssumption
  <2>3. Clamp(level[item] + d * Step, 0, MaxLevel) \in 0..MaxLevel
    <3>1. level[item] + d * Step \in Int /\ 0 \in Int /\ MaxLevel \in Int /\ 0 <= MaxLevel
      BY <2>2
    <3> QED BY <3>1, ClampFacts
  <2>4. level' \in [{"vol", "bright"} -> 0..MaxLevel]
    BY <2>1, <2>3, <1>1, <1>5, OptionFields
  <2>5. text' = [kl |-> opt.kl, wifi |-> opt.wifi, channel |-> opt.channel,
                 vol |-> level'["vol"], bright |-> level'["bright"]]
    <3>1. text = [kl |-> opt.kl, wifi |-> opt.wifi, channel |-> opt.channel,
                  vol |-> level["vol"], bright |-> level["bright"]]
          /\ DOMAIN level = {"vol", "bright"}
      BY <1>1, OptionFields
    <3>2. CASE item = "vol"
      <4>1. level'["bright"] = level["bright"] /\ text' = [text EXCEPT !["vol"] = level'["vol"]]
        BY <2>1, <3>1, <3>2
      <4> QED BY <3>1, <4>1
    <3>3. CASE item = "bright"
      <4>1. level'["vol"] = level["vol"] /\ text' = [text EXCEPT !["bright"] = level'["bright"]]
        BY <2>1, <3>1, <3>3
      <4> QED BY <3>1, <4>1
    <3> QED BY <1>5, <3>2, <3>3
  <2> QED BY <1>1, <2>1, <2>4, <2>5, OptionFields, OptionsStep, ZenonT(60)
<1> QED BY <1>2, <1>3, <1>4, <1>5

\* A keeps the shown text up to date; the debug screen comes back to it.
LEMMA SelectIInv ==
  ASSUME IInv, NEW item \in {"kl", "wifi", "channel", "vol", "bright", "debug"}, Select(item)
  PROVE  IInv'
<1>1. ui = "options" /\ UNCHANGED <<nvs, level, nvsOk, ap, splash>>
  BY DEF Select
<1>2. /\ dbg' \in [back : {"menu", "options"}, released : BOOLEAN]
      /\ ui' \in {"options", "debug"}
      /\ ui' = "debug" => dbg'.back = "options"
  <2>1. dbg \in [back : {"menu", "options"}, released : BOOLEAN]
    BY DEF IInv, TypeOK
  <2>2. CASE item = "debug"
    <3>1. ui' = "debug" /\ dbg' = [back |-> "options", released |-> FALSE]
      BY <2>2 DEF Select, DebugFrom
    <3> QED BY <3>1
  <2>3. CASE item # "debug"
    <3>1. ui' = "options" /\ dbg' = dbg
      BY <1>1, <2>3 DEF Select
    <3> QED BY <2>1, <3>1
  <2> QED BY <2>2, <2>3
<1>3. CASE item = "kl"
  <2>1. opt' = [opt EXCEPT !.kl = Not(@)] /\ text' = [text EXCEPT !.kl = opt'.kl]
    BY <1>3 DEF Select
  <2>2. Not(opt.kl) \in Bit
    BY <1>1, OptionFields, NotFacts
  <2> QED BY <1>1, <1>2, <2>1, <2>2, OptionFields, OptionsStep
<1>4. CASE item = "wifi"
  <2>1. opt' = [opt EXCEPT !.wifi = Not(@)] /\ text' = [text EXCEPT !.wifi = opt'.wifi]
    BY <1>4 DEF Select
  <2>2. Not(opt.wifi) \in Bit
    BY <1>1, OptionFields, NotFacts
  <2> QED BY <1>1, <1>2, <2>1, <2>2, OptionFields, OptionsStep
<1>5. CASE item \notin {"kl", "wifi"}
  <2>1. opt' = opt /\ text' = text
    BY <1>5 DEF Select
  <2> QED BY <1>1, <1>2, <2>1, OptionFields, OptionsStep
<1> QED BY <1>3, <1>4, <1>5

\* Leaving the options menu stores a channel in range, and reboots unless the
\* stored network is still the running one.
LEMMA LeaveOptionsIInv == ASSUME IInv, LeaveOptions PROVE IInv'
<1>1. ui = "options" /\ level' = level
  BY DEF LeaveOptions
<1>2. /\ nvs' \in [kl : Bit \cup {Unset}, wifi : Bit \cup {Unset}, channel : Int]
      /\ StoredChannelStarts'
  <2>1. CASE nvsOk
    <3>1. nvs' = [kl |-> opt.kl, wifi |-> opt.wifi, channel |-> opt.channel]
      BY <2>1 DEF LeaveOptions
    <3>2. opt.channel \in Int
      BY <1>1, OptionFields, ChannelAssumption
    <3> QED BY <1>1, <3>1, <3>2, OptionFields DEF StoredChannelStarts
  <2>2. CASE ~nvsOk
    BY <2>2 DEF LeaveOptions, IInv, TypeOK, StoredChannelStarts
  <2> QED BY <2>1, <2>2
<1>3. CASE NeedsReboot
  <2>1. Reboot
    BY <1>3 DEF LeaveOptions
  <2>2. level' \in [{"vol", "bright"} -> 0..MaxLevel]
    BY <1>1 DEF IInv, TypeOK
  <2> QED BY <1>2, <2>1, <2>2, RebootIInv
<1>4. CASE ~NeedsReboot
  <2>1. /\ UNCHANGED <<nvsOk, ap, splash>> /\ ui' = opt.then /\ opt' = NoOpt /\ text' = NoText
        /\ dbg' = IF opt.then = "debug" THEN DebugFrom("menu") ELSE dbg
    BY <1>4 DEF LeaveOptions
  <2>2. opt.then \in {"menu", "debug"} /\ opt.wifi = opt.wifi_old /\ opt.channel = opt.channel_old
    BY <1>4 DEF NeedsReboot, IInv, TypeOK
  <2>3. 0 \in Bit /\ 0 \in 0..MaxChannel /\ 0 \in 0..MaxLevel /\ 0 \in Int
    BY ChannelAssumption, LevelAssumption DEF Bit
  <2>4. TypeOK'
    BY <1>1, <1>2, <2>1, <2>2, <2>3 DEF IInv, TypeOK, NoOpt, NoText, DebugFrom
  <2>5. OptionsInv'
    BY <2>1, <2>2 DEF OptionsInv, DebugFrom
  <2>6. opt.channel_old = Stored("channel", DefChannel) /\ opt.wifi_old = Stored("wifi", 1)
        /\ ap = Stored("channel", DefChannel) /\ ((splash = "ap") <=> (Stored("wifi", 1) # 0))
    BY <1>1 DEF IInv, OptionsInv, NetworkInv
  <2>7. Stored("channel", DefChannel)' = opt.channel /\ Stored("wifi", 1)' = opt.wifi
    <3>1. CASE nvsOk
      <4>1. nvs'["channel"] = opt.channel /\ nvs'["wifi"] = opt.wifi
        BY <3>1 DEF LeaveOptions
      <4>2. opt.channel # Unset /\ opt.wifi # Unset
        BY <1>1, OptionFields, ChannelAssumption DEF Bit, Unset
      <4> QED BY <2>1, <3>1, <4>1, <4>2 DEF Stored
    <3>2. CASE ~nvsOk
      BY <2>1, <2>2, <2>6, <3>2 DEF Stored
    <3> QED BY <3>1, <3>2
  <2>8. NetworkInv'
    BY <2>1, <2>2, <2>6, <2>7 DEF NetworkInv
  <2> QED BY <1>2, <2>4, <2>5, <2>8 DEF IInv
<1> QED BY <1>3, <1>4

\* Settings stored in part are legal settings.
LEMMA CutWhileStoringIInv ==
  ASSUME IInv, NEW fields \in {{"kl"}, {"kl", "wifi"}}, CutWhileStoring(fields)
  PROVE  IInv'
<1>1. /\ ui = "options" /\ level' = level /\ Reboot
      /\ nvs' = [f \in DOMAIN nvs |-> IF f \in fields THEN opt[f] ELSE nvs[f]]
  BY DEF CutWhileStoring
<1>2. opt.kl \in Bit /\ opt.wifi \in Bit
  BY <1>1, OptionFields
<1>3. nvs \in [kl : Bit \cup {Unset}, wifi : Bit \cup {Unset}, channel : Int]
      /\ level' \in [{"vol", "bright"} -> 0..MaxLevel]
  BY <1>1 DEF IInv, TypeOK
<1>4. DOMAIN nvs = {"kl", "wifi", "channel"} /\ "kl" \in fields /\ "channel" \notin fields
  BY <1>3
<1>5. nvs' = [kl |-> opt.kl, wifi |-> IF "wifi" \in fields THEN opt.wifi ELSE nvs.wifi,
              channel |-> nvs.channel]
  BY <1>1, <1>4
<1>6. nvs' \in [kl : Bit \cup {Unset}, wifi : Bit \cup {Unset}, channel : Int]
      /\ StoredChannelStarts'
  BY <1>2, <1>3, <1>5 DEF IInv, StoredChannelStarts
<1> QED BY <1>1, <1>3, <1>6, RebootIInv

\* The debug screen changes no setting.
LEMMA DebugPollIInv == ASSUME IInv, NEW select \in BOOLEAN, DebugPoll(select) PROVE IInv'
<1>1. UNCHANGED <<nvs, level, nvsOk, ap, splash, opt, text>> /\ ui = "debug"
  BY DEF DebugPoll
<1>2. dbg \in [back : {"menu", "options"}, released : BOOLEAN]
  BY DEF IInv, TypeOK
<1>3. \/ ui' = dbg.back /\ dbg' = NoDbg
      \/ ui' = "debug" /\ dbg' = [back |-> dbg.back, released |-> TRUE]
      \/ ui' = "debug" /\ dbg' = dbg
  BY <1>1, <1>2 DEF DebugPoll
<1>4. TypeOK' /\ StoredChannelStarts'
  <2>1. dbg' \in [back : {"menu", "options"}, released : BOOLEAN]
    <3>1. NoDbg \in [back : {"menu", "options"}, released : BOOLEAN]
      BY DEF NoDbg
    <3>2. dbg.back \in {"menu", "options"} /\ TRUE \in BOOLEAN
      BY <1>2
    <3>3. [back |-> dbg.back, released |-> TRUE]
            \in [back : {"menu", "options"}, released : BOOLEAN]
      BY <3>2
    <3> QED BY <1>2, <1>3, <3>1, <3>3
  <2>2. ui' \in {"boot", "splash", "menu", "options", "debug"}
    BY <1>2, <1>3
  <2> QED BY <1>1, <2>1, <2>2 DEF IInv, TypeOK, StoredChannelStarts
<1>5. NetworkInv' /\ OptionsInv'
  BY <1>1, <1>2, <1>3 DEF IInv, NetworkInv, OptionsInv, Stored, Shown, NoDbg
<1> QED BY <1>4, <1>5 DEF IInv

\* The invariant is inductive: every step keeps it.
LEMMA NextIInv == ASSUME IInv, [Next]_vars PROVE IInv'
<1>1. CASE StartNetwork
  BY <1>1, StartNetworkIInv
<1>2. CASE EnterMenu
  BY <1>2, EnterMenuIInv
<1>3. ASSUME NEW power \in BOOLEAN, NEW start \in BOOLEAN, NEW select \in BOOLEAN,
             MenuButtons(power, start, select)
      PROVE  IInv'
  BY <1>3, MenuButtonsIInv
<1>4. ASSUME NEW item \in {"kl", "wifi", "channel", "vol", "bright"}, NEW d \in {-1, 1},
             Change(item, d)
      PROVE  IInv'
  BY <1>4, ChangeIInv
<1>5. CASE ChangeNothing \/ PowerCut
  BY <1>5, PlainRebootIInv DEF ChangeNothing, PowerCut
<1>6. ASSUME NEW item \in {"kl", "wifi", "channel", "vol", "bright", "debug"}, Select(item)
      PROVE  IInv'
  BY <1>6, SelectIInv
<1>7. CASE LeaveOptions
  BY <1>7, LeaveOptionsIInv
<1>8. ASSUME NEW fields \in {{"kl"}, {"kl", "wifi"}}, CutWhileStoring(fields) PROVE IInv'
  BY <1>8, CutWhileStoringIInv
<1>9. ASSUME NEW select \in BOOLEAN, DebugPoll(select) PROVE IInv'
  BY <1>9, DebugPollIInv
<1>10. CASE UNCHANGED vars
  BY <1>10 DEF vars, IInv, TypeOK, StoredChannelStarts, OptionsInv, NetworkInv, Stored, Shown
<1> QED
  BY <1>1, <1>2, <1>3, <1>4, <1>5, <1>6, <1>7, <1>8, <1>9, <1>10 DEF Next, Options

\* The inductive invariant holds in every reachable state.
THEOREM Inductive == Spec => []IInv
<1>1. Init => IInv
  BY InitIInv
<1>2. IInv /\ [Next]_vars => IInv'
  BY NextIInv
<1> QED BY <1>1, <1>2, PTL DEF Spec

\* The settings, the levels and the menus stay well typed.
THEOREM TypeCorrect == Spec => []TypeOK
<1>1. IInv => TypeOK
  BY DEF IInv
<1> QED BY <1>1, Inductive, PTL

\* No setting that the chooser stores can make its next start-up abort.
THEOREM ChannelStarts == Spec => []StoredChannelStarts
<1>1. IInv => StoredChannelStarts
  BY DEF IInv
<1> QED BY <1>1, Inductive, PTL

\* Outside the options menu the network runs as stored.
THEOREM InEffect == Spec => []SettingsInEffect
<1>1. IInv => SettingsInEffect
  BY DEF IInv, NetworkInv, SettingsInEffect
<1> QED BY <1>1, Inductive, PTL

\* The options menu shows what it will store.
THEOREM Shows == Spec => []ShownIsSet
<1>1. IInv => ShownIsSet
  BY DEF IInv, OptionsInv, ShownIsSet
<1> QED BY <1>1, Inductive, PTL

\* A step that changes the stored settings leaves the options menu and stores
\* what the menu shows; a value that it does not store keeps its old value,
\* and the device restarts.
LEMMA StoreStep ==
  ASSUME IInv, [Next]_vars, nvs' # nvs
  PROVE  /\ ui = "options" /\ ui' # "options"
         /\ \A f \in DOMAIN nvs : nvs'[f] = text[f] \/ (ui' = "boot" /\ nvs'[f] = nvs[f])
<1>1. LeaveOptions \/ \E fields \in {{"kl"}, {"kl", "wifi"}} : CutWhileStoring(fields)
  BY DEF Next, Options, StartNetwork, EnterMenu, MenuButtons, Change, ChangeNothing, Select,
         DebugPoll, PowerCut, vars
<1>2. ui = "options"
  BY <1>1 DEF LeaveOptions, CutWhileStoring
<1>3. DOMAIN nvs = {"kl", "wifi", "channel"}
  <2>1. nvs \in [kl : Bit \cup {Unset}, wifi : Bit \cup {Unset}, channel : Int]
    BY DEF IInv, TypeOK
  <2> QED BY <2>1
<1>4. text.kl = opt.kl /\ text.wifi = opt.wifi /\ text.channel = opt.channel
  BY <1>2, OptionFields
<1>5. CASE LeaveOptions
  <2>1. nvs' = [kl |-> opt.kl, wifi |-> opt.wifi, channel |-> opt.channel]
    BY <1>5 DEF LeaveOptions
  <2>2. opt.then \in {"menu", "debug"}
    BY DEF IInv, TypeOK
  <2>3. ui' # "options"
    BY <1>5, <2>2 DEF LeaveOptions, Reboot
  <2> QED BY <1>2, <1>3, <1>4, <2>1, <2>3
<1>6. ASSUME NEW fields \in {{"kl"}, {"kl", "wifi"}}, CutWhileStoring(fields)
      PROVE  /\ ui' = "boot"
             /\ \A f \in DOMAIN nvs : nvs'[f] = text[f] \/ nvs'[f] = nvs[f]
  <2>1. ui' = "boot" /\ nvs' = [f \in DOMAIN nvs |-> IF f \in fields THEN opt[f] ELSE nvs[f]]
    BY <1>6 DEF CutWhileStoring, Reboot
  <2>2. \A f \in DOMAIN nvs : text[f] = opt[f]
    BY <1>3, <1>4
  <2> QED BY <2>1, <2>2
<1> QED BY <1>1, <1>2, <1>5, <1>6

\* Only leaving the options menu stores settings, and it stores what was shown.
THEOREM StoresShown == Spec => StoredAsShown
<1>1. IInv /\ [Next]_vars =>
        [nvs' # nvs =>
           /\ ui = "options" /\ ui' # "options"
           /\ \A f \in DOMAIN nvs : nvs'[f] = text[f] \/ (ui' = "boot" /\ nvs'[f] = nvs[f])]_vars
  BY StoreStep
<1> QED BY <1>1, Inductive, PTL DEF Spec, StoredAsShown
===============================================================================
