------------------------------- MODULE Startup --------------------------------
(***************************************************************************)
(* The first half of app_main (main/main.c): recovery mode, charging and   *)
(* key lock, and the restarts and power-downs they end in. What happens    *)
(* once the device is ready is in FileServer and Settings.                 *)
(*                                                                         *)
(* The RTC store register survives restarts. Its fields are the magic byte *)
(* (0xA5: boot the app; 0xA6: an app went to sleep with the key lock on),  *)
(* the override bit 0x100 and the handle of the app. The bootloader, the   *)
(* HAL (kchal) and running apps are external. Buttons and charger are read *)
(* anew by every poll, and may say anything.                               *)
(***************************************************************************)
EXTENDS Integers, FiniteSets

CONSTANTS
  Apps,        \* handles of apps
  NoApp,
  Blocks,      \* 64 KiB blocks of the appfs partition, 1..Blocks
  FullPolls,   \* polls that say "full" until the ADC is calibrated (32)
  LockPolls    \* polls the key lock lasts (15)

ASSUME AppsAssumption  == NoApp \notin Apps
ASSUME SizesAssumption == Blocks \in Nat \ {0} /\ FullPolls \in Nat \ {0}
                          /\ LockPolls \in Nat \ {0}

VARIABLES
  pc,        \* where the device is
  reg,       \* the RTC store register
  bootval,   \* kchal_rtc_reg_bootup_val: the register at start-up
  choice,    \* the recovery menu's answer, -1 if recovery was not entered
  erased,    \* the blocks of appfs erased since recovery began
  nextBlock, \* the erase loop's next block
  nvsErased, \* NVS was erased since recovery began
  failed,    \* the screen said FAILED
  chg,       \* handleCharging: fullCtr, fixFull, icon
  cals,      \* history: calls of kchal_cal_adc while charging
  fullRun,   \* history: polls in a row that said "full"
  lock,      \* handleKeyLock: loop counter, A was down at the last poll
  slept,     \* history: the app that went to sleep
  asked      \* history: the power button was pressed on the charging screen,
             \* and the restart it causes has not passed the charger test yet

recovery == <<choice, erased, nextBlock, nvsErased, failed>>
charging == <<chg, cals, fullRun>>
people == <<slept, asked>>
vars == <<pc, reg, bootval, recovery, charging, lock, people>>

Reg(magic, override, app) == [magic |-> magic, override |-> override, app |-> app]
ClearReg == Reg("none", FALSE, NoApp)
NotCharging == [fullCtr |-> 0, fixFull |-> FALSE, icon |-> "none"]
NotLocked == [i |-> 0, oldA |-> FALSE]

Init ==
  /\ pc = "off"
  /\ reg = ClearReg /\ bootval = ClearReg
  /\ choice = -1 /\ erased = {} /\ nextBlock = 1 /\ nvsErased = FALSE /\ failed = FALSE
  /\ chg = NotCharging /\ cals = 0 /\ fullRun = 0
  /\ lock = NotLocked
  /\ slept = NoApp /\ asked = FALSE

(***************************************************************************)
(* Bootloader and apps.                                                    *)
(***************************************************************************)

\* Power on, or a restart: an app if the register says so, else the chooser.
\* kchal_init_hw keeps the register's value; it may clear the register.
PowerOn ==
  /\ pc = "off"
  /\ IF reg.magic = "A5"
     THEN pc' = "app" /\ UNCHANGED <<reg, bootval>>
     ELSE /\ pc' = "init"
          /\ bootval' = reg
          /\ reg' \in {reg, ClearReg}
  /\ UNCHANGED <<recovery, charging, lock, people>>

\* The app powers the device down, with the key lock on or off, or goes back
\* to the chooser.
AppSleeps(locked) ==
  /\ pc = "app"
  /\ pc' = "off"
  /\ slept' = reg.app
  /\ reg' = IF locked THEN [reg EXCEPT !.magic = "A6"] ELSE ClearReg
  /\ UNCHANGED <<bootval, recovery, charging, lock, asked>>

(***************************************************************************)
(* do_recovery_mode                                                        *)
(***************************************************************************)

\* Start and Select are held, and nothing else; or they are not.
CheckRecovery(held) ==
  /\ pc = "init"
  /\ pc' = IF held THEN "recovery" ELSE "sdk"
  /\ erased' = {} /\ nextBlock' = 1 /\ nvsErased' = FALSE /\ failed' = FALSE
  /\ choice' = -1
  /\ UNCHANGED <<reg, bootval, charging, lock, people>>

\* The menu's answer: 0 exit, 1 erase flash, 2 reset NVS, 3 factory reset.
RecoveryMenu(i) ==
  /\ pc = "recovery"
  /\ choice' = i
  /\ pc' = IF i \in {1, 3} THEN "erase" ELSE IF i \in {2, 3} THEN "clear" ELSE "sdk"
  /\ UNCHANGED <<reg, bootval, erased, nextBlock, nvsErased, failed, charging, lock, people>>

\* Wrong variant: only the last block's error counts.
EraseBlockLastError(ok) ==
  /\ pc = "erase"
  /\ erased' = IF ok THEN erased \cup {nextBlock} ELSE erased
  /\ failed' = ~ok
  /\ nextBlock' = nextBlock + 1
  /\ pc' = IF nextBlock = Blocks THEN "sdk" ELSE "erase"
  /\ UNCHANGED <<reg, bootval, choice, nvsErased, charging, lock, people>>

\* One round of the erase loop. An error does not stop the loop; it is shown
\* after the last block.
EraseBlock(ok) ==
  /\ pc = "erase"
  /\ erased' = IF ok THEN erased \cup {nextBlock} ELSE erased
  /\ failed' = (failed \/ ~ok)
  /\ nextBlock' = nextBlock + 1
  /\ pc' = IF nextBlock = Blocks THEN "sdk" ELSE "erase"
  /\ UNCHANGED <<reg, bootval, choice, nvsErased, charging, lock, people>>

ClearNvs(ok) ==
  /\ pc = "clear"
  /\ nvsErased' = ok
  /\ failed' = ~ok
  /\ pc' = "sdk"
  /\ UNCHANGED <<reg, bootval, choice, erased, nextBlock, charging, lock, people>>

(***************************************************************************)
(* app_main after recovery: charger, key lock, or ready.                   *)
(***************************************************************************)

\* Wrong variant: the register is read again instead of its value at start-up.
OverriddenNow == reg.override

Overridden == bootval.override

\* The first picture is drawn by guiCharging without its argument, so it may
\* be either of the two charging icons.
CheckCharger(plugged) ==
  /\ pc = "sdk"
  /\ IF plugged /\ ~Overridden
     THEN /\ pc' = "charging"
          /\ \E icon \in {"charging", "nearfull"} : chg' = [NotCharging EXCEPT !.icon = icon]
          /\ UNCHANGED lock
     ELSE IF bootval.magic = "A6"
     THEN /\ pc' = "keylock"
          /\ \E a \in BOOLEAN : lock' = [i |-> 0, oldA |-> a]
          /\ UNCHANGED chg
     ELSE pc' = "ready" /\ UNCHANGED <<chg, lock>>
  /\ cals' = 0 /\ fullRun' = 0
  /\ asked' = FALSE
  /\ UNCHANGED <<reg, bootval, recovery, slept>>

\* fullCtr after a poll; it only matters whether it is FullPolls, so that it
\* is not counted further than one beyond.
Count(n) == IF n > FullPolls THEN n ELSE n + 1

ShowsFull(r) == r = "full" \/ chg.fixFull

\* Wrong variant: the counter is not reset by a poll that says "charging".
NextFullCtrNoReset(r) == IF ShowsFull(r) THEN Count(chg.fullCtr) ELSE chg.fullCtr

NextFullCtr(r) ==
  IF ShowsFull(r) THEN Count(chg.fullCtr) ELSE IF r = "charging" THEN 0 ELSE chg.fullCtr

\* What guiFull or guiCharging draws; nothing new if there is no charger.
ChargingIcon(r, nearFull) ==
  IF ShowsFull(r) THEN "full"
  ELSE IF r # "charging" THEN chg.icon
  ELSE IF nearFull THEN "nearfull" ELSE "charging"

\* One round of the loop of handleCharging: status r, whether the battery is
\* nearly full, whether the power button is down. The button restarts the
\* device before the counter is looked at.
ChargePoll(r, nearFull, button) ==
  /\ pc = "charging"
  /\ LET cal == ~button /\ NextFullCtr(r) = FullPolls
     IN  /\ chg' = [fullCtr |-> NextFullCtr(r), icon |-> ChargingIcon(r, nearFull),
                    fixFull |-> chg.fixFull \/ cal]
         /\ cals' = IF cal THEN cals + 1 ELSE cals
         /\ fullRun' = IF r = "full" THEN Count(fullRun) ELSE 0
  /\ reg' = IF button THEN [reg EXCEPT !.override = TRUE] ELSE reg
  /\ pc' = IF button \/ r = "nocharger" THEN "off" ELSE "charging"
  /\ asked' = button
  /\ UNCHANGED <<bootval, recovery, lock, slept>>

\* Wrong variant: the register as it is now is completed.
ResumeValueNow == [reg EXCEPT !.magic = "A5"]

\* What makes the bootloader resume the app that set the key lock.
ResumeValue == [bootval EXCEPT !.magic = "A5"]

\* Wrong variant: polls with the power button down are not counted.
LockPollWaits(a, button) ==
  /\ pc = "keylock"
  /\ LET unlock == ~button /\ ~lock.oldA /\ a
     IN  /\ reg' = IF unlock THEN ResumeValue ELSE reg
         /\ pc' = IF unlock \/ lock.i + 1 = LockPolls THEN "off" ELSE "keylock"
  /\ lock' = [i |-> IF button THEN lock.i ELSE lock.i + 1, oldA |-> a]
  /\ UNCHANGED <<bootval, recovery, charging, people>>

\* One round of the loop of handleKeyLock: is A down, is power down?
LockPoll(a, button) ==
  /\ pc = "keylock"
  /\ LET unlock == ~button /\ ~lock.oldA /\ a
     IN  /\ reg' = IF unlock THEN ResumeValue ELSE reg
         /\ pc' = IF unlock \/ lock.i + 1 = LockPolls THEN "off" ELSE "keylock"
  /\ lock' = [i |-> lock.i + 1, oldA |-> a]
  /\ UNCHANGED <<bootval, recovery, charging, people>>

\* The chooser's menu boots an app, or the device is switched off.
Leave(app) ==
  /\ pc = "ready"
  /\ reg' = IF app = NoApp THEN reg ELSE Reg("A5", FALSE, app)
  /\ pc' = "off"
  /\ UNCHANGED <<bootval, recovery, charging, lock, people>>

Recovery ==
  \/ \E held \in BOOLEAN : CheckRecovery(held)
  \/ \E i \in 0..3 : RecoveryMenu(i)
  \/ \E ok \in BOOLEAN : EraseBlock(ok)
  \/ \E ok \in BOOLEAN : ClearNvs(ok)

Poll ==
  \/ \E r \in {"nocharger", "charging", "full"}, nearFull, button \in BOOLEAN :
       ChargePoll(r, nearFull, button)
  \/ \E a, button \in BOOLEAN : LockPoll(a, button)

Next ==
  \/ PowerOn
  \/ \E locked \in BOOLEAN : AppSleeps(locked)
  \/ Recovery
  \/ \E plugged \in BOOLEAN : CheckCharger(plugged)
  \/ Poll
  \/ \E app \in Apps \cup {NoApp} : Leave(app)

Spec == Init /\ [][Next]_vars

\* The polling loops run; nothing is assumed about people.
FairSpec == Spec /\ WF_vars(Poll)

(***************************************************************************)
(* Properties.                                                             *)
(***************************************************************************)

Regs == [magic : {"none", "A5", "A6"}, override : BOOLEAN, app : Apps \cup {NoApp}]

\* Type correctness.
TypeOK ==
  /\ pc \in {"off", "app", "init", "recovery", "erase", "clear", "sdk", "charging",
             "keylock", "ready"}
  /\ reg \in Regs /\ bootval \in Regs
  /\ choice \in -1..3
  /\ erased \subseteq 1..Blocks /\ nextBlock \in 1..(Blocks+1)
  /\ nvsErased \in BOOLEAN /\ failed \in BOOLEAN
  /\ chg \in [fullCtr : 0..(FullPolls+1), fixFull : BOOLEAN,
              icon : {"none", "charging", "nearfull", "full"}]
  /\ cals \in 0..1 /\ fullRun \in 0..(FullPolls+1)
  /\ lock \in [i : 0..LockPolls, oldA : BOOLEAN]
  /\ slept \in Apps \cup {NoApp} /\ asked \in BOOLEAN

\* When recovery is left after an erase of the flash and no failure was
\* shown, every block is erased: an error in the middle of the loop is not
\* forgotten because later blocks succeed (do_recovery_mode).
ErasedUnlessFailed ==
  pc = "sdk" /\ choice \in {1, 3} /\ ~failed => erased = 1..Blocks

\* The battery's ADC is calibrated at most once per charge, and only when the
\* last FullPolls polls all said "full" (handleCharging).
CalibratedWhenFull ==
  [][cals' > cals => cals = 0 /\ fullRun' >= FullPolls]_vars

\* The power button gets somebody past the charging screen: the restart that
\* it causes does not end in the charging screen again, although the charger
\* is still plugged and the HAL may clear the register at start-up.
ButtonLeavesCharging ==
  [][asked /\ pc = "sdk" => pc' # "charging"]_vars

\* Unlocking resumes the app that went to sleep, although the HAL may have
\* cleared the register meanwhile (handleKeyLock).
UnlockResumesApp ==
  [][pc = "keylock" /\ reg'.magic = "A5" => reg'.app = slept]_vars

\* The key lock does not keep the device awake: it ends in the app or in a
\* power-down, whatever buttons are held.
LockEnds == (pc = "keylock") ~> (pc # "keylock")
===============================================================================
