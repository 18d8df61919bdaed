---------------------------- MODULE StartupProofs -----------------------------
(***************************************************************************)
(* Proofs about Startup for every set of apps, every number of flash       *)
(* blocks and every number of polls.                                       *)
(***************************************************************************)
EXTENDS Startup, TLAPS

\* While the flash is erased, the blocks before the next one are erased unless
\* a failure is remembered; only the answers 1 and 3 lead there.
RecoveryInv ==
  /\ pc = "recovery" => erased = {} /\ nextBlock = 1 /\ ~failed
  /\ pc = "erase" => /\ choice \in {1, 3} /\ nextBlock <= Blocks
                     /\ ~failed => erased = 1..(nextBlock - 1)
  /\ pc = "clear" => choice = 2
  /\ ErasedUnlessFailed

\* Until the ADC is calibrated the counter of handleCharging is the number of
\* polls in a row that said "full"; afterwards it cannot be FullPolls again.
ChargeInv ==
  pc = "charging" =>
    IF chg.fixFull THEN cals = 1 /\ chg.fullCtr >= FullPolls
                   ELSE cals = 0 /\ chg.fullCtr = fullRun /\ chg.fullCtr < FullPolls

\* The states between a start of the chooser and its test of the charger.
BeforeCharger == {"init", "recovery", "erase", "clear", "sdk"}

\* The wish to get past the charging screen is in the register over the
\* restart, and in its copy once kchal_init_hw may have cleared the register.
ButtonInv ==
  asked => \/ pc = "off" /\ reg.override /\ reg.magic # "A5"
           \/ pc \in BeforeCharger /\ bootval.override

\* A register that makes the bootloader start an app is only there while the
\* device is off or runs the app; one with the key lock names the app that slept.
LockInv ==
  /\ reg.magic = "A5" => pc \in {"off", "app"}
  /\ reg.magic = "A6" => reg.app = slept
  /\ bootval.magic = "A6" /\ pc \notin {"off", "app"} => bootval.app = slept
  /\ pc = "keylock" => bootval.magic = "A6" /\ lock.i < LockPolls

\* The inductive invariant.
IInv == TypeOK /\ RecoveryInv /\ ChargeInv /\ ButtonInv /\ LockInv

\* What the register can hold, field by field.
LEMMA RegFacts ==
  ASSUME NEW r \in Regs
  PROVE  /\ r.magic \in {"none", "A5", "A6"} /\ r.override \in BOOLEAN
         /\ r.app \in Apps \cup {NoApp}
         /\ \A m \in {"none", "A5", "A6"} : /\ [r EXCEPT !.magic = m] \in Regs
                                           /\ [r EXCEPT !.magic = m].magic = m
                                           /\ [r EXCEPT !.magic = m].app = r.app
         /\ [r EXCEPT !.override = TRUE] \in Regs
         /\ [r EXCEPT !.override = TRUE].override
         /\ [r EXCEPT !.override = TRUE].magic = r.magic
         /\ [r EXCEPT !.override = TRUE].app = r.app
  BY DEF Regs

\* The cleared register, and the one that Leave writes.
LEMMA RegValues ==
  /\ ClearReg \in Regs /\ ClearReg.magic = "none"
  /\ \A a \in Apps : Reg("A5", FALSE, a) \in Regs /\ Reg("A5", FALSE, a).magic = "A5"
  BY DEF Regs, ClearReg, Reg

\* The initial state.
LEMMA InitIInv == Init => IInv
<1> SUFFICES ASSUME Init PROVE IInv
  OBVIOUS
<1>0. /\ {} \subseteq 1..Blocks /\ 1 \in 1..(Blocks + 1) /\ 0 \in 0..(FullPolls + 1)
      /\ 0 \in 0..LockPolls /\ -1 \in -1..3 /\ 0 \in 0..1
  BY SizesAssumption
<1>1. TypeOK
  BY <1>0, RegValues DEF Init, TypeOK, NotCharging, NotLocked
<1>2. RecoveryInv /\ ChargeInv /\ ButtonInv /\ LockInv
  BY RegValues DEF Init, RecoveryInv, ErasedUnlessFailed, ChargeInv, ButtonInv, LockInv
<1> QED BY <1>1, <1>2 DEF IInv

LEMMA PowerOnIInv == ASSUME IInv, PowerOn PROVE IInv'
<1> USE DEF IInv
<1>1. TypeOK'
  BY RegValues DEF TypeOK, PowerOn, recovery, charging, people
<1>2. RecoveryInv' /\ ChargeInv'
  BY DEF PowerOn, recovery, charging, RecoveryInv, ErasedUnlessFailed, ChargeInv
<1>3. ButtonInv' /\ LockInv'
  BY RegValues DEF PowerOn, people, ButtonInv, BeforeCharger, LockInv
<1> QED BY <1>1, <1>2, <1>3

LEMMA AppSleepsIInv == ASSUME IInv, NEW locked \in BOOLEAN, AppSleeps(locked) PROVE IInv'
<1> USE DEF IInv
<1>0. /\ reg' \in Regs /\ slept' \in Apps \cup {NoApp}
      /\ reg'.magic # "A5" /\ (reg'.magic = "A6" => reg'.app = slept')
  BY RegValues, RegFacts DEF AppSleeps, TypeOK
<1>1. TypeOK'
  BY <1>0 DEF TypeOK, AppSleeps, recovery, charging
<1>2. RecoveryInv' /\ ChargeInv'
  BY DEF AppSleeps, recovery, charging, RecoveryInv, ErasedUnlessFailed, ChargeInv
<1>3. ButtonInv' /\ LockInv'
  BY <1>0 DEF AppSleeps, ButtonInv, BeforeCharger, LockInv
<1> QED BY <1>1, <1>2, <1>3

LEMMA CheckRecoveryIInv ==
  ASSUME IInv, NEW held \in BOOLEAN, CheckRecovery(held) PROVE IInv'
<1> USE DEF IInv
<1>0. {} \subseteq 1..Blocks /\ 1 \in 1..(Blocks + 1) /\ -1 \in -1..3
  BY SizesAssumption
<1>1. TypeOK'
  BY <1>0 DEF TypeOK, CheckRecovery, charging, people
<1>2. RecoveryInv' /\ ChargeInv'
  BY DEF CheckRecovery, RecoveryInv, ErasedUnlessFailed, ChargeInv
<1>3. ButtonInv' /\ LockInv'
  BY DEF CheckRecovery, people, ButtonInv, BeforeCharger, LockInv
<1> QED BY <1>1, <1>2, <1>3

LEMMA RecoveryMenuIInv == ASSUME IInv, NEW i \in 0..3, RecoveryMenu(i) PROVE IInv'
<1> USE DEF IInv
<1>1. TypeOK'
  BY DEF TypeOK, RecoveryMenu, charging, people
<1>2. RecoveryInv'
  BY SizesAssumption DEF RecoveryMenu, RecoveryInv, ErasedUnlessFailed
<1>3. ChargeInv' /\ ButtonInv' /\ LockInv'
  BY DEF RecoveryMenu, people, charging, ChargeInv, ButtonInv, BeforeCharger, LockInv
<1> QED BY <1>1, <1>2, <1>3

\* The erase loop: one block more is erased, or the failure is remembered.
LEMMA EraseBlockIInv == ASSUME IInv, NEW ok \in BOOLEAN, EraseBlock(ok) PROVE IInv'
<1> USE DEF IInv
<1>0. nextBlock \in 1..Blocks /\ Blocks \in Nat
  BY SizesAssumption DEF EraseBlock, RecoveryInv, TypeOK
<1>1. TypeOK'
  BY <1>0 DEF TypeOK, EraseBlock, charging, people
<1>2. ~failed' => erased' = 1..nextBlock
  <2> SUFFICES ASSUME ~failed' PROVE erased' = 1..nextBlock
    OBVIOUS
  <2>1. ok /\ ~failed
    BY DEF EraseBlock
  <2>2. erased = 1..(nextBlock - 1) /\ erased' = erased \cup {nextBlock}
    BY <2>1 DEF EraseBlock, RecoveryInv
  <2> QED BY <1>0, <2>2
<1>3. RecoveryInv'
  BY <1>0, <1>2 DEF EraseBlock, RecoveryInv, ErasedUnlessFailed
<1>4. ChargeInv' /\ ButtonInv' /\ LockInv'
  BY DEF EraseBlock, people, charging, ChargeInv, ButtonInv, BeforeCharger, LockInv
<1> QED BY <1>1, <1>3, <1>4

LEMMA ClearNvsIInv == ASSUME IInv, NEW ok \in BOOLEAN, ClearNvs(ok) PROVE IInv'
<1> USE DEF IInv
<1>1. TypeOK'
  BY DEF TypeOK, ClearNvs, charging, people
<1>2. RecoveryInv'
  BY DEF ClearNvs, RecoveryInv, ErasedUnlessFailed
<1>3. ChargeInv' /\ ButtonInv' /\ LockInv'
  BY DEF ClearNvs, people, charging, ChargeInv, ButtonInv, BeforeCharger, LockInv
<1> QED BY <1>1, <1>2, <1>3

LEMMA CheckChargerIInv ==
  ASSUME IInv, NEW plugged \in BOOLEAN, CheckCharger(plugged) PROVE IInv'
<1> USE DEF IInv
<1>0. chg' = chg \/ \E icon \in {"charging", "nearfull"} :
                     chg' = [fullCtr |-> 0, fixFull |-> FALSE, icon |-> icon]
  BY DEF CheckCharger, NotCharging
<1>a. chg' \in [fullCtr : 0..(FullPolls+1), fixFull : BOOLEAN,
                icon : {"none", "charging", "nearfull", "full"}]
  <2>1. CASE chg' = chg
    BY <2>1 DEF TypeOK
  <2>2. ASSUME NEW icon \in {"charging", "nearfull"},
               chg' = [fullCtr |-> 0, fixFull |-> FALSE, icon |-> icon]
        PROVE  chg' \in [fullCtr : 0..(FullPolls+1), fixFull : BOOLEAN,
                         icon : {"none", "charging", "nearfull", "full"}]
    <3>1. 0 \in 0..(FullPolls+1)
      BY SizesAssumption
    <3> QED BY <2>2, <3>1
  <2> QED BY <1>0, <2>1, <2>2
<1>b. lock' \in [i : 0..LockPolls, oldA : BOOLEAN]
  <2>1. lock' = lock \/ \E a \in BOOLEAN : lock' = [i |-> 0, oldA |-> a]
    BY DEF CheckCharger
  <2> QED BY <2>1, SizesAssumption DEF TypeOK
<1>c. cals' \in 0..1 /\ fullRun' \in 0..(FullPolls+1)
  BY SizesAssumption DEF CheckCharger
<1>1. TypeOK'
  BY <1>a, <1>b, <1>c DEF TypeOK, CheckCharger, recovery
<1>2. RecoveryInv'
  BY DEF CheckCharger, recovery, RecoveryInv, ErasedUnlessFailed
<1>3. pc' = "charging" => chg'.fullCtr = 0 /\ ~chg'.fixFull
  BY DEF CheckCharger, NotCharging
<1>4. ChargeInv'
  BY <1>3, SizesAssumption DEF CheckCharger, ChargeInv
<1>5. ButtonInv' /\ LockInv'
  BY SizesAssumption DEF CheckCharger, ButtonInv, LockInv
<1> QED BY <1>1, <1>2, <1>4, <1>5

\* What one poll of the charger does to the counters and to the calibration.
LEMMA ChargePollCounts ==
  ASSUME IInv, NEW r \in {"nocharger", "charging", "full"}, NEW nearFull \in BOOLEAN,
         NEW button \in BOOLEAN, ChargePoll(r, nearFull, button)
  PROVE  /\ chg' \in [fullCtr : 0..(FullPolls+1), fixFull : BOOLEAN,
                       icon : {"none", "charging", "nearfull", "full"}]
         /\ cals' \in 0..1 /\ fullRun' \in 0..(FullPolls+1)
         /\ cals' > cals => cals = 0 /\ fullRun' >= FullPolls
         /\ ChargeInv'
<1> USE DEF IInv
<1> DEFINE n == chg.fullCtr
           m == NextFullCtr(r)
           cal == ~button /\ m = FullPolls
<1>0. /\ n \in 0..(FullPolls+1) /\ chg.fixFull \in BOOLEAN /\ fullRun \in 0..(FullPolls+1)
      /\ chg.icon \in {"none", "charging", "nearfull", "full"}
      /\ FullPolls \in Nat \ {0} /\ cals \in 0..1
  BY SizesAssumption DEF TypeOK
<1>1. /\ chg.fixFull => cals = 1 /\ n >= FullPolls
      /\ ~chg.fixFull => cals = 0 /\ n = fullRun /\ n < FullPolls
  BY DEF ChargePoll, ChargeInv
<1>2. m \in 0..(FullPolls+1)
  BY <1>0 DEF NextFullCtr, ShowsFull, Count
<1>3. ChargingIcon(r, nearFull) \in {"none", "charging", "nearfull", "full"}
  BY <1>0 DEF ChargingIcon
<1>4. /\ chg' = [fullCtr |-> m, icon |-> ChargingIcon(r, nearFull), fixFull |-> chg.fixFull \/ cal]
      /\ cals' = IF cal THEN cals + 1 ELSE cals
      /\ fullRun' = IF r = "full" THEN Count(fullRun) ELSE 0
      /\ pc' = IF button \/ r = "nocharger" THEN "off" ELSE "charging"
  BY DEF ChargePoll
<1>5. fullRun' \in 0..(FullPolls+1)
  BY <1>0, <1>4 DEF Count
<1>6. cal => ~chg.fixFull /\ r = "full" /\ fullRun' = FullPolls
  BY <1>0, <1>1, <1>4 DEF NextFullCtr, ShowsFull, Count
<1>7. chg.fixFull => m > FullPolls
  BY <1>0, <1>1 DEF NextFullCtr, ShowsFull, Count
<1>8. ~chg.fixFull => m <= FullPolls /\ (r # "nocharger" => m = fullRun')
  BY <1>0, <1>1, <1>4 DEF NextFullCtr, ShowsFull, Count
<1>9. chg'.fullCtr = m /\ (chg'.fixFull <=> chg.fixFull \/ cal)
  BY <1>4
<1>10. ChargeInv'
  <2> SUFFICES ASSUME pc' = "charging"
               PROVE  IF chg'.fixFull THEN cals' = 1 /\ m >= FullPolls
                      ELSE cals' = 0 /\ m = fullRun' /\ m < FullPolls
    BY <1>9 DEF ChargeInv
  <2>1. ~button /\ r # "nocharger"
    BY <1>4
  <2>2. CASE chg.fixFull
    <3>1. m > FullPolls /\ ~cal
      BY <2>2, <1>0, <1>2, <1>7
    <3>2. chg'.fixFull /\ cals' = cals
      BY <2>2, <3>1, <1>4, <1>9
    <3> QED BY <2>2, <3>1, <3>2, <1>0, <1>1, <1>2
  <2>3. CASE ~chg.fixFull /\ cal
    <3>1. chg'.fixFull /\ cals' = cals + 1
      BY <2>3, <1>4, <1>9
    <3> QED BY <2>3, <3>1, <1>0, <1>1, <1>2
  <2>4. CASE ~chg.fixFull /\ ~cal
    <3>1. ~chg'.fixFull /\ cals' = cals
      BY <2>4, <1>4, <1>9
    <3>2. m # FullPolls
      BY <2>1, <2>4
    <3> QED BY <2>1, <2>4, <3>1, <3>2, <1>0, <1>1, <1>2, <1>8
  <2> QED BY <2>2, <2>3, <2>4
<1>11. chg' \in [fullCtr : 0..(FullPolls+1), fixFull : BOOLEAN,
                 icon : {"none", "charging", "nearfull", "full"}]
  BY <1>0, <1>2, <1>3, <1>4
<1>12. cals' \in 0..1 /\ (cals' > cals => cals = 0 /\ fullRun' >= FullPolls)
  BY <1>0, <1>1, <1>4, <1>6
<1> QED BY <1>5, <1>10, <1>11, <1>12

LEMMA ChargePollIInv ==
  ASSUME IInv, NEW r \in {"nocharger", "charging", "full"}, NEW nearFull \in BOOLEAN,
         NEW button \in BOOLEAN, ChargePoll(r, nearFull, button)
  PROVE  IInv'
<1> USE DEF IInv
<1>0. /\ reg' \in Regs /\ reg'.magic = reg.magic /\ reg'.app = reg.app
      /\ button => reg'.override
  BY RegFacts DEF ChargePoll, TypeOK
<1>1. TypeOK'
  BY <1>0, ChargePollCounts DEF ChargePoll, TypeOK, recovery
<1>2. RecoveryInv'
  BY DEF ChargePoll, recovery, RecoveryInv, ErasedUnlessFailed
<1>3. ButtonInv' /\ LockInv'
  BY <1>0 DEF ChargePoll, ButtonInv, BeforeCharger, LockInv
<1> QED BY <1>1, <1>2, <1>3, ChargePollCounts

LEMMA LockPollIInv ==
  ASSUME IInv, NEW a \in BOOLEAN, NEW button \in BOOLEAN, LockPoll(a, button) PROVE IInv'
<1> USE DEF IInv
<1>0. reg' \in Regs /\ (reg' = reg \/ reg'.magic = "A5")
  BY RegFacts DEF LockPoll, TypeOK, ResumeValue
<1>1. lock.i \in 0..(LockPolls - 1) /\ lock.oldA \in BOOLEAN /\ LockPolls \in Nat
  BY SizesAssumption DEF TypeOK, LockInv, LockPoll
<1>2. TypeOK'
  BY <1>0, <1>1 DEF TypeOK, LockPoll, recovery, charging, people
<1>3. RecoveryInv' /\ ChargeInv'
  BY DEF LockPoll, recovery, charging, RecoveryInv, ErasedUnlessFailed, ChargeInv
<1>4. ButtonInv' /\ (reg'.magic = "A5" => pc' = "off")
  BY DEF LockPoll, people, ButtonInv, BeforeCharger, LockInv
<1>5. pc' = "keylock" => lock'.i < LockPolls
  BY <1>1 DEF LockPoll
<1>6. LockInv'
  BY <1>0, <1>4, <1>5 DEF LockPoll, LockInv, people
<1> QED BY <1>2, <1>3, <1>4, <1>6

LEMMA LeaveIInv == ASSUME IInv, NEW app \in Apps \cup {NoApp}, Leave(app) PROVE IInv'
<1> USE DEF IInv
<1>0. reg' \in Regs /\ (reg' = reg \/ reg'.magic = "A5")
  BY RegValues DEF Leave, TypeOK
<1>1. TypeOK'
  BY <1>0 DEF TypeOK, Leave, recovery, charging, people
<1>2. RecoveryInv' /\ ChargeInv'
  BY DEF Leave, recovery, charging, RecoveryInv, ErasedUnlessFailed, ChargeInv
<1>3. ButtonInv' /\ LockInv'
  BY <1>0 DEF Leave, people, ButtonInv, BeforeCharger, LockInv
<1> QED BY <1>1, <1>2, <1>3

\* Every step of the device keeps the invariant.
LEMMA NextIInv == IInv /\ [Next]_vars => IInv'
<1> SUFFICES ASSUME IInv, [Next]_vars PROVE IInv'
  OBVIOUS
<1>1. CASE PowerOn
  BY <1>1, PowerOnIInv
<1>2. CASE \E locked \in BOOLEAN : AppSleeps(locked)
  BY <1>2, AppSleepsIInv
<1>3. CASE Recovery
  BY <1>3, CheckRecoveryIInv, RecoveryMenuIInv, EraseBlockIInv, ClearNvsIInv DEF Recovery
<1>4. CASE \E plugged \in BOOLEAN : CheckCharger(plugged)
  BY <1>4, CheckChargerIInv
<1>5. CASE Poll
  BY <1>5, ChargePollIInv, LockPollIInv DEF Poll
<1>6. CASE \E app \in Apps \cup {NoApp} : Leave(app)
  BY <1>6, LeaveIInv
<1>7. CASE UNCHANGED vars
  BY <1>7 DEF vars, recovery, charging, people, IInv, TypeOK, RecoveryInv,
     ErasedUnlessFailed, ChargeInv, ButtonInv, BeforeCharger, LockInv
<1> QED BY <1>1, <1>2, <1>3, <1>4, <1>5, <1>6, <1>7 DEF Next

LEMMA Inductive == Spec => []IInv
  BY InitIInv, NextIInv, PTL DEF Spec

\* The variables of app_main have their types; in particular the counters of
\* both polling loops and of the erase loop stay within their bounds.
THEOREM TypeCorrect == Spec => []TypeOK
<1>1. IInv => TypeOK
  BY DEF IInv
<1> QED BY <1>1, Inductive, PTL

\* After an erase of the flash that showed no failure every block is erased,
\* however many blocks there are and whichever of them failed.
THEOREM EraseComplete == Spec => []ErasedUnlessFailed
<1>1. IInv => ErasedUnlessFailed
  BY DEF IInv, RecoveryInv
<1> QED BY <1>1, Inductive, PTL

\* handleCharging calibrates the ADC at most once per charge, and only after
\* FullPolls polls in a row that said "full".
THEOREM CalibrationSound == Spec => CalibratedWhenFull
<1>1. IInv /\ [Next]_vars => [cals' > cals => cals = 0 /\ fullRun' >= FullPolls]_vars
  <2> SUFFICES ASSUME IInv, Next, cals' > cals PROVE cals = 0 /\ fullRun' >= FullPolls
    OBVIOUS
  <2>0. cals \in 0..1
    BY DEF IInv, TypeOK
  <2>1. CASE Poll
    <3>1. CASE \E r \in {"nocharger", "charging", "full"}, nearFull, button \in BOOLEAN :
                 ChargePoll(r, nearFull, button)
      BY <3>1, ChargePollCounts
    <3>2. CASE \E a, button \in BOOLEAN : LockPoll(a, button)
      BY <3>2, <2>0 DEF LockPoll, charging
    <3> QED BY <2>1, <3>1, <3>2 DEF Poll
  <2>2. CASE \E plugged \in BOOLEAN : CheckCharger(plugged)
    BY <2>0, <2>2 DEF CheckCharger
  <2>3. CASE PowerOn \/ Recovery \/ (\E locked \in BOOLEAN : AppSleeps(locked))
             \/ (\E app \in Apps \cup {NoApp} : Leave(app))
    <3>1. UNCHANGED charging
      BY <2>3, Zenon DEF PowerOn, Recovery, AppSleeps, Leave, CheckRecovery, RecoveryMenu,
         EraseBlock, ClearNvs
    <3> QED BY <2>0, <3>1 DEF charging
  <2> QED BY <2>1, <2>2, <2>3 DEF Next
<1> QED BY <1>1, Inductive, PTL DEF Spec, CalibratedWhenFull

\* The restart that the power button causes on the charging screen gets past
\* the charging screen, even if the HAL clears the register on the way.
THEOREM ButtonWorks == Spec => ButtonLeavesCharging
<1>1. IInv /\ [Next]_vars => [asked /\ pc = "sdk" => pc' # "charging"]_vars
  <2> SUFFICES ASSUME IInv, Next, asked, pc = "sdk" PROVE pc' # "charging"
    OBVIOUS
  <2>1. bootval.override
    BY DEF IInv, ButtonInv
  <2>2. PICK plugged \in BOOLEAN : CheckCharger(plugged)
    BY DEF Next, PowerOn, AppSleeps, Recovery, CheckRecovery, RecoveryMenu, EraseBlock,
       ClearNvs, Poll, ChargePoll, LockPoll, Leave
  <2> QED BY <2>1, <2>2 DEF CheckCharger, Overridden
<1> QED BY <1>1, Inductive, PTL DEF Spec, ButtonLeavesCharging

\* Unlocking makes the bootloader resume the app that went to sleep with the
\* key lock on, even if the HAL cleared the register at start-up.
THEOREM UnlockSound == Spec => UnlockResumesApp
<1>1. IInv /\ [Next]_vars
        => [pc = "keylock" /\ reg'.magic = "A5" => reg'.app = slept]_vars
  <2> SUFFICES ASSUME IInv, Next, pc = "keylock", reg'.magic = "A5" PROVE reg'.app = slept
    OBVIOUS
  <2>1. PICK a \in BOOLEAN, button \in BOOLEAN : LockPoll(a, button)
    BY DEF Next, PowerOn, AppSleeps, Recovery, CheckRecovery, RecoveryMenu, EraseBlock,
       ClearNvs, CheckCharger, Poll, ChargePoll, Leave
  <2>2. reg' = ResumeValue
    BY <2>1 DEF LockPoll, IInv, LockInv
  <2>3. bootval.app = slept /\ bootval \in Regs
    BY DEF IInv, LockInv, TypeOK
  <2> QED BY <2>2, <2>3, RegFacts DEF ResumeValue
<1> QED BY <1>1, Inductive, PTL DEF Spec, UnlockResumesApp
===============================================================================
