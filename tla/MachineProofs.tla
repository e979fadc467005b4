--------------------------- MODULE MachineProofs ---------------------------
(***************************************************************************)
(* Proofs about Machine, for every width, RAM, image and set of addresses. *)
(***************************************************************************)
EXTENDS Machine, TLAPS

Statuses == [mie : BOOLEAN, mpie : BOOLEAN, mpp : 0 .. 3]

Registers == {pc, mepc, mtvec} \subseteq Nat /\ mstatus \in Statuses

\* The word of flags is made of its fields, and nothing runs asleep.
Fields ==
  \E p \in 0 .. 3, w \in {0, 1} :
    /\ reserved \in Nat /\ extraflags = p + 4 * w + 8 * reserved
    /\ phase = "run" => w = 0

\* What a trap saved is in the trap registers as long as nobody writes them.
Saved ==
  resume # Nothing =>
    mepc = resume.pc /\ mstatus.mpie = resume.mie /\ mstatus.mpp = resume.priv

MInv == Registers /\ Fields /\ Saved

-----------------------------------------------------------------------------
(* What the three fields are, and what the operators on the word make.     *)
LEMMA FieldValues ==
  ASSUME NEW p \in 0 .. 3, NEW w \in {0, 1}, NEW r \in Nat,
         extraflags = p + 4 * w + 8 * r
  PROVE  /\ Priv = p /\ (WFI <=> w = 1) /\ Slot = r
         /\ \A q \in 0 .. 3 : WithPriv(q) = q + 4 * w + 8 * r
         /\ WithMachine = 3 + 4 * w + 8 * r
         /\ AsleepFlags = p + 4 + 8 * r
         /\ AwakeFlags = p + 8 * r
         /\ \A s \in Nat : SlotFlags(s) = p + 4 * w + 8 * s
<1>1. extraflags \in Nat
  OBVIOUS
<1>2. extraflags % 4 = p /\ extraflags % 8 = p + 4 * w
  OBVIOUS
<1>3. extraflags \div 8 = r /\ extraflags \div 4 = w + 2 * r
  OBVIOUS
<1>4. (w + 2 * r) % 2 = w
  OBVIOUS
<1>5. Priv = p /\ (WFI <=> w = 1) /\ Slot = r
  BY <1>2, <1>3, <1>4 DEF Priv, WFI, Slot
<1>6. \A q \in 0 .. 3 : WithPriv(q) = q + 4 * w + 8 * r
  BY <1>5 DEF WithPriv
<1> QED
  BY <1>2, <1>5, <1>6 DEF WithMachine, AsleepFlags, AwakeFlags, SlotFlags

(* The privilege is two bits.                                              *)
LEMMA PrivKnown == MInv => Priv \in 0 .. 3
  BY FieldValues DEF MInv, Fields

(* The end of a step that traps.                                           *)
LEMMA EnterTrapKeeps ==
  ASSUME MInv, NEW interrupt \in BOOLEAN, NEW cause, NEW value,
         EnterTrap(interrupt, cause, value)
  PROVE  Registers' /\ Saved'
<1>1. TrapPc(interrupt) = pc
  BY DEF MInv, Registers, TrapPc
<1>2. mepc' = pc /\ pc' = mtvec /\ mtvec' = mtvec
  BY <1>1 DEF EnterTrap
<1>3. /\ mstatus' = [mie |-> FALSE, mpie |-> mstatus.mie, mpp |-> Priv]
      /\ resume' = [pc |-> pc, mie |-> mstatus.mie, priv |-> Priv]
  BY DEF EnterTrap, TrapStatus
<1>4. Registers'
  BY <1>2, <1>3, PrivKnown DEF MInv, Registers, Statuses
<1> QED
  BY <1>2, <1>3, <1>4 DEF Saved

LEMMA FaultKeeps ==
  ASSUME MInv, NEW trap, NEW rval, Fault(trap, rval)
  PROVE  MInv'
<1>1. Registers' /\ Saved'
  BY EnterTrapKeeps DEF Fault
<1>2. PICK p \in 0 .. 3, w \in {0, 1} :
        reserved \in Nat /\ extraflags = p + 4 * w + 8 * reserved
  BY DEF MInv, Fields
<1>3. WithMachine = 3 + 4 * w + 8 * reserved
  BY <1>2, FieldValues
<1>4. /\ extraflags' = 3 + 4 * w + 8 * reserved
      /\ reserved' = reserved /\ phase' = "host"
  BY <1>3 DEF Fault, EnterTrap
<1>5. Fields'
  BY <1>2, <1>4 DEF Fields
<1> QED
  BY <1>1, <1>5 DEF MInv

(* The head of a step: asleep, interrupted, or about to run.               *)
LEMMA StepKeeps == MInv /\ Step => MInv'
<1> SUFFICES ASSUME MInv, Step PROVE MInv'
  OBVIOUS
<1> DEFINE fires == Fires(timer', match)
           asleep == WFI /\ ~fires
<1>1. PICK p \in 0 .. 3, w \in {0, 1} :
        reserved \in Nat /\ extraflags = p + 4 * w + 8 * reserved
  BY DEF MInv, Fields
<1>2. /\ Priv = p /\ (WFI <=> w = 1)
      /\ AwakeFlags = p + 8 * reserved
  BY <1>1, FieldValues
<1>3. CASE asleep /\ UNCHANGED <<program, phase, left, match, csrs, pc, extraflags, data, ghosts>>
  <2>1. phase' = "host"
    BY <1>3 DEF Step
  <2> QED
    BY <1>1, <1>3, <2>1 DEF MInv, Registers, Fields, Saved, csrs, ghosts
<1>4. CASE EnterTrap(TRUE, TimerInterrupt, 0) /\ extraflags' = AwakeFlags - Priv + 3
  <2>1. Registers' /\ Saved'
    BY <1>4, EnterTrapKeeps
  <2>2. extraflags' = 3 + 8 * reserved /\ reserved' = reserved
    BY <1>1, <1>2, <1>4 DEF EnterTrap
  <2>3. Fields'
    BY <1>1, <2>2 DEF Fields
  <2> QED
    BY <2>1, <2>3 DEF MInv
<1>5. CASE /\ ~asleep
           /\ extraflags' = IF fires THEN AwakeFlags ELSE extraflags
           /\ UNCHANGED <<program, match, csrs, pc, data, ghosts>>
  <2>1. extraflags' = p + 8 * reserved
    BY <1>1, <1>2, <1>5
  <2>2. Fields'
    BY <1>1, <1>5, <2>1 DEF Fields, ghosts
  <2>3. Registers' /\ Saved'
    BY <1>5 DEF MInv, Registers, Saved, csrs, ghosts
  <2> QED
    BY <2>2, <2>3 DEF MInv
<1> QED
  BY <1>3, <1>4, <1>5 DEF Step

(* An instruction that goes on with the next or jumps, and touches neither *)
(* the trap registers nor the flags.                                       *)
LEMMA PlainKeeps ==
  ASSUME MInv, pc' \in Nat, phase = "run",
         UNCHANGED <<mstatus, mepc, mtvec, extraflags, ghosts>>
  PROVE  MInv'
<1>1. Registers' /\ Saved'
  BY DEF MInv, Registers, Saved, ghosts
<1>2. Fields'
  BY DEF MInv, Fields, ghosts
<1> QED
  BY <1>1, <1>2 DEF MInv

(* An instruction that writes a trap register: nothing is saved any more.  *)
LEMMA WriteKeeps ==
  ASSUME MInv, pc' \in Nat, mepc' \in Nat, mstatus' \in Statuses, phase = "run",
         resume' = Nothing, UNCHANGED <<mtvec, extraflags, reserved>>
  PROVE  MInv'
<1>1. Registers' /\ Saved'
  BY DEF MInv, Registers, Saved
<1>2. Fields'
  BY DEF MInv, Fields
<1> QED
  BY <1>1, <1>2 DEF MInv

(* Every instruction.                                                      *)
LEMMA ExecuteKeeps == MInv /\ Execute => MInv'
<1> SUFFICES ASSUME MInv, Execute PROVE MInv'
  OBVIOUS
<1>1. /\ pc \in Nat /\ pc + 4 \in Nat /\ {mepc, mtvec} \subseteq Nat /\ mstatus \in Statuses
      /\ CodePoints \subseteq Nat /\ Priv \in 0 .. 3
  BY PrivKnown, MachineAssumption DEF MInv, Registers
<1>2. PICK p \in 0 .. 3, w \in {0, 1} :
        /\ reserved \in Nat /\ extraflags = p + 4 * w + 8 * reserved
        /\ phase = "run" => w = 0
  BY DEF MInv, Fields
<1>3. CASE FetchFault \/ Undefined \/ EnvCall \/ LoadFault \/ StoreFault \/ AtomicFault
  BY <1>3, FaultKeeps DEF FetchFault, Undefined, EnvCall, LoadFault, StoreFault, AtomicFault
<1>4. CASE \/ Compute \/ Jump \/ Load \/ Store \/ StoreDevice
           \/ StoreConditional \/ Amo \/ WriteEnable
  <2>1. pc' \in Nat
    BY <1>1, <1>4 DEF Compute, Jump, Load, Store, StoreDevice, StoreConditional,
       Amo, WriteEnable, GoOn
  <2>2. phase = "run" /\ UNCHANGED <<mstatus, mepc, mtvec, extraflags, ghosts>>
    BY <1>4 DEF Compute, Jump, Load, Store, StoreDevice, StoreConditional, Amo,
       WriteEnable, Fetched, Running, csrs
  <2> QED
    BY <2>1, <2>2, PlainKeeps
<1>5. CASE (\E half \in 1 .. 2 : StoreMatch(half)) \/ WritePending
  <2>1. pc' \in Nat
    BY <1>1, <1>5 DEF StoreMatch, WritePending, GoOn
  <2>2. phase = "run" /\ UNCHANGED <<mstatus, mepc, mtvec, extraflags, ghosts>>
    BY <1>5 DEF StoreMatch, WritePending, Fetched, Running, csrs
  <2> QED
    BY <2>1, <2>2, PlainKeeps
<1>6. CASE WriteVector
  <2>1. phase = "run" /\ UNCHANGED <<mstatus, mepc, extraflags, ghosts>>
    BY <1>6 DEF WriteVector, Fetched, Running
  <2>2. Registers' /\ Saved'
    BY <1>1, <1>6, <2>1 DEF MInv, Registers, Saved, WriteVector, GoOn, ghosts
  <2>3. Fields'
    BY <2>1 DEF MInv, Fields, ghosts
  <2> QED
    BY <2>2, <2>3 DEF MInv
<1>7. CASE WriteStatus
  <2>1. mstatus' \in Statuses
    BY <1>7 DEF WriteStatus, Statuses, Levels
  <2>2. pc' \in Nat /\ mepc' \in Nat
    BY <1>1, <1>7 DEF WriteStatus, GoOn
  <2>3. phase = "run" /\ resume' = Nothing /\ UNCHANGED <<mtvec, extraflags, reserved>>
    BY <1>7 DEF WriteStatus, Fetched, Running
  <2> QED
    BY <2>1, <2>2, <2>3, WriteKeeps
<1>8. CASE WriteEpc
  <2>1. mstatus' \in Statuses /\ pc' \in Nat /\ mepc' \in Nat
    BY <1>1, <1>8 DEF WriteEpc, GoOn
  <2>2. phase = "run" /\ resume' = Nothing /\ UNCHANGED <<mtvec, extraflags, reserved>>
    BY <1>8 DEF WriteEpc, Fetched, Running
  <2> QED
    BY <2>1, <2>2, WriteKeeps
<1>9. CASE WaitForInterrupt
  <2>1. /\ extraflags' = p + 4 + 8 * reserved /\ reserved' = reserved /\ phase' = "host"
    BY <1>2, <1>9, FieldValues DEF WaitForInterrupt, ghosts
  <2>2. Fields'
    BY <1>2, <2>1 DEF Fields
  <2>3. Registers' /\ Saved'
    BY <1>1, <1>9 DEF MInv, Registers, Statuses, Saved, WaitForInterrupt, ghosts
  <2> QED
    BY <2>2, <2>3 DEF MInv
<1>10. CASE TrapReturn
  <2>1. mstatus.mpp \in 0 .. 3 /\ mstatus.mpie \in BOOLEAN
    BY <1>1 DEF Statuses
  <2>2. phase = "run" /\ phase' = "run" /\ reserved' = reserved /\ resume' = Nothing
    BY <1>10 DEF TrapReturn, Fetched, Running, GoOn
  <2>3. extraflags' = mstatus.mpp + 8 * reserved
    BY <1>2, <1>10, <2>1, <2>2, FieldValues DEF TrapReturn, ReturnFlags
  <2>4. Fields'
    BY <1>2, <2>1, <2>2, <2>3 DEF Fields
  <2>5. mstatus' \in Statuses
    BY <1>1, <1>10, <2>1 DEF TrapReturn, ReturnStatus, Statuses
  <2>6. Registers' /\ Saved'
    BY <1>1, <1>10, <2>2, <2>5 DEF Registers, Saved, TrapReturn, GoOn
  <2> QED
    BY <2>4, <2>6 DEF MInv
<1>11. CASE LoadReserved
  <2>1. PICK a \in Addrs : extraflags' = SlotFlags(a) /\ reserved' = a
    BY <1>11 DEF LoadReserved
  <2>2. a \in Nat
    BY <2>1 DEF Addrs
  <2>3. phase = "run" /\ extraflags' = p + 8 * a
    BY <1>2, <1>11, <2>1, <2>2, FieldValues DEF LoadReserved, Fetched, Running
  <2>4. Fields'
    BY <1>2, <2>1, <2>2, <2>3 DEF Fields
  <2>5. Registers' /\ Saved'
    BY <1>1, <1>11 DEF MInv, Registers, Saved, LoadReserved, GoOn, csrs
  <2> QED
    BY <2>4, <2>5 DEF MInv
<1>12. CASE SysconOther \/ PowerOff \/ SysconRestart
  <2>1. /\ phase' # "run" /\ pc' = pc + 4
        /\ UNCHANGED <<mstatus, mepc, mtvec, extraflags, ghosts>>
    BY <1>12 DEF SysconOther, PowerOff, SysconRestart, LeaveTo, csrs
  <2>2. Registers' /\ Saved'
    BY <1>1, <2>1 DEF MInv, Registers, Saved, ghosts
  <2>3. Fields'
    BY <1>2, <2>1 DEF Fields, ghosts
  <2> QED
    BY <2>2, <2>3 DEF MInv
<1> QED
  BY <1>3, <1>4, <1>5, <1>6, <1>7, <1>8, <1>9, <1>10, <1>11, <1>12 DEF Execute

(* The boot of the host loop, and a restart of it.                         *)
LEMMA BootHolds ==
  /\ MachineInit => MInv
  /\ Restart => MInv'
<1>1. 3 = 3 + 4 * 0 + 8 * 0
  OBVIOUS
<1>2. MachineInit => MInv
  BY <1>1 DEF MachineInit, MInv, Registers, Statuses, Fields, Saved
<1>3. Restart => MInv'
  BY <1>1 DEF Restart, MInv, Registers, Statuses, Fields, Saved
<1> QED
  BY <1>2, <1>3

LEMMA MachineKeeps == MInv /\ [MachineNext]_mvars => MInv'
<1> SUFFICES ASSUME MInv, [MachineNext]_mvars PROVE MInv'
  OBVIOUS
<1>1. CASE Step
  BY <1>1, StepKeeps
<1>2. CASE StepEnd
  <2>1. /\ phase' # "run"
        /\ UNCHANGED <<pc, mstatus, mepc, mtvec, extraflags, resume, reserved>>
    BY <1>2 DEF StepEnd, csrs, ghosts
  <2> QED
    BY <2>1 DEF MInv, Registers, Fields, Saved
<1>3. CASE Execute
  BY <1>3, ExecuteKeeps
<1>4. CASE Restart
  BY <1>4, BootHolds
<1>5. CASE UNCHANGED mvars
  BY <1>5 DEF mvars, csrs, ghosts, MInv, Registers, Fields, Saved
<1> QED
  BY <1>1, <1>2, <1>3, <1>4, <1>5 DEF MachineNext

LEMMA MachineInvariant == MachineSpec => []MInv
<1> QED
  BY BootHolds, MachineKeeps, PTL DEF MachineSpec

(* Privilege, sleep and reservation never disturb one another in the word  *)
(* that holds them, whatever the program does: a store conditional finds   *)
(* the address of the last lr.w, and no instruction runs asleep.           *)
THEOREM FlagsKept == MachineSpec => []FlagsApart
<1>1. MInv => FlagsApart
  BY FieldValues DEF MInv, Fields, FlagsApart
<1> QED
  BY <1>1, MachineInvariant, PTL

(* An mret that finds the trap registers as a trap left them goes back to  *)
(* where the trap came, with its privilege and interrupt enable.           *)
THEOREM ReturnsKept == MachineSpec => TrapReturns
<1>1. ASSUME MInv, TrapReturn, resume # Nothing
      PROVE  /\ pc' = resume.pc
             /\ mstatus'.mie = resume.mie
             /\ extraflags' % 4 = resume.priv
  <2>1. mepc = resume.pc /\ mstatus.mpie = resume.mie /\ mstatus.mpp = resume.priv
    BY <1>1 DEF MInv, Saved
  <2>2. pc' = resume.pc /\ mstatus'.mie = resume.mie
    BY <1>1, <2>1 DEF TrapReturn, GoOn, ReturnStatus
  <2>3. PICK p \in 0 .. 3, w \in {0, 1} :
          reserved \in Nat /\ extraflags = p + 4 * w + 8 * reserved
    BY <1>1 DEF MInv, Fields
  <2>4. mstatus.mpp \in 0 .. 3
    BY <1>1 DEF MInv, Registers, Statuses
  <2>5. extraflags' = mstatus.mpp + 4 * w + 8 * reserved
    BY <1>1, <2>3, <2>4, FieldValues DEF TrapReturn, ReturnFlags
  <2>6. extraflags' % 4 = mstatus.mpp
    BY <2>3, <2>4, <2>5
  <2> QED
    BY <2>1, <2>2, <2>6
<1>2. MInv => [TrapReturn /\ resume # Nothing
                 => /\ pc' = resume.pc
                    /\ mstatus'.mie = resume.mie
                    /\ extraflags' % 4 = resume.priv]_mvars
  BY <1>1
<1> QED
  BY <1>2, MachineInvariant, PTL DEF TrapReturns

(* A fault, whatever its cause.                                            *)
LEMMA FaultPrecise ==
  ASSUME NEW trap \in Nat, NEW rval, Fault(trap, rval), trap \in {6, 8} => rval \in BadAddrs,
         trap # 7
  PROVE  /\ data' = data
         /\ mcause' \in {5, 7} => mtval' \in BadAddrs
         /\ mcause' \notin {5, 7, TimerInterrupt} => mtval' = pc
<1>1. data' = data /\ mcause' = trap - 1 /\ mtval' = TrapValue(trap, rval)
  BY DEF Fault, EnterTrap
<1>2. CASE trap \in {6, 8}
  BY <1>1, <1>2 DEF TrapValue
<1>3. CASE trap \notin {6, 8}
  <2>1. ~(trap > 5 /\ trap <= 8)
    BY <1>3
  <2>2. mtval' = pc /\ mcause' \notin {5, 7}
    BY <1>1, <1>3, <2>1 DEF TrapValue
  <2> QED
    BY <1>1, <2>2
<1> QED
  BY <1>2, <1>3

(* A trap changes no data, and mtval is the address of an access fault and *)
(* the pc of everything else, at any width and for any set of addresses.   *)
THEOREM TrapsPrecise == MachineSpec => TrapPrecise
<1>1. ASSUME MachineNext, resume' # resume, resume' # Nothing
      PROVE  /\ data' = data
             /\ mcause' \in {5, 7} => mtval' \in BadAddrs
             /\ mcause' \notin {5, 7, TimerInterrupt} => mtval' = pc
  <2>1. CASE Step
    <3>1. CASE EnterTrap(TRUE, TimerInterrupt, 0)
      <4>1. data' = data /\ mcause' = TimerInterrupt
        BY <3>1 DEF EnterTrap
      <4>2. TimerInterrupt = 39
        BY DEF TimerInterrupt
      <4> QED
        BY <4>1, <4>2
    <3> QED
      BY <1>1, <2>1, <3>1 DEF Step, ghosts
  <2>2. CASE FetchFault
    <3>1. FetchTrap \in {1, 2} /\ Fault(FetchTrap, 0)
      BY <2>2 DEF FetchFault, FetchTrap
    <3> QED
      BY <3>1, FaultPrecise
  <2>3. CASE Undefined
    BY <2>3, FaultPrecise DEF Undefined
  <2>4. CASE EnvCall
    <3>1. \E trap \in {9, 12} : Fault(trap, 0)
      BY <2>4 DEF EnvCall
    <3> QED
      BY <3>1, FaultPrecise
  <2>5. CASE LoadFault \/ StoreFault \/ AtomicFault
    <3>1. \E trap \in {6, 8}, a \in BadAddrs : Fault(trap, a)
      BY <2>5 DEF LoadFault, StoreFault, AtomicFault
    <3> QED
      BY <3>1, FaultPrecise
  <2>6. CASE resume' = resume \/ resume' = Nothing
    BY <1>1, <2>6
  <2> QED
    BY <1>1, <2>1, <2>2, <2>3, <2>4, <2>5, <2>6 DEF MachineNext, StepEnd, Restart, Execute,
       Compute, Jump, Load, Store, StoreDevice, StoreMatch, WriteStatus,
       WriteEnable, WritePending, WriteEpc, WriteVector, WaitForInterrupt, TrapReturn,
       LoadReserved, StoreConditional, Amo, SysconOther, PowerOff, SysconRestart, LeaveTo,
       ghosts
<1>2. [MachineNext]_mvars => [resume' # resume /\ resume' # Nothing =>
         /\ data' = data
         /\ mcause' \in {5, 7} => mtval' \in BadAddrs
         /\ mcause' \notin {5, 7, TimerInterrupt} => mtval' = pc]_mvars
  BY <1>1
<1> QED
  BY <1>2, PTL DEF MachineSpec, TrapPrecise

-----------------------------------------------------------------------------
(* The timer.                                                              *)

(* What the low half, and the high half with a carry, are after a tick.    *)
LEMMA WordWraps ==
  ASSUME NEW n \in Word
  PROVE  /\ (n + 1) % WORDS = IF n + 1 = WORDS THEN 0 ELSE n + 1
         /\ (n + 1) % WORDS \in Word
<1>1. WORDS \in Nat /\ WORDS > 1 /\ n \in 0 .. WORDS - 1
  BY MachineAssumption DEF Word
<1>2. CASE n + 1 = WORDS
  BY <1>1, <1>2 DEF Word
<1>3. CASE n + 1 # WORDS
  BY <1>1, <1>3 DEF Word
<1> QED BY <1>2, <1>3

LEMMA TickedIs ==
  ASSUME NEW t \in Half
  PROVE  /\ t[1] \in Word /\ t[2] \in Word
         /\ Ticked(t) \in Half
         /\ Ticked(t)[1] = IF t[1] + 1 = WORDS THEN 0 ELSE t[1] + 1
         /\ Ticked(t)[2] = IF t[1] + 1 = WORDS
                           THEN IF t[2] + 1 = WORDS THEN 0 ELSE t[2] + 1 ELSE t[2]
<1>1. t[1] \in Word /\ t[2] \in Word
  BY DEF Half
<1>2. PICK low : low = (t[1] + 1) % WORDS
  OBVIOUS
<1>3. Ticked(t) = <<low, IF low < t[1] THEN (t[2] + 1) % WORDS ELSE t[2]>>
  BY <1>2 DEF Ticked
<1>4. low = (IF t[1] + 1 = WORDS THEN 0 ELSE t[1] + 1) /\ low \in Word
  BY <1>1, <1>2, WordWraps
<1>5. low < t[1] <=> t[1] + 1 = WORDS
  <2>1. t[1] \in Int /\ t[1] >= 0 /\ WORDS \in Int /\ WORDS > 1
    BY <1>1, MachineAssumption DEF Word
  <2> QED BY <1>4, <2>1
<1>6. (t[2] + 1) % WORDS = (IF t[2] + 1 = WORDS THEN 0 ELSE t[2] + 1) /\ (t[2] + 1) % WORDS \in Word
  BY <1>1, WordWraps
<1> QED BY <1>1, <1>3, <1>4, <1>5, <1>6 DEF Half

(* A number below the square, by its two digits.                           *)
LEMMA Digits ==
  ASSUME NEW n \in Nat, n > 1, NEW low \in 0 .. n - 1, NEW high \in 0 .. n - 1
  PROVE  /\ low + n * high \in 0 .. n * n - 1
         /\ low + n * high = n * n - 1 <=> low = n - 1 /\ high = n - 1
<1> DEFINE gap == (n - 1) - high
<1>1. gap \in Nat /\ high = (n - 1) - gap
  OBVIOUS
<1>2. n * high = n * n - n - n * gap /\ n * high \in Nat /\ n * gap \in Nat /\ n * n \in Nat
  BY <1>1
<1>3. gap > 0 => n * gap >= n
  BY <1>1
<1>4. gap = 0 => n * gap = 0
  BY <1>1
<1> HIDE DEF gap
<1> QED BY <1>1, <1>2, <1>3, <1>4

(* Comparing the halves compares the numbers.                              *)
LEMMA DigitsOrdered ==
  ASSUME NEW n \in Nat, n > 1, NEW a \in 0 .. n - 1, NEW b \in 0 .. n - 1,
         NEW c \in 0 .. n - 1, NEW d \in 0 .. n - 1
  PROVE  /\ a + n * b > c + n * d <=> b > d \/ (b = d /\ a > c)
         /\ a + n * b # 0 <=> a # 0 \/ b # 0
<1>1. n * b \in Int /\ n * d \in Int /\ n * b >= 0
  OBVIOUS
<1>2. b > d => n * b >= n * d + n
  <2> SUFFICES ASSUME b > d PROVE n * (b - d) >= n
    OBVIOUS
  <2> QED OBVIOUS
<1>3. d > b => n * d >= n * b + n
  <2> SUFFICES ASSUME d > b PROVE n * (d - b) >= n
    OBVIOUS
  <2> QED OBVIOUS
<1>4. b > 0 => n * b >= n
  OBVIOUS
<1>5. b = 0 => n * b = 0
  OBVIOUS
<1>6. b = d => n * b = n * d
  OBVIOUS
<1> QED BY <1>1, <1>2, <1>3, <1>4, <1>5, <1>6

(* One more than a number by its digits, below the square.                 *)
LEMMA TickAdds ==
  ASSUME NEW t \in Half
  PROVE  Value64(Ticked(t)) = (Value64(t) + 1) % (WORDS * WORDS)
<1> DEFINE n == WORDS
           u == Ticked(t)
<1>1. n \in Nat /\ n > 1
  BY MachineAssumption
<1>2. t[1] \in 0 .. n - 1 /\ t[2] \in 0 .. n - 1
  BY TickedIs DEF Word
<1>3. /\ u[1] = IF t[1] + 1 = n THEN 0 ELSE t[1] + 1
      /\ u[2] = IF t[1] + 1 = n THEN IF t[2] + 1 = n THEN 0 ELSE t[2] + 1 ELSE t[2]
  BY TickedIs
<1> DEFINE v == t[1] + n * t[2]
<1>4. /\ v \in 0 .. n * n - 1 /\ n * n \in Nat /\ n * n > 0
      /\ v = n * n - 1 <=> t[1] = n - 1 /\ t[2] = n - 1
  <2>1. n * n \in Nat /\ n * n > 0
    BY <1>1
  <2> HIDE DEF n
  <2> QED BY <1>1, <1>2, <2>1, Digits
<1>5. (v + 1) % (n * n) = IF v = n * n - 1 THEN 0 ELSE v + 1
  <2> HIDE DEF n, v
  <2>1. PICK m : m = n * n
    OBVIOUS
  <2>2. m \in Nat /\ m > 0 /\ v \in 0 .. m - 1
    BY <1>4, <2>1
  <2>3. (v + 1) % m = IF v = m - 1 THEN 0 ELSE v + 1
    BY <2>2
  <2> QED BY <2>1, <2>3
<1>6. u[1] + n * u[2] = IF v = n * n - 1 THEN 0 ELSE v + 1
  <2>1. CASE t[1] + 1 # n
    <3>1. u[1] = t[1] + 1 /\ u[2] = t[2]
      BY <1>3, <2>1
    <3>2. v # n * n - 1
      <4>1. v = n * n - 1 => t[1] = n - 1
        BY <1>4
      <4> HIDE DEF n, v
      <4> QED BY <1>1, <1>2, <2>1, <4>1
    <3>3. n * t[2] \in Int /\ t[1] \in Int
      BY <1>1, <1>2
    <3> QED BY <3>1, <3>2, <3>3
  <2>2. CASE t[1] + 1 = n /\ t[2] + 1 # n
    <3>1. u[1] = 0 /\ u[2] = t[2] + 1
      BY <1>3, <2>2
    <3>2. v # n * n - 1
      BY <1>2, <1>4, <2>2
    <3>3. n * (t[2] + 1) = n * t[2] + n /\ n * t[2] \in Int /\ t[1] = n - 1
      BY <1>1, <1>2, <2>2
    <3> QED BY <1>1, <3>1, <3>2, <3>3
  <2>3. CASE t[1] + 1 = n /\ t[2] + 1 = n
    <3>1. u[1] = 0 /\ u[2] = 0 /\ n * 0 = 0
      BY <1>1, <1>3, <2>3
    <3>2. v = n * n - 1
      BY <1>1, <1>2, <1>4, <2>3
    <3> QED BY <3>1, <3>2
  <2> QED BY <2>1, <2>2, <2>3
<1> QED BY <1>5, <1>6 DEF Value64

Clocks ==
  timer \in Half /\ match \in Half /\ mtip \in BOOLEAN /\ mtie \in BOOLEAN

LEMMA ClocksKept == Clocks /\ [MachineNext]_mvars => Clocks'
<1> SUFFICES ASSUME Clocks, [MachineNext]_mvars PROVE Clocks'
  OBVIOUS
<1>1. CASE Step
  <2>1. timer' \in Half /\ mtip' \in BOOLEAN
    BY <1>1, TickedIs DEF Step, Clocks, Fires
  <2>2. match' = match /\ mtie' = mtie
    BY <1>1 DEF Step, EnterTrap, csrs
  <2> QED BY <2>1, <2>2 DEF Clocks
<1>2. CASE \E half \in 1 .. 2 : StoreMatch(half)
  <2>1. PICK half \in 1 .. 2, v \in Word : match' = [match EXCEPT ![half] = v]
    BY <1>2 DEF StoreMatch
  <2>2. match' \in Half
    <3>1. match[1] \in Word /\ match[2] \in Word /\ match = <<match[1], match[2]>>
      BY DEF Clocks, Half
    <3>2. half = 1 \/ half = 2
      OBVIOUS
    <3>3. match' = <<v, match[2]>> \/ match' = <<match[1], v>>
      BY <2>1, <3>1, <3>2
    <3> QED BY <3>1, <3>3 DEF Half
  <2>3. timer' = timer /\ mtip' = mtip /\ mtie' = mtie
    BY <1>2 DEF StoreMatch, csrs
  <2> QED BY <2>2, <2>3 DEF Clocks
<1>3. CASE WriteEnable \/ WritePending
  BY <1>3 DEF WriteEnable, WritePending, Clocks, clint, csrs
<1>4. CASE Restart
  <2>1. <<0, 0>> \in Half
    BY MachineAssumption DEF Half, Word
  <2> QED BY <1>4, <2>1 DEF Restart, Clocks
<1>5. CASE UNCHANGED <<timer, match, mtip, mtie>>
  BY <1>5 DEF Clocks
<1>6. CASE Execute /\ ~(\E half \in 1 .. 2 : StoreMatch(half)) /\ ~WriteEnable /\ ~WritePending
  BY <1>5, <1>6 DEF Execute, FetchFault, Undefined, EnvCall, LoadFault, StoreFault, AtomicFault,
     Fault, EnterTrap, Compute, Jump, Load, Store, StoreDevice, WriteStatus, WriteEpc,
     WriteVector, WaitForInterrupt, TrapReturn, LoadReserved, StoreConditional, Amo,
     SysconOther, PowerOff, SysconRestart, LeaveTo, clint, csrs
<1>7. CASE StepEnd \/ UNCHANGED mvars
  BY <1>5, <1>7 DEF StepEnd, mvars, clint, csrs
<1> QED BY <1>1, <1>2, <1>3, <1>4, <1>6, <1>7 DEF MachineNext

LEMMA ClocksInvariant == MachineSpec => []Clocks
<1>1. MachineInit => Clocks
  <2>1. <<0, 0>> \in Half
    BY MachineAssumption DEF Half, Word
  <2> QED BY <2>1 DEF MachineInit, Clocks
<1> QED BY <1>1, ClocksKept, PTL DEF MachineSpec

(* The carry and the comparison by halves amount to arithmetic with the    *)
(* whole counter, at any width: MTIP says whether mtime has passed an      *)
(* armed mtimecmp, and mtime has moved by one.                             *)
THEOREM TimerCounts == MachineSpec => TimerExact
<1>1. ASSUME Clocks, MachineNext, phase = "host"
      PROVE  /\ Value64(timer') = (Value64(timer) + 1) % (WORDS * WORDS)
             /\ mtip' = (Value64(match) # 0 /\ Value64(timer') > Value64(match))
  <2>1. timer' = Ticked(timer) /\ mtip' = Fires(timer', match)
    BY <1>1 DEF MachineNext, StepEnd, Execute, Restart, Step, FetchFault, Running, Fetched,
       Undefined, EnvCall, LoadFault, StoreFault, AtomicFault, Compute, Jump, Load, Store,
       StoreDevice, StoreMatch, WriteStatus, WriteEnable, WritePending, WriteEpc,
       WriteVector, WaitForInterrupt, TrapReturn, LoadReserved, StoreConditional, Amo,
       SysconOther, PowerOff, SysconRestart, LeaveTo
  <2>2. timer' \in Half /\ timer \in Half /\ match \in Half
    BY <1>1, <2>1, TickedIs DEF Clocks
  <2>3. \A h \in Half : h[1] \in 0 .. WORDS - 1 /\ h[2] \in 0 .. WORDS - 1
    BY DEF Half, Word
  <2>4. WORDS \in Nat /\ WORDS > 1
    BY MachineAssumption
  <2>5. /\ Value64(timer') > Value64(match)
           <=> timer'[2] > match[2] \/ (timer'[2] = match[2] /\ timer'[1] > match[1])
        /\ Value64(match) # 0 <=> match[1] # 0 \/ match[2] # 0
    <3>1. PICK a, b, c, d : a = timer'[1] /\ b = timer'[2] /\ c = match[1] /\ d = match[2]
      OBVIOUS
    <3>2. /\ a \in 0 .. WORDS - 1 /\ b \in 0 .. WORDS - 1
          /\ c \in 0 .. WORDS - 1 /\ d \in 0 .. WORDS - 1
      BY <2>2, <2>3, <3>1
    <3>3. /\ a + WORDS * b > c + WORDS * d <=> b > d \/ (b = d /\ a > c)
          /\ c + WORDS * d # 0 <=> c # 0 \/ d # 0
      BY ONLY <2>4, <3>2, DigitsOrdered
    <3>4. Value64(timer') = a + WORDS * b /\ Value64(match) = c + WORDS * d
      BY <3>1 DEF Value64
    <3> QED BY <3>1, <3>3, <3>4
  <2>6. Fires(timer', match) = (Value64(match) # 0 /\ Value64(timer') > Value64(match))
    BY <2>5 DEF Fires
  <2> QED BY <1>1, <2>1, <2>6, TickAdds DEF Clocks
<1>2. Clocks /\ [MachineNext]_mvars
        => [phase = "host" /\ timer' # timer =>
              /\ Value64(timer') = (Value64(timer) + 1) % (WORDS * WORDS)
              /\ mtip' = (Value64(match) # 0 /\ Value64(timer') > Value64(match))]_mvars
  BY <1>1
<1> QED BY <1>2, ClocksInvariant, PTL DEF MachineSpec, TimerExact

-----------------------------------------------------------------------------
(* The type invariant: what MInv and Clocks leave open.                    *)

Places ==
  /\ program \in Programs
  /\ phase \in {"host", "run", "off", "restart"} /\ left \in 0 .. Count

Contents ==
  /\ {mcause, mtval} \subseteq Nat
  /\ reg \in Word /\ mem \in [WordAddrs -> Word]
  /\ resume \in [pc : Int, mie : BOOLEAN, priv : 0 .. 3] /\ reserved \in Addrs

LEMMA Bytes ==
  /\ {0, 1} \subseteq Word /\ 0 \in WordAddrs /\ 0 \in Addrs
  /\ Nothing \in [pc : Int, mie : BOOLEAN, priv : 0 .. 3]
<1>1. RAM_SIZE >= 4
  BY MachineAssumption
<1> QED BY <1>1, MachineAssumption DEF Word, WordAddrs, Addrs, Nothing

(* A trap, of either kind.                                                 *)
LEMMA TrapContents ==
  ASSUME MInv, Places, Contents, NEW interrupt \in BOOLEAN, NEW cause \in Nat, NEW value \in Nat,
         EnterTrap(interrupt, cause, value)
  PROVE  Places' /\ Contents'
<1>1. Places'
  BY MachineAssumption DEF Places, EnterTrap
<1>2. resume' \in [pc : Int, mie : BOOLEAN, priv : 0 .. 3]
  BY PrivKnown DEF EnterTrap, MInv, Registers, Statuses
<1>3. mcause' = cause /\ mtval' = value /\ UNCHANGED <<reg, mem, reserved>>
  BY DEF EnterTrap, data
<1> QED BY <1>1, <1>2, <1>3 DEF Contents

LEMMA FaultContents ==
  ASSUME MInv, Places, Contents, NEW trap \in Nat \ {0}, NEW rval \in Nat, Fault(trap, rval)
  PROVE  Places' /\ Contents'
<1>1. trap - 1 \in Nat /\ TrapValue(trap, rval) \in Nat
  BY DEF TrapValue, MInv, Registers
<1> QED BY <1>1, TrapContents DEF Fault

(* An instruction that the program counter passes.                         *)
LEMMA GoOnPlaces ==
  ASSUME Places, Running, NEW next, GoOn(next)
  PROVE  Places'
<1>1. left \in 0 .. Count /\ left > 0 /\ left' = left - 1 /\ Count \in Nat
  BY MachineAssumption DEF Places, Running, GoOn
<1>2. left' \in 0 .. Count
  BY <1>1
<1> QED BY <1>2 DEF Places, GoOn

LEMMA ExecuteContents ==
  ASSUME MInv, Clocks, Places, Contents, Execute
  PROVE  Places' /\ Contents'
<1>1. CASE FetchFault
  <2>1. FetchTrap \in Nat \ {0} /\ Fault(FetchTrap, 0)
    BY <1>1 DEF FetchFault, FetchTrap
  <2> QED BY <2>1, FaultContents
<1>2. CASE Undefined
  <2>1. \E trap \in Nat \ {0} : Fault(trap, 0)
    BY <1>2 DEF Undefined
  <2> QED BY <2>1, FaultContents
<1>3. CASE EnvCall
  <2>1. \E trap \in Nat \ {0} : Fault(trap, 0)
    BY <1>3 DEF EnvCall
  <2> QED BY <2>1, FaultContents
<1>4. CASE LoadFault \/ StoreFault \/ AtomicFault
  <2>1. \E trap \in Nat \ {0}, a \in Nat : Fault(trap, a)
    BY <1>4, MachineAssumption DEF LoadFault, StoreFault, AtomicFault
  <2> QED BY <2>1, FaultContents
<1>5. ASSUME Compute \/ Jump \/ Load \/ Store \/ StoreDevice
             \/ (\E half \in 1 .. 2 : StoreMatch(half))
             \/ WriteStatus \/ WriteEnable \/ WritePending \/ WriteEpc \/ WriteVector \/ TrapReturn
             \/ LoadReserved \/ StoreConditional \/ Amo
      PROVE  Places'
  <2>1. Running /\ \E next : GoOn(next)
    BY <1>5 DEF Compute, Jump, Load, Store, StoreDevice, StoreMatch, WriteStatus,
       WriteEnable, WritePending, WriteEpc, WriteVector, TrapReturn, LoadReserved,
       StoreConditional, Amo, Fetched
  <2> QED BY <2>1, GoOnPlaces
<1>6. CASE Compute \/ Jump \/ Load
  <2>1. reg' \in Word
    BY <1>6 DEF Compute, Jump, Load, WriteBack, Contents
  <2>2. UNCHANGED <<mcause, mtval, mem, resume, reserved>>
    BY <1>6 DEF Compute, Jump, Load, csrs, ghosts
  <2> QED BY <1>5, <1>6, <2>1, <2>2 DEF Contents
<1>7. \A a \in Addrs : mem' \in StoredAt(a) => mem' \in [WordAddrs -> Word]
  BY DEF StoredAt
<1>8. CASE Store
  <2>1. mem' \in [WordAddrs -> Word]
    BY <1>7, <1>8 DEF Store
  <2>2. UNCHANGED <<mcause, mtval, reg, resume, reserved>>
    BY <1>8 DEF Store, csrs, ghosts
  <2> QED BY <1>5, <1>8, <2>1, <2>2 DEF Contents
<1>9. CASE StoreDevice \/ (\E half \in 1 .. 2 : StoreMatch(half)) \/ WriteEnable \/ WritePending
           \/ WriteVector
  <2>1. UNCHANGED <<mcause, mtval, reg, mem, resume, reserved>>
    BY <1>9 DEF StoreDevice, StoreMatch, WriteEnable, WritePending, WriteVector, csrs, data, ghosts
  <2> QED BY <1>5, <1>9, <2>1 DEF Contents
<1>10. CASE WriteStatus \/ WriteEpc \/ TrapReturn
  <2>1. resume' = Nothing /\ UNCHANGED <<mcause, mtval, reg, mem, reserved>>
    BY <1>10 DEF WriteStatus, WriteEpc, TrapReturn, data
  <2> QED BY <1>5, <1>10, <2>1, Bytes DEF Contents
<1>11. CASE LoadReserved
  <2>1. reserved' \in Addrs /\ \E v \in Word : reg' \in {reg, v}
    BY <1>11 DEF LoadReserved, WriteBack
  <2>2. UNCHANGED <<mcause, mtval, mem, resume>>
    BY <1>11 DEF LoadReserved, csrs
  <2> QED BY <1>5, <1>11, <2>1, <2>2 DEF Contents
<1>12. CASE StoreConditional \/ Amo
  <2>1. /\ mem' = mem \/ \E a \in Addrs : mem' \in StoredAt(a)
        /\ \E v \in Word \cup {0, 1} : reg' \in {reg, v}
    BY <1>12 DEF StoreConditional, Amo, WriteBack
  <2>2. mem' \in [WordAddrs -> Word] /\ reg' \in Word
    BY <1>7, <2>1, Bytes DEF Contents
  <2>3. UNCHANGED <<mcause, mtval, resume, reserved>>
    BY <1>12 DEF StoreConditional, Amo, csrs, ghosts
  <2> QED BY <1>5, <1>12, <2>2, <2>3 DEF Contents
<1>13. CASE WaitForInterrupt \/ SysconOther \/ PowerOff \/ SysconRestart
  <2>1. /\ phase' \in {"host", "off", "restart"} /\ left' = 0
        /\ UNCHANGED <<program, mcause, mtval, reg, mem, resume, reserved>>
    BY <1>13 DEF WaitForInterrupt, SysconOther, PowerOff, SysconRestart, LeaveTo, csrs, data, ghosts
  <2> QED BY <2>1, MachineAssumption DEF Places, Contents
<1> QED
  BY <1>1, <1>2, <1>3, <1>4, <1>6, <1>8, <1>9, <1>10, <1>11, <1>12, <1>13 DEF Execute

LEMMA BootContents ==
  /\ MachineInit => Places /\ Contents
  /\ Places /\ Restart => Places' /\ Contents'
<1>1. {0} \subseteq Word /\ 0 \in WordAddrs /\ 0 \in Addrs /\ 0 \in 0 .. Count
  BY Bytes, MachineAssumption
<1>2. [a \in WordAddrs |-> 0] \in [WordAddrs -> Word]
  BY <1>1
<1>3. MachineInit => Places /\ Contents
  BY <1>1, <1>2, Bytes DEF MachineInit, Places, Contents
<1>4. Places /\ Restart => Places' /\ Contents'
  BY <1>1, <1>2, Bytes DEF Restart, Places, Contents
<1> QED BY <1>3, <1>4

LEMMA ContentsKept ==
  MInv /\ Clocks /\ Places /\ Contents /\ [MachineNext]_mvars => Places' /\ Contents'
<1> SUFFICES ASSUME MInv, Clocks, Places, Contents, [MachineNext]_mvars
             PROVE  Places' /\ Contents'
  OBVIOUS
<1>1. CASE Step
  <2>1. CASE EnterTrap(TRUE, TimerInterrupt, 0)
    <3>1. TimerInterrupt \in Nat
      BY DEF TimerInterrupt
    <3> QED BY <2>1, <3>1, TrapContents
  <2>2. CASE ~EnterTrap(TRUE, TimerInterrupt, 0)
    <3>1. /\ program' = program
          /\ \/ phase' = phase /\ left' = left
             \/ phase' = "run" /\ left' = Count
          /\ UNCHANGED <<mcause, mtval, reg, mem, resume, reserved>>
      BY <1>1, <2>2 DEF Step, csrs, data, ghosts
    <3> QED BY <3>1, MachineAssumption DEF Places, Contents
  <2> QED BY <2>1, <2>2
<1>2. CASE StepEnd
  BY <1>2 DEF StepEnd, Places, Contents, csrs, data, ghosts
<1>3. CASE Execute
  BY <1>3, ExecuteContents
<1>4. CASE Restart
  BY <1>4, BootContents
<1>5. CASE UNCHANGED mvars
  BY <1>5 DEF mvars, csrs, data, ghosts, Places, Contents
<1> QED BY <1>1, <1>2, <1>3, <1>4, <1>5 DEF MachineNext

(* Every variable of the hart keeps its type, at any width: registers and  *)
(* words of memory stay in a word, the counters in two, and the flags, at  *)
(* any privilege and with the address of any lr.w, within three bits and   *)
(* an address of RAM.                                                      *)
THEOREM MachineTyped == MachineSpec => []MachineTypeOK
<1>1. MInv /\ Clocks /\ Places /\ Contents => MachineTypeOK
  <2>1. MInv /\ Contents => extraflags \in 0 .. 8 * (RAM_SIZE - 4) + 7
    <3> SUFFICES ASSUME MInv, Contents PROVE extraflags \in 0 .. 8 * (RAM_SIZE - 4) + 7
      OBVIOUS
    <3>1. PICK p \in 0 .. 3, w \in {0, 1} : extraflags = p + 4 * w + 8 * reserved
      BY DEF MInv, Fields
    <3>2. RAM_SIZE \in Nat /\ reserved \in 0 .. RAM_SIZE - 4
      BY MachineAssumption DEF Contents, Addrs
    <3> QED BY <3>1, <3>2
  <2> QED BY <2>1 DEF MInv, Registers, Statuses, Levels, Clocks, Places, Contents, MachineTypeOK
<1>2. MachineSpec => [](Places /\ Contents)
  BY BootContents, ContentsKept, MachineInvariant, ClocksInvariant, PTL DEF MachineSpec
<1> QED BY <1>1, <1>2, MachineInvariant, ClocksInvariant, PTL
=============================================================================
