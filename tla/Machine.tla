------------------------------ MODULE Machine ------------------------------
(***************************************************************************)
(* The emulated hart of mini-rv32ima.h and the host loop of                *)
(* mini-rv32ima.c: the timer, traps and interrupts, wait-for-interrupt,    *)
(* reservations and the system controller.  One instruction is a step; its *)
(* operands and its arithmetic result are any values, as is a word of RAM  *)
(* that a store of any width and alignment touches.  "program" is the set  *)
(* of instructions the loaded image consists of.                           *)
(***************************************************************************)
EXTENDS Integers

CONSTANTS
  WORDS,      \* the values of a register and of half a 64-bit counter: 2^32
  RAM_SIZE,   \* bytes of RAM, MINI_RV32_RAM_SIZE
  CodePoints, \* the addresses a jump, mepc or mtvec can name
  BadAddrs,   \* data addresses outside RAM and outside the devices
  Count,      \* instrs_per_flip
  Programs    \* the images: sets of names of instructions

ASSUME MachineAssumption ==
  /\ {WORDS, RAM_SIZE, Count} \subseteq Nat \ {0} /\ WORDS > 1
  /\ RAM_SIZE % 4 = 0
  /\ CodePoints \cup BadAddrs \subseteq Nat
  /\ 0 \in CodePoints
  /\ \A a \in BadAddrs : a >= RAM_SIZE - 3

VARIABLES
  program,        \* what the image holds, fixed when it is loaded
  phase,          \* "host", "run" inside MiniRV32IMAStep, "off"
  left,           \* count - icount
  timer, match,   \* <<low, high>> of mtime and of mtimecmp
  mtip, mtie,     \* bit 7 of mip and of mie
  mstatus,        \* the fields MIE, MPIE and MPP
  pc, mepc, mtvec, mcause, mtval,
  extraflags,     \* privilege + 4 * WFI + 8 * reservation
  reg, mem,       \* a register and the words of RAM
  resume,         \* checking only: what the last trap interrupted
  reserved        \* checking only: the address of the last lr.w

clint == <<timer, match>>
csrs == <<mtie, mstatus, mepc, mtvec, mcause, mtval>>
data == <<reg, mem>>
ghosts == <<resume, reserved>>
mvars == <<program, phase, left, clint, mtip, csrs, pc, extraflags, data, ghosts>>

Word == 0 .. WORDS - 1
Half == Word \X Word
Value64(h) == h[1] + WORDS * h[2]
WordAddrs == {a \in 0 .. RAM_SIZE - 4 : a % 4 = 0}

\* The addresses of RAM that loads, stores and atomics accept: no alignment
\* is asked for.
Addrs == 0 .. RAM_SIZE - 4
Overlaps(a) == {w \in WordAddrs : w < a + 4 /\ a < w + 4}

\* Memory after a store at address a.
StoredAt(a) ==
  {m \in [WordAddrs -> Word] : \A w \in WordAddrs \ Overlaps(a) : m[w] = mem[w]}

\* Bits 11 and 12 of mstatus and bits 0 and 1 of extraflags: the core knows
\* machine (3) and user (0), and checks neither.
Levels == 0 .. 3

\* The fields of extraflags.
Priv == extraflags % 4
WFI == (extraflags \div 4) % 2 = 1
Slot == extraflags \div 8
WithPriv(p) == extraflags - Priv + p
\* Mutant: forgets sleep and reservation.
WithMachine_Alone == 3
WithMachine == WithPriv(3)
AsleepFlags == IF WFI THEN extraflags ELSE extraflags + 4
\* Mutant: a timer interrupt does not end the sleep.
AwakeFlags_Asleep == extraflags
AwakeFlags == IF WFI THEN extraflags - 4 ELSE extraflags
\* The address loses no bit in the shift: a RAM is smaller than 2^29 bytes.
SlotFlags(a) == (extraflags % 8) + 8 * a

Nothing == [pc |-> -1, mie |-> FALSE, priv |-> 0]

\* memset of all of RAM, where the core lives too.
MachineInit ==
  /\ program \in Programs
  /\ phase = "host" /\ left = 0
  /\ timer = <<0, 0>> /\ match = <<0, 0>>
  /\ mtip = FALSE /\ mtie = FALSE
  /\ mstatus = [mie |-> FALSE, mpie |-> FALSE, mpp |-> 0]
  /\ pc = 0 /\ mepc = 0 /\ mtvec = 0 /\ mcause = 0 /\ mtval = 0
  /\ extraflags = 3
  /\ reg = 0 /\ mem = [a \in WordAddrs |-> 0]
  /\ resume = Nothing /\ reserved = 0

-----------------------------------------------------------------------------
\* Mutant: the low half wraps alone.
Ticked_NoCarry(t) == <<(t[1] + 1) % WORDS, t[2]>>

\* The timer of one call: the low half is added to and may carry.
Ticked(t) == LET low == (t[1] + 1) % WORDS
             IN  <<low, IF low < t[1] THEN (t[2] + 1) % WORDS ELSE t[2]>>

\* Mutant: the low halves are not compared.
Fires_HighAlone(t, m) == t[2] > m[2] /\ (m[2] # 0 \/ m[1] # 0)
Fires(t, m) ==
  /\ t[2] > m[2] \/ (t[2] = m[2] /\ t[1] > m[1])
  /\ m[2] # 0 \/ m[1] # 0

\* Machine timer interrupt; 32 stands for the top bit of mcause.
TimerInterrupt == 32 + 7

\* The pc a trap leaves in mepc.  An interrupt first takes 4 from it, as if
\* an instruction had been counted.
TrapPc(interrupt) == IF interrupt THEN (pc - 4) + 4 ELSE pc

\* Mutant: MPIE does not take the old MIE.
TrapStatus_Disabled == [mie |-> FALSE, mpie |-> FALSE, mpp |-> Priv]
TrapStatus == [mie |-> FALSE, mpie |-> mstatus.mie, mpp |-> Priv]

\* Mutant: off by one at the store access fault.
TrapValue_LoadOnly(trap, rval) == IF trap > 5 /\ trap < 8 THEN rval ELSE pc
TrapValue(trap, rval) == IF trap > 5 /\ trap <= 8 THEN rval ELSE pc

\* The end of MiniRV32IMAStep with a trap: "trap" is the cause plus one.
EnterTrap(interrupt, cause, value) ==
  /\ mcause' = cause /\ mtval' = value
  /\ mepc' = TrapPc(interrupt)
  /\ mstatus' = TrapStatus
  /\ pc' = mtvec
  /\ resume' = [pc |-> pc, mie |-> mstatus.mie, priv |-> Priv]
  /\ phase' = "host" /\ left' = 0
  /\ UNCHANGED <<program, match, mtie, mtvec, data, reserved>>

Fault(trap, rval) ==
  /\ EnterTrap(FALSE, trap - 1, TrapValue(trap, rval))
  /\ extraflags' = WithMachine
  /\ UNCHANGED <<timer, mtip>>

\* The head of MiniRV32IMAStep: timer, interrupt, or Count instructions.
Step ==
  /\ phase = "host"
  /\ timer' = Ticked(timer)
  /\ LET fires == Fires(timer', match)
         asleep == WFI /\ ~fires
     IN  /\ mtip' = fires
         /\ \/ /\ asleep
               /\ UNCHANGED <<program, phase, left, match, csrs, pc, extraflags, data, ghosts>>
            \/ /\ ~asleep /\ fires /\ mtie /\ mstatus.mie
               /\ EnterTrap(TRUE, TimerInterrupt, 0)
               /\ extraflags' = AwakeFlags - Priv + 3
            \/ /\ ~asleep /\ ~(fires /\ mtie /\ mstatus.mie)
               /\ phase' = "run" /\ left' = Count
               /\ extraflags' = IF fires THEN AwakeFlags ELSE extraflags
               /\ UNCHANGED <<program, match, csrs, pc, data, ghosts>>

\* The loop counter has reached count.
StepEnd ==
  /\ phase = "run" /\ left = 0
  /\ phase' = "host"
  /\ UNCHANGED <<program, left, clint, mtip, csrs, pc, extraflags, data, ghosts>>
-----------------------------------------------------------------------------
\* Instructions.  Fetching outside RAM or off a word faults first.
Running == phase = "run" /\ left > 0
FetchTrap == IF pc >= RAM_SIZE THEN 2 ELSE IF pc % 4 # 0 THEN 1 ELSE 0
FetchFault == Running /\ FetchTrap # 0 /\ Fault(FetchTrap, 0)

Fetched(name) == Running /\ FetchTrap = 0 /\ name \in program
GoOn(next) == pc' = next /\ left' = left - 1 /\ UNCHANGED <<program, phase>>

\* Register writeback, not done for x0.
WriteBack(v) == reg' \in {reg, v}

\* OP, OP-IMM, LUI, AUIPC, FENCE and reads of control registers.
Compute ==
  /\ Fetched("compute") /\ GoOn(pc + 4)
  /\ \E v \in Word : WriteBack(v)
  /\ UNCHANGED <<clint, mtip, csrs, extraflags, mem, ghosts>>

\* JAL, JALR and branches taken.
Jump ==
  /\ Fetched("jump")
  /\ \E target \in CodePoints : GoOn(target)
  /\ \E v \in Word : WriteBack(v)
  /\ UNCHANGED <<clint, mtip, csrs, extraflags, mem, ghosts>>

\* Undefined opcodes and functions (trap 3), EBREAK (4), ECALL by privilege.
Undefined == Fetched("undefined") /\ \E trap \in {3, 4} : Fault(trap, 0)
EnvCall == Fetched("ecall") /\ Fault(IF Priv # 0 THEN 12 ELSE 9, 0)

\* Loads and stores outside RAM and outside the device window.
LoadFault == Fetched("load") /\ \E a \in BadAddrs : Fault(6, a)
StoreFault == Fetched("store") /\ \E a \in BadAddrs : Fault(8, a)

\* RAM, the timer or a device of the host: a console byte or its status.
Load ==
  /\ Fetched("load") /\ GoOn(pc + 4)
  /\ \E v \in Word : WriteBack(v)
  /\ UNCHANGED <<clint, mtip, csrs, extraflags, mem, ghosts>>

Store ==
  /\ Fetched("store") /\ GoOn(pc + 4)
  /\ \E a \in Addrs : mem' \in StoredAt(a)
  /\ UNCHANGED <<clint, mtip, csrs, extraflags, reg, ghosts>>

\* A byte printed.
StoreDevice ==
  /\ Fetched("store") /\ GoOn(pc + 4)
  /\ UNCHANGED <<clint, mtip, csrs, extraflags, data, ghosts>>

StoreMatch(half) ==
  /\ Fetched("match") /\ GoOn(pc + 4)
  /\ \E v \in Word : match' = [match EXCEPT ![half] = v]
  /\ UNCHANGED <<timer, mtip, csrs, extraflags, data, ghosts>>

\* csrrw and its kin: read, combined and written in one step.  WARL rules are
\* not enforced; only the bits that are used are kept here.  Writes of
\* mcause, mtval and mscratch, which the core never reads, are left out.
WriteStatus ==
  /\ Fetched("status") /\ GoOn(pc + 4)
  /\ \E e, p \in BOOLEAN, m \in Levels : mstatus' = [mie |-> e, mpie |-> p, mpp |-> m]
  /\ resume' = Nothing
  /\ UNCHANGED <<clint, mtip, mtie, mepc, mtvec, mcause, mtval, extraflags, data, reserved>>

WriteEnable ==
  /\ Fetched("enable") /\ GoOn(pc + 4)
  /\ mtie' \in BOOLEAN
  /\ UNCHANGED <<clint, mtip, mstatus, mepc, mtvec, mcause, mtval, extraflags, data, ghosts>>

WritePending ==
  /\ Fetched("pending") /\ GoOn(pc + 4)
  /\ mtip' \in BOOLEAN
  /\ UNCHANGED <<clint, csrs, extraflags, data, ghosts>>

WriteEpc ==
  /\ Fetched("epc") /\ GoOn(pc + 4)
  /\ mepc' \in CodePoints
  /\ resume' = Nothing
  /\ UNCHANGED <<clint, mtip, mtie, mstatus, mtvec, mcause, mtval, extraflags, data, reserved>>

WriteVector ==
  /\ Fetched("vector") /\ GoOn(pc + 4)
  /\ mtvec' \in CodePoints
  /\ UNCHANGED <<clint, mtip, mtie, mstatus, mepc, mcause, mtval, extraflags, data, ghosts>>

\* wfi enables interrupts, saves the pc behind it and leaves the step.
WaitForInterrupt ==
  /\ Fetched("wfi")
  /\ mstatus' = [mstatus EXCEPT !.mie = TRUE]
  /\ extraflags' = AsleepFlags
  /\ pc' = pc + 4
  /\ phase' = "host" /\ left' = 0
  /\ UNCHANGED <<program, clint, mtip, mtie, mepc, mtvec, mcause, mtval, data, ghosts>>

ReturnStatus == [mie |-> mstatus.mpie, mpie |-> TRUE, mpp |-> Priv]
\* Mutant: the old privilege is not taken off first.
ReturnFlags_Added == extraflags + mstatus.mpp
ReturnFlags == WithPriv(mstatus.mpp)

\* mret, and every other system instruction whose number ends in 02.
TrapReturn ==
  /\ Fetched("mret") /\ GoOn(mepc)
  /\ mstatus' = ReturnStatus
  /\ extraflags' = ReturnFlags
  /\ resume' = Nothing
  /\ UNCHANGED <<clint, mtip, mtie, mepc, mtvec, mcause, mtval, data, reserved>>

\* Atomics.  lr.w notes the address beside the flags, sc.w compares and
\* leaves it, every other one reads and writes.
AtomicFault == Fetched("atomic") /\ \E a \in BadAddrs : Fault(8, a)

LoadReserved ==
  /\ Fetched("atomic") /\ GoOn(pc + 4)
  /\ \E a \in Addrs :
       /\ extraflags' = SlotFlags(a)
       /\ reserved' = a
  /\ \E v \in Word : WriteBack(v)
  /\ UNCHANGED <<clint, mtip, csrs, mem, resume>>

StoreConditional ==
  /\ Fetched("atomic") /\ GoOn(pc + 4)
  /\ \E a \in Addrs :
       IF Slot = a THEN /\ mem' \in StoredAt(a)
                        /\ WriteBack(0)
                   ELSE /\ WriteBack(1)
                        /\ UNCHANGED mem
  /\ UNCHANGED <<clint, mtip, csrs, extraflags, ghosts>>

Amo ==
  /\ Fetched("atomic") /\ GoOn(pc + 4)
  /\ \E a \in Addrs : mem' \in StoredAt(a)
  /\ \E v \in Word : WriteBack(v)
  /\ UNCHANGED <<clint, mtip, csrs, extraflags, ghosts>>

\* A store to the system controller leaves the step with the value stored;
\* main() restarts, powers off or goes on by it.
LeaveTo(next) ==
  /\ Fetched("syscon")
  /\ phase' = next /\ left' = 0
  /\ pc' = pc + 4
  /\ UNCHANGED <<program, clint, mtip, csrs, extraflags, data, ghosts>>
SysconOther == LeaveTo("host")
PowerOff == LeaveTo("off")
SysconRestart == LeaveTo("restart")

\* goto restart: RAM is cleared and the image loaded again.
Restart ==
  /\ phase = "restart"
  /\ phase' = "host" /\ left' = 0
  /\ timer' = <<0, 0>> /\ match' = <<0, 0>>
  /\ mtip' = FALSE /\ mtie' = FALSE
  /\ mstatus' = [mie |-> FALSE, mpie |-> FALSE, mpp |-> 0]
  /\ pc' = 0 /\ mepc' = 0 /\ mtvec' = 0 /\ mcause' = 0 /\ mtval' = 0
  /\ extraflags' = 3
  /\ reg' = 0 /\ mem' = [a \in WordAddrs |-> 0]
  /\ resume' = Nothing /\ reserved' = 0
  /\ UNCHANGED program

Execute ==
  \/ FetchFault \/ Compute \/ Jump \/ Undefined \/ EnvCall
  \/ LoadFault \/ StoreFault \/ Load \/ Store \/ StoreDevice
  \/ \E half \in 1 .. 2 : StoreMatch(half)
  \/ WriteStatus \/ WriteEnable \/ WritePending \/ WriteEpc \/ WriteVector
  \/ WaitForInterrupt \/ TrapReturn
  \/ AtomicFault \/ LoadReserved \/ StoreConditional \/ Amo
  \/ SysconOther \/ PowerOff \/ SysconRestart

MachineNext == Step \/ StepEnd \/ Execute \/ Restart

\* The host loop is one thread that never waits.
MachineSpec == MachineInit /\ [][MachineNext]_mvars /\ WF_mvars(MachineNext)
-----------------------------------------------------------------------------
\* Every variable has its type: the word of flags holds two bits, one and an
\* address of RAM, so that nothing in it overflows the register.
MachineTypeOK ==
  /\ program \in Programs
  /\ phase \in {"host", "run", "off", "restart"}
  /\ left \in 0 .. Count
  /\ timer \in Half /\ match \in Half
  /\ mtip \in BOOLEAN /\ mtie \in BOOLEAN
  /\ mstatus \in [mie : BOOLEAN, mpie : BOOLEAN, mpp : Levels]
  /\ {pc, mepc, mtvec, mcause, mtval} \subseteq Nat
  /\ extraflags \in 0 .. 8 * (RAM_SIZE - 4) + 7
  /\ reg \in Word /\ mem \in [WordAddrs -> Word]
  /\ resume \in [pc : Int, mie : BOOLEAN, priv : Levels]
  /\ reserved \in Addrs

\* The two halves, the carry and the comparison by halves amount to 64-bit
\* arithmetic: after every advance of the timer MTIP says whether mtime has
\* passed an armed mtimecmp, and the timer has moved by one.
TimerExact ==
  [][phase = "host" /\ timer' # timer =>
       /\ Value64(timer') = (Value64(timer) + 1) % (WORDS * WORDS)
       /\ mtip' = (Value64(match) # 0 /\ Value64(timer') > Value64(match))]_mvars

\* An mret that finds the trap registers as the trap left them goes back to
\* the instruction the trap hit, or that the interrupt came before, with the
\* privilege and the interrupt enable of that moment, whatever ran between.
TrapReturns ==
  [][TrapReturn /\ resume # Nothing
       => /\ pc' = resume.pc
          /\ mstatus'.mie = resume.mie
          /\ extraflags' % 4 = resume.priv]_mvars

\* A trap changes no register and no memory, and mtval holds the address for
\* an access fault of data and the pc for everything else.
TrapPrecise ==
  [][resume' # resume /\ resume' # Nothing =>
       /\ data' = data
       /\ mcause' \in {5, 7} => mtval' \in BadAddrs
       /\ mcause' \notin {5, 7, TimerInterrupt} => mtval' = pc]_mvars

\* Privilege, sleep and reservation share a word: whatever traps, returns and
\* sleeps come between, a store conditional finds the address of the last
\* lr.w, RAM offset 0 before the first, and nothing runs asleep.
FlagsApart == Slot = reserved /\ (phase = "run" => ~WFI)

\* A hart in wfi goes on once the timer passes a match that is armed and can
\* be passed, with or without the interrupt being enabled in mie.
Reachable == Value64(match) \in 1 .. WORDS * WORDS - 2
WfiWakes == WFI /\ Reachable ~> ~WFI

\* An armed and enabled timer interrupts a program that neither moves the
\* match nor disables it, however it loops.
TickComes ==
  \A m \in Half :
    Reachable /\ match = m /\ mtie /\ mstatus.mie
      ~> match # m \/ ~mtie \/ ~mstatus.mie \/ phase \in {"off", "restart"}
=============================================================================
