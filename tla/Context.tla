------------------------------ MODULE Context ------------------------------
(***************************************************************************)
(* Register contexts of the Xinu kernel: the record setupStack makes for a *)
(* new process, the one ctxsw leaves on the stack of a process it switches *)
(* away from, the trap frame of _trap, and the interrupt enable that       *)
(* disable and restore keep.  Registers are x1 .. x31; sp is kept apart.   *)
(***************************************************************************)
EXTENDS Integers

CONSTANTS
  NCTX,       \* processes
  StackTop,   \* where getstk puts a stack: its addresses count from elsewhere
  NArgs,      \* numbers of arguments that create passes
  Residues    \* what earlier frames may have left in a word of a stack

Threads == 0 .. NCTX - 1
CONTEXT_WORDS == 23
MAX_REG_ARGS == 8

\* Code addresses, and what a word that is none of them can hold.
Start == 1         \* procaddr
User == 2          \* further on in the process
SwitchReturn == 3  \* behind the call of ctxsw in resched
ClkHandler == 4
UserRet == 5       \* INITRET
Garbage == 6
Code == Start .. Garbage
Value(p, r, tag) == 100 * (p + 1) + 2 * r + tag
Arg(j) == 50 + j

Regs == (1 .. 31) \ {2}
Args == 10 .. 17
Kept == {1} \cup (8 .. 27)   \* ra, s0 - s11 and a0 - a7

ASSUME ContextAssumption ==
  /\ NCTX \in Nat \ {0}
  /\ NArgs \subseteq Nat
  /\ Residues \subseteq Code
  /\ StackTop \in Nat /\ StackTop % 4 = 0 /\ StackTop > 200

VARIABLES
  running,   \* the process on the processor
  at,        \* its pc
  x, sp,     \* its registers
  mie,       \* MIE of mstatus
  saved,     \* per process, the context at its prstkptr
  nargs,     \* per process, the arguments create was given
  irq, back, \* per process, mask and the return address in resched's frame
  link,      \* per process, the return address in clkhandler's frame
  old        \* per process, whether it has been created and has run; for
             \* checking only, what it had when it called resched

cvars == <<running, at, x, sp, mie, saved, nargs, irq, back, link, old>>
frames == <<irq, back, link>>

-----------------------------------------------------------------------------
\* Where ctxsw puts a register in its 23 words, and _trap in its 35.
Slot_S2OverS1(r) == CASE r = 1 -> 1    \* mutant
                      [] r \in {8, 9} -> r - 5
                      [] r \in 18 .. 27 -> r - 14
                      [] r \in Args -> r + 5
Slot(r) == CASE r = 1 -> 1
             [] r \in {8, 9} -> r - 5
             [] r \in 18 .. 27 -> r - 13
             [] r \in Args -> r + 5
TrapSlot(r) == r + 3

\* setupStack: room for the arguments that spill and for the record, then
\* down to a boundary of 16 bytes, byte by byte.
Spilled(n) == IF n > MAX_REG_ARGS THEN n - MAX_REG_ARGS ELSE 0
Aligned(a) == a - (a % 16)
NewSp_NoSpill(stackaddr, n) == Aligned(stackaddr - 4 * CONTEXT_WORDS)    \* mutant
NewSp(stackaddr, n) == Aligned(stackaddr - 4 * (Spilled(n) + CONTEXT_WORDS))

\* The words it writes: pc, ra and mstatus, zeroes for s0 - s11, all the
\* arguments in one row, zeroes for the a registers that are left.
NewWords(n) ==
  [i \in 0 .. CONTEXT_WORDS + Spilled(n) - 1 |->
     CASE i = 0 -> Start
       [] i = 1 -> UserRet
       [] i = 2 -> 1
       [] i \in 15 .. 14 + n -> Arg(i - 15)
       [] OTHER -> 0]

\* What ctxsw leaves of registers f: the word at 0 is one it never writes,
\* and MIE in the word at 2 is clear, as in all of resched.
OldWords(residue, f) ==
  [i \in 0 .. CONTEXT_WORDS - 1 |->
     IF i = 2 THEN 0
     ELSE IF \E r \in Kept : Slot(r) = i THEN f[CHOOSE r \in Kept : Slot(r) = i]
     ELSE residue]

CtxInit ==
  /\ running = 0 /\ at = User
  /\ x = [r \in Regs |-> IF r = 1 THEN User ELSE Value(0, r, 0)]
  /\ sp = StackTop - 16 /\ mie = TRUE
  /\ nargs = [p \in Threads |-> 0]
  /\ saved = [p \in Threads |-> [sp |-> StackTop, word |-> << >>]]
  /\ irq = [p \in Threads |-> FALSE]
  /\ back = [p \in Threads |-> User] /\ link = back
  /\ old = [p \in Threads |->
             [is |-> IF p = 0 THEN "old" ELSE "none", x |-> x, sp |-> sp, mie |-> TRUE]]

\* A process computes and moves its stack pointer; calls leave ra in its code.
Compute ==
  /\ at \in {Start, User}
  /\ at' = User
  /\ \E tag \in 0 .. 1 :
       /\ x' = [r \in Regs |-> IF r = 1 THEN User ELSE Value(running, r, tag)]
       /\ sp' = StackTop - 16 - 32 * tag
  /\ UNCHANGED <<running, mie, saved, nargs, frames, old>>

\* create() makes the record of a process that has none yet.
CreateContext(q, n) ==
  /\ at = User /\ old[q].is = "none"
  /\ saved' = [saved EXCEPT ![q] = [sp |-> NewSp(StackTop, n), word |-> NewWords(n)]]
  /\ nargs' = [nargs EXCEPT ![q] = n]
  /\ old' = [old EXCEPT ![q].is = "new"]
  /\ UNCHANGED <<running, at, x, sp, mie, frames>>

\* disable() returns 0 if interrupts were enabled; restore(0) enables them.
Disabled(enabled) == ~enabled
Restored_Swapped(mask) == mask    \* mutant
Restored(mask) == ~mask

UserDisable == at = User /\ mie' = FALSE /\
  UNCHANGED <<running, at, x, sp, saved, nargs, frames, old>>
UserEnable == at = User /\ mie' = TRUE /\
  UNCHANGED <<running, at, x, sp, saved, nargs, frames, old>>

\* The other half of ctxsw: registers from the new stack, then mret for a
\* record with MIE set, which enables interrupts, or a jump to word 0.
Load(q) ==
  /\ running' = q
  /\ x' = [r \in Regs |-> IF r \in Kept THEN saved[q].word[Slot(r)] ELSE x[r]]
  /\ sp' = saved[q].sp + 4 * CONTEXT_WORDS
  /\ at' = saved[q].word[0]
  /\ mie' = (saved[q].word[2] = 1)

\* resched() up to and with ctxsw, whose call puts the place behind it in ra.
Resched(q, residue) ==
  /\ at \in {User, ClkHandler} /\ q # running /\ old[q].is # "none"
  /\ irq' = [irq EXCEPT ![running] = Disabled(mie)]
  /\ back' = [back EXCEPT ![running] = at]
  /\ LET now == [x EXCEPT ![1] = SwitchReturn]
     IN  /\ saved' = [saved EXCEPT ![running] =
                        [sp |-> sp - 4 * CONTEXT_WORDS, word |-> OldWords(residue, now)]]
         /\ old' = [old EXCEPT ![running] =
                      [is |-> "old", x |-> now, sp |-> sp, mie |-> mie]]
  /\ Load(q)
  /\ UNCHANGED <<nargs, link>>

\* restore(mask) and the return from resched.
ReschedReturn ==
  /\ at = SwitchReturn
  /\ mie' = Restored(irq[running])
  /\ at' = back[running]
  /\ x' = [x EXCEPT ![1] = back[running]]
  /\ UNCHANGED <<running, sp, saved, nargs, frames, old>>

\* A timer interrupt: _trap stores the registers and mepc, exceptionHandler
\* puts clkhandler in the place of mepc, _trap loads them and returns with
\* interrupts enabled again.  clkhandler keeps its return address, the ra of
\* the interrupted code.
TrapFrame == [i \in {0} \cup {TrapSlot(r) : r \in Regs} |->
                IF i = 0 THEN at
                 ELSE x[CHOOSE r \in Regs : TrapSlot(r) = i]]
Tick ==
  /\ mie /\ at \in {Start, User}
  /\ LET frame == [TrapFrame EXCEPT ![0] = ClkHandler]
     IN  /\ at' = frame[0]
         /\ x' = [r \in Regs |-> frame[TrapSlot(r)]]
         /\ link' = [link EXCEPT ![running] = x'[1]]
  /\ UNCHANGED <<running, sp, mie, saved, nargs, irq, back, old>>

ClkReturn ==
  /\ at = ClkHandler
  /\ at' = link[running]
  /\ x' = [x EXCEPT ![1] = link[running]]
  /\ UNCHANGED <<running, sp, mie, saved, nargs, frames, old>>

\* A fault, a word 0 that is no code, or the end of the process's function.
\* exception_dump_ctx spins; the end of a process is left to Lifecycle.
Stopped ==
  /\ at \in {Garbage, UserRet}
  /\ UNCHANGED cvars

CtxNext ==
  \/ \E q \in Threads, n \in NArgs : CreateContext(q, n)
  \/ Compute \/ UserDisable \/ UserEnable
  \/ \E q \in Threads, residue \in Residues : Resched(q, residue)
  \/ ReschedReturn \/ Tick \/ ClkReturn \/ Stopped

CtxSpec == CtxInit /\ [][CtxNext]_cvars
-----------------------------------------------------------------------------
\* Across a switch a process finds the stack pointer, ra, the callee-saved
\* and the argument registers it left, and interrupts still disabled; the
\* handler of an interrupt finds every register as it was interrupted.
RegistersKept ==
  [][/\ running' # running /\ old[running'].is = "old" =>
          /\ sp' = old[running'].sp
          /\ \A r \in Kept : x'[r] = old[running'].x[r]
          /\ ~mie'
     /\ at \in {Start, User} /\ at' = ClkHandler /\ running' = running =>
          x' = x /\ sp' = sp /\ mie']_cvars

\* The step starts the function of process q, which has n arguments.
StartsFunction(q, n) ==
  LET WordAt(addr) == saved[q].word[(addr - saved[q].sp) \div 4]
  IN  /\ at' = Start /\ mie' /\ x'[1] = UserRet
      /\ \A m \in 0 .. n - 1 :
           IF m < MAX_REG_ARGS THEN x'[10 + m] = Arg(m)
           ELSE WordAt(sp' + 4 * (m - MAX_REG_ARGS)) = Arg(m)
      /\ sp' + 4 * Spilled(n) <= StackTop

\* The first switch to a process starts its function with interrupts enabled
\* and userret to return to, the first eight arguments in a0 .. a7 and the
\* others, in order, from the stack pointer up, below the top of the stack.
\* Nothing is said of alignment: setupStack aligns the record, not the stack
\* that is left once its 23 words are popped, as setupStack.c:33 would have it.
StartsRight ==
  [][running' # running /\ old[running'].is = "new" =>
       StartsFunction(running', nargs[running'])]_cvars

\* A process that comes back to the end of resched has the interrupt enable
\* it called resched with, whatever the processes in between had.
MaskKept == [][at = SwitchReturn /\ at' # at => mie' = old[running].mie]_cvars

\* An old thread goes on behind its call of ctxsw.
ReturnsToCaller ==
  [][running' # running /\ old[running'].is = "old" => at' = SwitchReturn]_cvars
=============================================================================
