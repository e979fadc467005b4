----------------------------- MODULE MCMachine -----------------------------
(***************************************************************************)
(* Images for the hart, each of a few kinds of instruction.                *)
(***************************************************************************)
EXTENDS Machine

\* Faults and the handlers that return from them.
Faulting == {"undefined", "load", "store", "mret"}

\* Code that traps by its own will and moves its vector, in and outside RAM.
Handling == {"compute", "jump", "ecall", "mret", "vector"}

\* A timer that is set, waited for and served, at any privilege.
Waiting == {"match", "wfi", "enable", "status", "mret"}

\* Atomics across traps and interrupts, and across a restart.
Reserving == {"atomic", "ecall", "mret"}
Resetting == {"atomic", "syscon"}

\* Handlers that return elsewhere than the trap came from.
Forging == {"pending", "epc", "ecall", "mret"}

Images == {Faulting, Handling, Waiting, Reserving, Resetting, Forging}
=============================================================================
