----------------------------- MODULE Interrupts -----------------------------
(***************************************************************************)
(* Interrupts: the IDT (idt.c), the dispatch of a vector (isr.asm,         *)
(* isr_c.c) and the two 8259 interrupt controllers as pic.c programs them. *)
(* All gates are interrupt gates: the processor clears IF when it enters   *)
(* a handler, and iretq restores it.                                       *)
(*                                                                         *)
(* The processor and the controllers are hardware.  A line stands for its  *)
(* number; the controllers' registers are sets of lines.  In isr, line 2   *)
(* is the cascade: it is in service when a line of the slave is.           *)
(***************************************************************************)
EXTENDS Integers

CONSTANTS
  Lines,          \* the lines that devices of this machine can raise
  BiosMasks       \* the masks that firmware and GRUB may leave behind

ASSUME InterruptsAssumption ==
  /\ Lines \subseteq (0 .. 15) \ {2}
  /\ BiosMasks \subseteq SUBSET (0 .. 15)

VARIABLES
  int_flag,            \* RFLAGS.IF
  gates,          \* the vectors with a present gate in the IDT
  handlers,       \* the vectors with an entry in handlers[]
  pic,            \* the controllers: first vectors, imr, irr, isr
  masks,          \* a1 and a2 of pic_init
  vector,         \* of the interrupt being handled, or None
  in,             \* where its handler is
  panicked        \* the text that panic() printed first, or None

intVars == <<int_flag, gates, handlers, pic, masks, vector, in, panicked>>

None == -1

Master == 0 .. 7
Slave  == 8 .. 15

\* Vectors of the processor, as exception_names knows them.
DoubleFault == 8
CoreExceptions == {0, 6, 8, 13, 14}

InterruptsInit ==
  /\ int_flag = FALSE
  /\ gates = {}
  /\ handlers = CoreExceptions \cup {32}
  /\ pic \in [master : {8}, slave : {112}, imr : BiosMasks, irr : {{}}, isr : {{}}]
  /\ masks = {}
  /\ vector = None
  /\ in = "main"
  /\ panicked = None

\* Mutant: no gate for the keyboard.
idt_initNoKeyboard ==
  /\ gates' = CoreExceptions \cup {32}
  /\ UNCHANGED <<int_flag, handlers, pic, masks, vector, in, panicked>>

\* idt_init and the seven idt_set_entry
idt_init ==
  /\ gates' = CoreExceptions \cup {32, 33}
  /\ UNCHANGED <<int_flag, handlers, pic, masks, vector, in, panicked>>

isr_register_handler(v) == handlers' = handlers \cup {v}
-----------------------------------------------------------------------------
(* pic_init *)

SaveMasks ==
  /\ masks' = pic.imr
  /\ UNCHANGED <<int_flag, gates, handlers, pic, vector, in, panicked>>

\* Mutant: ICW2 of the master is written with the vectors it has already.
RemapSlaveOnly ==
  /\ pic' = [master |-> 8, slave |-> 40, imr |-> {}, irr |-> {}, isr |-> {}]
  /\ UNCHANGED <<int_flag, gates, handlers, masks, vector, in, panicked>>

\* ICW1 to ICW4 on both controllers.  ICW1 clears the masks and everything
\* that was requested or in service; a line must rise again to be noticed.
Remap ==
  /\ pic' = [master |-> 32, slave |-> 40, imr |-> {}, irr |-> {}, isr |-> {}]
  /\ UNCHANGED <<int_flag, gates, handlers, masks, vector, in, panicked>>

RestoreMasks ==
  /\ pic' = [pic EXCEPT !.imr = masks]
  /\ UNCHANGED <<int_flag, gates, handlers, masks, vector, in, panicked>>
-----------------------------------------------------------------------------
(* The controllers at work. *)

\* The slave's lines rank between 1 and 3, behind the cascade itself.
Rank(l) == IF l \in Slave THEN 20 + l - 8 ELSE 10 * l

\* The controllers offer the line to the processor.
Offered(l) ==
  /\ l \in pic.irr \ pic.imr
  /\ l \in Slave => 2 \notin pic.imr
  /\ \A k \in pic.isr : Rank(l) < Rank(k)

Chosen(l) ==
  /\ Offered(l)
  /\ \A k \in pic.irr : Offered(k) => Rank(l) <= Rank(k)

VectorOf(l) == IF l \in Master THEN pic.master + l ELSE pic.slave + l - 8

Acknowledged(l) ==
  [pic EXCEPT !.irr = @ \ {l},
              !.isr = @ \cup (IF l \in Slave THEN {l, 2} ELSE {l})]

\* The end-of-interrupt command names no line: a controller clears the most
\* urgent one that it has in service.
Topmost(S) == {l \in S : \A k \in S : l <= k}

pic_send_eoi(irq) ==
  pic' = [pic EXCEPT !.isr =
            @ \ (Topmost(@ \cap Master) \cup
                 (IF irq >= 8 THEN Topmost(@ \cap Slave) ELSE {}))]

\* A device raises its line.
Raise(l) == pic' = [pic EXCEPT !.irr = @ \cup {l}]
-----------------------------------------------------------------------------
(* The processor takes an interrupt, and the handler up to its callback. *)

\* A vector without a gate cannot be delivered, and neither can the "segment
\* not present" that follows: the processor ends with a double fault.
Delivered(v) == IF v \in gates THEN v ELSE DoubleFault

Interrupt(l) ==
  /\ int_flag
  /\ Chosen(l)
  /\ pic' = Acknowledged(l)
  /\ vector' = Delivered(VectorOf(l))
  /\ in' = "isr_handler"
  /\ int_flag' = FALSE
  /\ UNCHANGED <<gates, handlers, masks, panicked>>

\* isr_handler finds a callback that returns: the timer's does nothing.
DispatchTimer ==
  /\ in = "isr_handler"
  /\ vector = 32
  /\ vector \in handlers
  /\ in' = "eoi"
  /\ UNCHANGED <<int_flag, gates, handlers, pic, masks, vector, panicked>>

DispatchKeyboard ==
  /\ in = "isr_handler"
  /\ vector = 33
  /\ vector \in handlers
  /\ in' = "keyboard_callback"
  /\ UNCHANGED <<int_flag, gates, handlers, pic, masks, vector, panicked>>

\* The handle_* of an exception panic, and so does isr_handler when it has
\* nothing to call.  The panic names the vector.
DispatchPanics ==
  /\ in = "isr_handler"
  /\ vector \notin handlers \ CoreExceptions
  /\ in' = "panic"
  /\ int_flag' = FALSE
  /\ panicked' = vector
  /\ UNCHANGED <<gates, handlers, pic, masks, vector>>

\* Mutant: vector > 32 instead of >= 32.
EndOfInterruptAbove32 ==
  /\ in = "eoi"
  /\ IF vector \in 33 .. 47 THEN pic_send_eoi(vector - 32) ELSE UNCHANGED pic
  /\ in' = "iretq"
  /\ UNCHANGED <<int_flag, gates, handlers, masks, vector, panicked>>

\* isr_handler sends the end of interrupt to a vector of the controllers, and
\* isr_common returns.
EndOfInterrupt ==
  /\ in = "eoi"
  /\ IF vector \in 32 .. 47 THEN pic_send_eoi(vector - 32) ELSE UNCHANGED pic
  /\ in' = "iretq"
  /\ UNCHANGED <<int_flag, gates, handlers, masks, vector, panicked>>

\* Only an interrupt got here, so IF was set.
Iretq ==
  /\ in = "iretq"
  /\ int_flag' = TRUE
  /\ vector' = None
  /\ in' = "main"
  /\ UNCHANGED <<gates, handlers, pic, masks, panicked>>
=============================================================================
