----------------------------- MODULE KernelRun -----------------------------
(***************************************************************************)
(* The kernel from idt_init to the idle loop of kernel_stage2 (kernel.c),  *)
(* with the interrupts it takes on the way.  One processor: while a        *)
(* handler runs the kernel does not, and a handler is not interrupted.     *)
(* Devices act at any time.                                                *)
(*                                                                         *)
(* What the kernel prints is a text before sti and one after it; both      *)
(* stand for the messages of kernel_stage1 and kernel_stage2.              *)
(***************************************************************************)
EXTENDS Console, Interrupts, Keyboard

CONSTANTS
  TextBefore, TextAfter,   \* printed before and after interrupts are enabled
  MaxKeys                  \* bound: how many bytes the keyboard sends

ASSUME KernelRunAssumption == MaxKeys \in Nat

VARIABLES
  main,         \* where the kernel is
  todo,         \* what the running kprintf has not printed yet
  sent,         \* how many bytes the keyboard has sent
  typed,        \* history: the characters in the order they were printed
  raced,        \* history: a handler printed while the kernel was in putc
  early         \* history: a byte waited when the controllers were programmed

vars == <<consoleVars, intVars, keyboardVars, main, todo, sent, typed, raced, early>>

Init ==
  /\ ConsoleInit
  /\ InterruptsInit
  /\ obf = Empty /\ keys = <<>> /\ scancode = Empty
  /\ main = "idt_init"
  /\ todo = TextBefore
  /\ sent = 0
  /\ typed = <<>>
  /\ raced = FALSE
  /\ early = FALSE
-----------------------------------------------------------------------------
(* The kernel. *)

KernelRuns == in = "main" /\ panicked = None

Goes(from, to) == main = from /\ main' = to

InitIdt ==
  /\ Goes("idt_init", "save_masks")
  /\ idt_init
  /\ UNCHANGED todo

InitPic ==
  /\ \/ Goes("save_masks", "remap") /\ SaveMasks
     \/ Goes("remap", "restore_masks") /\ Remap
     \/ Goes("restore_masks", "keyboard_init") /\ RestoreMasks
  /\ early' = IF main = "remap" THEN obf # Empty ELSE early
  /\ UNCHANGED todo

keyboard_init ==
  /\ Goes("keyboard_init", "print_before")
  /\ isr_register_handler(33)
  /\ UNCHANGED <<int_flag, gates, pic, masks, vector, in, panicked, todo>>

Sti ==
  /\ Goes("print_before", "print_after")
  /\ todo = <<>> /\ at = "ret"
  /\ int_flag' = TRUE
  /\ todo' = TextAfter
  /\ UNCHANGED <<gates, handlers, pic, masks, vector, in, panicked>>

\* The loop around hlt: every interrupt wakes it, and it halts again.
Idle ==
  /\ Goes("print_after", "hlt")
  /\ todo = <<>> /\ at = "ret"
  /\ UNCHANGED <<intVars, todo>>

\* kvprintf calls putc for the next character.
PutcCalled ==
  /\ main \in {"print_before", "print_after"}
  /\ todo # <<>>
  /\ LoadLine(Head(todo))
  /\ todo' = Tail(todo)
  /\ UNCHANGED typed

PutcContinues ==
  /\ PutcStep
  /\ typed' = IF PutcReturns THEN Append(typed, reg.c) ELSE typed
  /\ UNCHANGED todo

KernelStep ==
  /\ KernelRuns
  /\ \/ /\ InitPic
        /\ UNCHANGED <<consoleVars, typed>>
     \/ /\ InitIdt \/ keyboard_init \/ Sti \/ Idle
        /\ UNCHANGED <<consoleVars, typed, early>>
     \/ /\ PutcCalled \/ PutcContinues
        /\ UNCHANGED <<intVars, main, early>>
  /\ UNCHANGED <<keyboardVars, sent, raced>>
-----------------------------------------------------------------------------
(* The handlers. *)

HandlerGoes(to) ==
  /\ in' = to
  /\ UNCHANGED <<int_flag, gates, handlers, pic, masks, vector, panicked>>

\* keyboard_callback, up to its kprintf.
ReadScancode ==
  /\ in = "keyboard_callback"
  /\ ReadPort
  /\ HandlerGoes(IF Echoes(obf) THEN "kprintf" ELSE "eoi")
  /\ UNCHANGED <<screenVars, typed, raced>>

Prints(c) ==
  /\ PutcAtOnce(c)
  /\ typed' = Append(typed, c)
  /\ raced' = (raced \/ at # "ret")

Echo ==
  /\ in = "kprintf"
  /\ Prints(CharOf(scancode))
  /\ HandlerGoes("eoi")
  /\ UNCHANGED keyboardVars

\* panic() prints its messages, of which one character is enough here, and
\* stops the machine.
panic ==
  /\ in = "panic"
  /\ Prints("!")
  /\ HandlerGoes("halt")
  /\ UNCHANGED keyboardVars

isr_handler == DispatchTimer \/ DispatchKeyboard \/ DispatchPanics \/ EndOfInterrupt \/ Iretq

HandlerStep ==
  /\ \/ isr_handler /\ UNCHANGED <<screenVars, keyboardVars, typed, raced>>
     \/ ReadScancode \/ Echo \/ panic
  /\ UNCHANGED <<at, reg, main, todo, sent, early>>

TakeInterrupt(l) ==
  /\ KernelRuns
  /\ Interrupt(l)
  /\ UNCHANGED <<consoleVars, keyboardVars, main, todo, sent, typed, raced, early>>
-----------------------------------------------------------------------------
(* The devices. *)

Remapped == main \notin {"idt_init", "save_masks", "remap"}

KeySends(s) ==
  /\ sent < MaxKeys
  /\ Press(s)
  /\ sent' = sent + 1
  /\ UNCHANGED <<consoleVars, intVars, main, todo, typed, raced, early>>

KeyArrives ==
  /\ FillBuffer
  /\ Raise(1)
  /\ UNCHANGED <<consoleVars, int_flag, gates, handlers, masks, vector, in, panicked>>
  /\ UNCHANGED <<main, todo, sent, typed, raced, early>>

\* The timer and the devices the kernel does not know.  A line is not raised
\* again while its own handler runs: a tick takes far longer than a handler.
DeviceRaises(l) ==
  /\ l \notin pic.irr
  /\ vector # VectorOf(l)
  /\ Raise(l)
  /\ UNCHANGED <<consoleVars, int_flag, gates, handlers, masks, vector, in, panicked>>
  /\ UNCHANGED <<keyboardVars, main, todo, sent, typed, raced, early>>

Next ==
  \/ KernelStep
  \/ HandlerStep
  \/ \E l \in Lines : TakeInterrupt(l)
  \/ \E s \in Scancodes : KeySends(s)
  \/ KeyArrives
  \/ \E l \in Lines \ {1} : DeviceRaises(l)

\* The processor executes what it is in the middle of.  Neither the kernel nor
\* a line that asks again and again is shut out for ever by the others.
Fairness ==
  /\ WF_vars(HandlerStep)
  /\ SF_vars(KernelStep)
  /\ \A l \in Lines : SF_vars(TakeInterrupt(l))
  /\ WF_vars(KeyArrives)

Spec == Init /\ [][Next]_vars /\ Fairness
-----------------------------------------------------------------------------
(* Properties. *)

Places == {"main", "isr_handler", "keyboard_callback", "kprintf", "eoi", "iretq",
           "panic", "halt"}
PutcPlaces == {"ret", "load_x", "putc_at", "store_x", "store_y", "copy", "blank"}
Steps == {"idt_init", "save_masks", "remap", "restore_masks", "keyboard_init",
          "print_before", "print_after", "hlt"}
PicState == [master : Nat, slave : Nat, imr : SUBSET (0 .. 15),
             irr : SUBSET (0 .. 15), isr : SUBSET (0 .. 15)]

\* Every variable has its type.  The cursor's is what the arithmetic of putc
\* leaves behind (console.c:54-75).
TypeOK ==
  /\ cursor_x \in 0 .. VGA_WIDTH - 1 /\ cursor_y \in 0 .. VGA_HEIGHT
  /\ DOMAIN vga = Window
  /\ at \in PutcPlaces
  /\ DOMAIN reg = {"c", "x", "y", "i"} /\ reg.x \in Nat /\ reg.y \in Nat /\ reg.i \in Nat
  /\ int_flag \in BOOLEAN
  /\ gates \subseteq 0 .. 255 /\ handlers \subseteq 0 .. 255
  /\ pic \in PicState
  /\ masks \subseteq 0 .. 15
  /\ vector \in 0 .. 255 \cup {None}
  /\ in \in Places
  /\ panicked \in 0 .. 255 \cup {None}
  /\ obf \in Scancodes \cup {Empty} /\ scancode \in Scancodes \cup {Empty}
  /\ keys \in Seq(Scancodes)
  /\ main \in Steps
  /\ sent \in 0 .. MaxKeys
  /\ raced \in BOOLEAN /\ early \in BOOLEAN

\* putc (console.c:54) keeps the cursor on the screen for whoever prints next,
\* although the kernel and the keyboard handler move it under each other's
\* hands; only a kernel that is scrolling has it one line below, and whoever
\* interrupts it then still writes into video memory.
CursorOnScreen ==
  /\ at \notin {"copy", "blank"} => cursor_y < VGA_HEIGHT
  /\ at = "putc_at" => Cell(reg.x, reg.y) \in Screen
  /\ at = "copy" => reg.i >= VGA_WIDTH
  /\ in \in {"kprintf", "panic"} => Cell(cursor_x, cursor_y) \in Window

\* The line and the byte (keyboard.c:17, isr_c.c:57): once the controllers are
\* programmed, a byte waits in the keyboard's buffer exactly as long as its
\* interrupt is requested or its handler has not read it.  A handler that ran
\* without a byte, or left one, would break this, and so would a lost request.
\* Only a byte that is there before the controllers are (kernel.c:63) has lost
\* its request to ICW1: keyboard_init (keyboard.c:33) does not look for it.
LineMeansByte ==
  Remapped /\ ~early =>
    (obf # Empty <=> \/ 1 \in pic.irr
                     \/ vector = 33 /\ in \in {"isr_handler", "keyboard_callback"})

\* The end of interrupt (isr_c.c:57-59) is sent once for every interrupt that is
\* taken, and to the right controller: the command names no line, so what it
\* clears must be what the handler runs for; nothing stays in service behind
\* the kernel's back, where it would block its own and all lesser lines.
InServiceIsHandled ==
  /\ in \in {"main", "iretq"} => pic.isr = {}
  /\ in \in {"keyboard_callback", "kprintf", "eoi"} => pic.isr = {vector - 32}

\* Timer and keyboard never stop the kernel: no interrupt comes before its
\* gate and handler are there or is taken for an exception of the processor
\* (kernel.c:26-32 before 66).  Only a line does that the firmware left open
\* (pic.c:49 restores its masks) and that has no gate, and it is reported as
\* a double fault: the fallback of isr_c.c:63 is never reached.
OnlyStrayLinesPanic ==
  panicked # None =>
    /\ panicked = DoubleFault
    /\ \E l \in pic.isr \ {0, 1, 2} : l \notin masks

Reference == INSTANCE Terminal WITH Width <- VGA_WIDTH, Height <- VGA_HEIGHT

\* When nobody is inside putc, the screen shows the end of all that was
\* printed, by kernel and handlers, laid out as on paper, and the cursor is
\* where the text ends (console.c:36-75): unless a handler has printed while
\* the kernel was in putc, which is the only thing that can spoil it.
ScreenShowsTail ==
  at = "ret" /\ ~raced =>
    LET p == Reference!Paper(typed)
    IN  /\ \A r \in 0 .. VGA_HEIGHT - 1, x \in 0 .. VGA_WIDTH - 1 :
             vga[Cell(x, r)] = Reference!Visible(p, r)[x]
        /\ cursor_x = p.x
        /\ cursor_y = Reference!CursorLine(p)

Keys == INSTANCE KeyStream WITH
          Bytes <- Scancodes,
          unread <- IF obf = Empty THEN keys ELSE <<obf>> \o keys,
          last <- scancode

\* The bytes of the keyboard are read once each and in order.
ImplementsKeyStream == Keys!Spec

\* Every byte that the keyboard sends is read once the kernel has said
\* "Keyboard ready!" (kernel.c:67), if its line is not masked, the kernel has
\* not panicked and no byte came too early.
KeysServed ==
  /\ main \in {"print_after", "hlt"} /\ 1 \notin pic.imr /\ ~early
  /\ obf # Empty
  ~> obf = Empty \/ panicked # None

\* The kernel gets through its messages and idles, however often it is
\* interrupted (kernel.c:61-73), unless it panics.
KernelIdles == <>(main = "hlt" \/ panicked # None)
=============================================================================
