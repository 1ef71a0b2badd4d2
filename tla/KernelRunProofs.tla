-------------------------- MODULE KernelRunProofs --------------------------
(***************************************************************************)
(* Console, interrupts and keyboard are right for every size of screen,    *)
(* every text, every set of lines and masks and any number of keys.        *)
(***************************************************************************)
EXTENDS KernelRun, Numbers, SequenceTheorems

-----------------------------------------------------------------------------
(* The console. *)

\* What a step of the kernel or of a handler does to the console.
ConsoleStep ==
  \/ \E c : LoadLine(c)
  \/ PutcStep
  \/ (\E c : PutcAtOnce(c)) /\ UNCHANGED <<at, reg>>
  \/ UNCHANGED consoleVars

LEMMA ConsoleSteps == [Next]_vars => ConsoleStep
<1> SUFFICES ASSUME [Next]_vars PROVE ConsoleStep
  OBVIOUS
<1>1. CASE KernelStep
  BY <1>1 DEF KernelStep, PutcCalled, PutcContinues, ConsoleStep
<1>2. CASE HandlerStep
  <2>1. CASE isr_handler /\ UNCHANGED <<screenVars, keyboardVars, typed, raced>>
    BY <1>2, <2>1 DEF HandlerStep, ConsoleStep, consoleVars
  <2>2. CASE ReadScancode
    BY <1>2, <2>2 DEF HandlerStep, ReadScancode, ConsoleStep, consoleVars
  <2>3. CASE Echo
    BY <1>2, <2>3 DEF HandlerStep, Echo, Prints, ConsoleStep
  <2>4. CASE panic
    BY <1>2, <2>4 DEF HandlerStep, panic, Prints, ConsoleStep
  <2>5. QED
    BY <1>2, <2>1, <2>2, <2>3, <2>4 DEF HandlerStep
<1>3. CASE \E l \in Lines : TakeInterrupt(l)
  BY <1>3 DEF TakeInterrupt, ConsoleStep
<1>4. CASE \E s \in Scancodes : KeySends(s)
  BY <1>4 DEF KeySends, ConsoleStep
<1>5. CASE KeyArrives
  BY <1>5 DEF KeyArrives, ConsoleStep
<1>6. CASE \E l \in Lines \ {1} : DeviceRaises(l)
  BY <1>6 DEF DeviceRaises, ConsoleStep
<1>7. CASE UNCHANGED vars
  BY <1>7 DEF vars, ConsoleStep
<1>8. QED
  BY <1>1, <1>2, <1>3, <1>4, <1>5, <1>6, <1>7 DEF Next

Columns == 0 .. VGA_WIDTH - 1
Rows    == 0 .. VGA_HEIGHT - 1

\* A kernel in the middle of putc holds a line of its own, which is on the
\* screen until it is stored.  That line, and not the cursor, decides whether
\* the kernel scrolls.
ConsoleInv ==
  /\ cursor_x \in Columns
  /\ cursor_y \in 0 .. VGA_HEIGHT
  /\ at \notin {"copy", "blank"} => cursor_y \in Rows
  /\ vga = [i \in Window |-> vga[i]]
  /\ at \in PutcPlaces
  /\ reg = [c |-> reg.c, x |-> reg.x, y |-> reg.y, i |-> reg.i]
  /\ reg.x \in Columns
  /\ reg.y \in 0 .. VGA_HEIGHT
  /\ at \in {"load_x", "putc_at", "store_x"} => reg.y \in Rows
  /\ reg.i \in Nat
  /\ at \in {"store_y", "copy"} => reg.i >= VGA_WIDTH

LEMMA CursorArithmetic ==
  ASSUME NEW x \in Columns, NEW c
  PROVE  /\ NewColumn(c, x) \in Columns
         /\ \A y \in Rows : NewLine(c, x, y) \in 0 .. VGA_HEIGHT
<1>1. TabStop \in Nat \ {0} /\ VGA_WIDTH \in Nat \ {0} /\ VGA_HEIGHT \in Nat \ {0}
  BY ConsoleAssumption
<1>2. (x + TabStop) \div TabStop \in Nat
  BY <1>1 DEF Columns
<1>3. NextTabStop(x) \in Nat
  <2>1. \A a, b \in Nat : a * b \in Nat
    OBVIOUS
  <2>2. QED
    BY <1>1, <1>2, <2>1 DEF NextTabStop
<1>4. ColumnAfter(c, x) \in Nat
  BY <1>3, <1>1 DEF ColumnAfter, Columns
<1>5. NewColumn(c, x) \in Columns
  BY <1>1, <1>4 DEF NewColumn, BreaksLine, Columns
<1>6. \A y \in Rows : NewLine(c, x, y) \in 0 .. VGA_HEIGHT
  BY <1>1 DEF NewLine, Rows
<1>7. QED
  BY <1>5, <1>6

LEMMA ConsoleInvInit == Init => ConsoleInv
BY ConsoleAssumption DEF Init, ConsoleInit, ConsoleInv, Columns, Rows, PutcPlaces

LEMMA ConsoleInvStep == ConsoleInv /\ ConsoleStep => ConsoleInv'
<1> SUFFICES ASSUME ConsoleInv, ConsoleStep PROVE ConsoleInv'
  OBVIOUS
<1> USE DEF ConsoleInv, PutcPlaces, screenVars
<1>0. VGA_WIDTH \in Nat \ {0} /\ VGA_HEIGHT \in Nat \ {0}
  BY ConsoleAssumption
<1>1. CASE \E c : LoadLine(c)
  BY <1>0, <1>1 DEF LoadLine, Rows
<1>2. CASE LoadColumn
  BY <1>0, <1>2 DEF LoadColumn
<1>3. CASE PutcAt
  BY <1>0, <1>3 DEF PutcAt
<1>4. CASE StoreColumn
  <2>1. /\ NewColumn(reg.c, reg.x) \in Columns
        /\ NewLine(reg.c, reg.x, reg.y) \in 0 .. VGA_HEIGHT
    BY <1>4, CursorArithmetic DEF StoreColumn
  <2>2. ~BreaksLine(reg.c, reg.x) => AfterStores(reg.y) = "ret"
    BY <1>0, <1>4 DEF StoreColumn, AfterStores, Rows
  <2>3. reg' = [c |-> reg.c, x |-> reg.x,
                y |-> NewLine(reg.c, reg.x, reg.y), i |-> VGA_WIDTH]
    BY <1>4 DEF StoreColumn
  <2>4. cursor_x' = NewColumn(reg.c, reg.x) /\ UNCHANGED <<cursor_y, vga>> /\ cursor_y \in Rows
    BY <1>4 DEF StoreColumn
  <2>5. at' \in {"store_y", "ret"}
    BY <1>4, <2>2 DEF StoreColumn
  <2>6. QED
    BY <1>0, <2>1, <2>3, <2>4, <2>5
<1>5. CASE StoreLine
  BY <1>0, <1>5 DEF StoreLine, AfterStores, Rows
<1>6. CASE scroll
  BY <1>0, <1>6 DEF scroll, CopyCell, CopyDone, BlankCell, ScrollDone, Cell, Rows, Screen
<1>7. CASE (\E c : PutcAtOnce(c)) /\ UNCHANGED <<at, reg>>
  <2>1. PICK c : PutcAtOnce(c)
    BY <1>7
  <2> DEFINE y == NewLine(c, cursor_x, cursor_y)
             v == Written(vga, c, cursor_x, cursor_y)
  <2>2. y \in 0 .. VGA_HEIGHT + 1
    BY <1>0 DEF NewLine
  <2>3. v = [i \in Window |-> v[i]] /\ Scrolled(v) = [i \in Window |-> Scrolled(v)[i]]
    BY DEF Written, Scrolled
  <2>4. /\ cursor_x' = NewColumn(c, cursor_x)
        /\ IF y >= VGA_HEIGHT
             THEN cursor_y' = VGA_HEIGHT - 1 /\ vga' = Scrolled(v)
             ELSE cursor_y' = y /\ vga' = v
    BY <2>1 DEF PutcAtOnce
  <2>5. cursor_x' \in Columns
    BY <2>4, CursorArithmetic
  <2> HIDE DEF y, v
  <2>6. cursor_y' \in Rows /\ vga' = [i \in Window |-> vga'[i]]
    BY <1>0, <2>2, <2>3, <2>4 DEF Rows
  <2>7. QED
    BY <1>0, <1>7, <2>5, <2>6 DEF Rows
<1>8. CASE UNCHANGED consoleVars
  BY <1>8 DEF consoleVars
<1>9. QED
  BY <1>1, <1>2, <1>3, <1>4, <1>5, <1>6, <1>7, <1>8 DEF ConsoleStep, PutcStep

LEMMA CellOnScreen ==
  ASSUME NEW x \in Columns, NEW h \in Nat \ {0}, NEW y \in 0 .. h - 1
  PROVE  Cell(x, y) \in 0 .. VGA_WIDTH * h - 1
<1>1. VGA_WIDTH \in Nat \ {0}
  BY ConsoleAssumption
<1>2. \A a, b, w \in Nat : a <= b => a * w <= b * w /\ a * w \in Nat
  OBVIOUS
<1>3. y * VGA_WIDTH <= (h - 1) * VGA_WIDTH /\ y * VGA_WIDTH \in Nat
  BY <1>1, <1>2
<1>4. (h - 1) * VGA_WIDTH = VGA_WIDTH * h - VGA_WIDTH
  BY <1>1
<1>5. QED
  BY <1>1, <1>3, <1>4 DEF Cell, Columns

LEMMA CursorFollows == ConsoleInv => CursorOnScreen
<1> SUFFICES ASSUME ConsoleInv PROVE CursorOnScreen
  OBVIOUS
<1> USE ConsoleAssumption DEF ConsoleInv
<1>1. at = "putc_at" => Cell(reg.x, reg.y) \in Screen
  BY CellOnScreen DEF Rows, Screen
<1>2. Cell(cursor_x, cursor_y) \in Window
  <2>1. VGA_HEIGHT + 1 \in Nat \ {0} /\ cursor_y \in 0 .. (VGA_HEIGHT + 1) - 1
    OBVIOUS
  <2>2. QED
    BY <2>1, CellOnScreen DEF Window
<1>3. QED
  BY <1>1, <1>2 DEF CursorOnScreen, Rows

\* putc (console.c:54-75) keeps the cursor on the screen, and what an interrupted
\* putc or a scroll (console.c:36-52) writes stays in video memory, for screens
\* and texts of every size and an interrupt at every instruction.
THEOREM CursorCorrect == Spec => []CursorOnScreen
<1>1. Init => ConsoleInv
  BY ConsoleInvInit
<1>2. ConsoleInv /\ [Next]_vars => ConsoleInv'
  BY ConsoleSteps, ConsoleInvStep
<1>3. ConsoleInv => CursorOnScreen
  BY CursorFollows
<1>4. QED
  BY <1>1, <1>2, <1>3, PTL DEF Spec

-----------------------------------------------------------------------------
(* The interrupts. *)

Known == CoreExceptions \cup {32, 33}

\* A line is in service that the firmware left open and the kernel does not
\* know.
StrayInService == \E l \in pic.isr \ {0, 1, 2} : l \notin masks

\* Interrupts are on only while the kernel prints its last text or idles, when
\* gates, handlers and controllers are as they will always be.  From there on
\* the place of the handler determines what is in service.
ControlInv ==
  /\ main \in Steps /\ in \in Places
  /\ int_flag \in BOOLEAN /\ early \in BOOLEAN
  /\ masks \subseteq 0 .. 15
  /\ pic \in PicState
  /\ gates = IF main = "idt_init" THEN {} ELSE Known
  /\ handlers = IF main \in {"print_before", "print_after", "hlt"} THEN Known
                ELSE CoreExceptions \cup {32}
  /\ Remapped => pic.master = 32 /\ pic.slave = 40
  /\ main \in {"keyboard_init", "print_before", "print_after", "hlt"} => pic.imr = masks
  /\ int_flag \/ in # "main" => main \in {"print_after", "hlt"}
  /\ int_flag => in = "main"
  /\ vector \in {None, DoubleFault, 32, 33}
  /\ in = "main" => vector = None
  /\ in \in {"main", "iretq"} => pic.isr = {}
  /\ in \in {"keyboard_callback", "kprintf"} => vector = 33
  /\ in \in {"keyboard_callback", "kprintf", "eoi"} =>
       vector \in {32, 33} /\ pic.isr = {vector - 32}
  /\ in = "isr_handler" =>
       \/ vector \in {32, 33} /\ pic.isr = {vector - 32}
       \/ vector = DoubleFault /\ StrayInService
  /\ in \in {"panic", "halt"} => panicked = DoubleFault /\ StrayInService
  /\ in \notin {"panic", "halt"} => panicked = None

LEMMA ControlInvInit == Init => ControlInv
<1> SUFFICES ASSUME Init PROVE ControlInv
  OBVIOUS
<1>1. pic \in PicState /\ pic.isr = {}
  <2>1. PICK b \in BiosMasks :
          pic = [master |-> 8, slave |-> 112, imr |-> b, irr |-> {}, isr |-> {}]
    BY DEF Init, InterruptsInit
  <2>2. b \in SUBSET (0 .. 15) /\ {} \in SUBSET (0 .. 15)
    BY InterruptsAssumption
  <2>3. QED
    BY <2>1, <2>2 DEF PicState
<1>2. QED
  BY <1>1 DEF Init, InterruptsInit, ControlInv, Steps, Places, Remapped, None, DoubleFault

LEMMA ControlInvKernel == ControlInv /\ KernelStep => ControlInv'
<1> SUFFICES ASSUME ControlInv, KernelStep PROVE ControlInv'
  OBVIOUS
<1> USE DEF ControlInv, Steps, Places, Remapped, StrayInService, Goes, None
<1>0. in = "main" /\ panicked = None
  BY DEF KernelStep, KernelRuns
<1>1. CASE InitIdt /\ UNCHANGED early
  BY <1>0, <1>1 DEF InitIdt, idt_init, Known
<1>2. CASE InitPic
  <2>1. CASE Goes("save_masks", "remap") /\ SaveMasks
    BY <1>0, <1>2, <2>1 DEF InitPic, SaveMasks, PicState
  <2>2. CASE Goes("remap", "restore_masks") /\ Remap
    BY <1>0, <1>2, <2>2 DEF InitPic, Remap, PicState
  <2>3. CASE Goes("restore_masks", "keyboard_init") /\ RestoreMasks
    BY <1>0, <1>2, <2>3 DEF InitPic, RestoreMasks, PicState
  <2>4. QED
    BY <1>2, <2>1, <2>2, <2>3 DEF InitPic
<1>3. CASE keyboard_init /\ UNCHANGED early
  BY <1>0, <1>3 DEF keyboard_init, isr_register_handler, Known
<1>4. CASE Sti /\ UNCHANGED early
  BY <1>0, <1>4 DEF Sti
<1>5. CASE Idle /\ UNCHANGED early
  BY <1>0, <1>5 DEF Idle, intVars
<1>6. CASE UNCHANGED <<intVars, main, early>>
  BY <1>6 DEF intVars
<1>7. QED
  BY <1>1, <1>2, <1>3, <1>4, <1>5, <1>6 DEF KernelStep

LEMMA ControlInvHandler == ControlInv /\ HandlerStep => ControlInv'
<1> SUFFICES ASSUME ControlInv, HandlerStep PROVE ControlInv'
  OBVIOUS
<1> USE DEF ControlInv, Steps, Places, Remapped, StrayInService, None, DoubleFault
<1>0. UNCHANGED <<main, early>>
  BY DEF HandlerStep
<1>1. CASE DispatchTimer
  BY <1>0, <1>1 DEF DispatchTimer
<1>2. CASE DispatchKeyboard
  BY <1>0, <1>2 DEF DispatchKeyboard
<1>3. CASE DispatchPanics
  <2>1. vector = DoubleFault
    BY <1>3 DEF DispatchPanics, Known, CoreExceptions
  <2>2. StrayInService
    BY <1>3, <2>1 DEF DispatchPanics
  <2>3. StrayInService'
    BY <1>3, <2>2 DEF DispatchPanics
  <2> HIDE DEF StrayInService
  <2>4. QED
    BY <1>0, <1>3, <2>1, <2>3 DEF DispatchPanics
<1>4. CASE EndOfInterrupt
  <2>1. pic.isr = {vector - 32} /\ vector \in {32, 33}
    BY <1>4 DEF EndOfInterrupt
  <2>2. Topmost(pic.isr \cap Master) = pic.isr
    <3>1. vector - 32 \in Master
      BY <2>1 DEF Master
    <3>2. pic.isr \cap Master = {vector - 32}
      BY <2>1, <3>1
    <3>3. QED
      BY <2>1, <3>1, <3>2 DEF Topmost, Master
  <2>3. pic' = [pic EXCEPT !.isr = {}]
    BY <1>4, <2>1, <2>2 DEF EndOfInterrupt, pic_send_eoi
  <2>4. QED
    BY <1>0, <1>4, <2>3 DEF EndOfInterrupt, PicState
<1>5. CASE Iretq
  BY <1>0, <1>5 DEF Iretq
<1>6. CASE ReadScancode
  BY <1>0, <1>6 DEF ReadScancode, HandlerGoes
<1>7. CASE Echo
  BY <1>0, <1>7 DEF Echo, HandlerGoes
<1>8. CASE panic
  BY <1>0, <1>8 DEF panic, HandlerGoes
<1>9. QED
  BY <1>1, <1>2, <1>3, <1>4, <1>5, <1>6, <1>7, <1>8 DEF HandlerStep, isr_handler

LEMMA ControlInvInterrupt ==
  ASSUME ControlInv, NEW l \in Lines, TakeInterrupt(l)
  PROVE  ControlInv'
<1> USE DEF ControlInv
<1>0. l \in (0 .. 15) \ {2} /\ l \notin masks /\ pic.isr = {} /\ Remapped /\ gates = Known
  BY InterruptsAssumption DEF TakeInterrupt, KernelRuns, Interrupt, Chosen, Offered, Remapped
<1>1. pic' = Acknowledged(l) /\ vector' = Delivered(VectorOf(l))
  BY DEF TakeInterrupt, Interrupt
<1>2. pic' \in PicState
  <2>1. pic.irr \ {l} \in SUBSET (0 .. 15) /\ {l, 2} \in SUBSET (0 .. 15)
    BY <1>0 DEF PicState
  <2>2. pic.isr \cup (IF l \in Slave THEN {l, 2} ELSE {l}) \in SUBSET (0 .. 15)
    BY <1>0, <2>1
  <2>3. QED
    BY <1>1, <2>1, <2>2 DEF Acknowledged, PicState
<1>3. /\ pic'.master = pic.master /\ pic'.slave = pic.slave /\ pic'.imr = pic.imr
      /\ pic'.isr = IF l \in Slave THEN {l, 2} ELSE {l}
  BY <1>0, <1>1 DEF Acknowledged, PicState
<1>4. VectorOf(l) = IF l \in Master THEN 32 + l ELSE 40 + l - 8
  BY <1>0 DEF VectorOf
<1>5. \/ vector' \in {32, 33} /\ pic'.isr = {vector' - 32}
      \/ vector' = DoubleFault /\ StrayInService'
  <2>1. CASE l \in {0, 1}
    BY <1>0, <1>1, <1>3, <1>4, <2>1 DEF Delivered, Known, Master, Slave
  <2>2. CASE l \notin {0, 1}
    <3>1. VectorOf(l) \notin Known
      BY <1>0, <1>4, <2>2 DEF Known, CoreExceptions, Master
    <3>2. l \in pic'.isr \ {0, 1, 2} /\ masks' = masks
      BY <1>0, <1>3, <2>2 DEF TakeInterrupt, Interrupt
    <3>3. QED
      BY <1>0, <1>1, <3>1, <3>2 DEF Delivered, StrayInService
  <2>3. QED
    BY <2>1, <2>2
<1>6. /\ in' = "isr_handler" /\ int_flag' = FALSE
      /\ UNCHANGED <<gates, handlers, masks, panicked, main, early>>
  BY DEF TakeInterrupt, Interrupt
<1>7. main \in {"print_after", "hlt"} /\ panicked = None
  BY DEF TakeInterrupt, KernelRuns, Interrupt
<1>8. QED
  BY <1>2, <1>3, <1>5, <1>6, <1>7 DEF Places, Steps, Remapped, DoubleFault

LEMMA ControlInvDevices ==
  ControlInv /\ (KeyArrives \/ \E l \in Lines \ {1} : DeviceRaises(l)) => ControlInv'
<1> SUFFICES ASSUME ControlInv, NEW l \in Lines \cup {1}, Raise(l),
                    UNCHANGED <<int_flag, gates, handlers, masks, vector, in, panicked>>,
                    UNCHANGED <<main, early>>
             PROVE  ControlInv'
  BY DEF KeyArrives, DeviceRaises
<1> USE DEF ControlInv
<1>1. pic.irr \cup {l} \in SUBSET (0 .. 15)
  BY InterruptsAssumption DEF PicState
<1>2. pic' \in PicState /\ \A f \in {"master", "slave", "imr", "isr"} : pic'[f] = pic[f]
  BY <1>1 DEF Raise, PicState
<1>3. StrayInService => StrayInService'
  BY <1>2 DEF StrayInService
<1>4. QED
  BY <1>2, <1>3 DEF Remapped

LEMMA ControlInvStep == ControlInv /\ [Next]_vars => ControlInv'
<1> SUFFICES ASSUME ControlInv, [Next]_vars PROVE ControlInv'
  OBVIOUS
<1>1. CASE UNCHANGED <<intVars, main, early>>
  BY <1>1 DEF ControlInv, intVars, Remapped, StrayInService
<1>2. CASE \E s \in Scancodes : KeySends(s)
  BY <1>1, <1>2 DEF KeySends
<1>3. CASE UNCHANGED vars
  BY <1>1, <1>3 DEF vars
<1>4. QED
  BY <1>2, <1>3, ControlInvKernel, ControlInvHandler, ControlInvInterrupt, ControlInvDevices DEF Next

\* What isr_handler acknowledges (isr_c.c:57-59, pic.c:14-20) is what it handles,
\* and nothing stays in service, for all sets of lines and masks.
THEOREM InServiceCorrect == Spec => []InServiceIsHandled
<1>1. ControlInv => InServiceIsHandled
  BY DEF ControlInv, InServiceIsHandled
<1>2. QED
  BY <1>1, ControlInvInit, ControlInvStep, PTL DEF Spec

\* Timer and keyboard stop the kernel on no machine: only a line that the
\* firmware left open (pic.c:49) and that has no gate (kernel.c:26-32) does, as a
\* double fault.
THEOREM PanicsCorrect == Spec => []OnlyStrayLinesPanic
<1>1. ControlInv => OnlyStrayLinesPanic
  BY DEF ControlInv, OnlyStrayLinesPanic, StrayInService
<1>2. QED
  BY <1>1, ControlInvInit, ControlInvStep, PTL DEF Spec
-----------------------------------------------------------------------------
(* The keyboard. *)

KeyInv ==
  /\ obf \in Scancodes \cup {Empty}
  /\ keys \in Seq(Scancodes)
  /\ scancode \in Scancodes \cup {Empty}
  /\ sent \in 0 .. MaxKeys
  /\ raced \in BOOLEAN

Reading == vector = 33 /\ in \in {"isr_handler", "keyboard_callback"}

\* LineMeansByte in both directions, and the part of it that is true of a byte
\* that came too early as well: nobody reads what is not there.
LineInv ==
  /\ 1 \in pic.irr \/ Reading => obf # Empty
  /\ Reading => 1 \notin pic.irr
  /\ Remapped /\ ~early /\ obf # Empty => 1 \in pic.irr \/ Reading

IInv == ControlInv /\ KeyInv /\ LineInv

LEMMA EmptyIsNoByte == Empty \notin Scancodes
BY KeyboardAssumption DEF Empty

LEMMA IInvInit == Init => IInv
<1> SUFFICES ASSUME Init PROVE IInv
  OBVIOUS
<1>1. KeyInv
  <2>1. sent \in 0 .. MaxKeys /\ keys \in Seq(Scancodes)
    BY KernelRunAssumption, EmptySeq DEF Init
  <2>2. raced \in BOOLEAN
    BY DEF Init
  <2>3. QED
    BY <2>1, <2>2 DEF Init, KeyInv
<1>2. LineInv
  BY DEF Init, InterruptsInit, LineInv, Reading, None
<1>3. QED
  BY <1>1, <1>2, ControlInvInit DEF IInv

\* The kernel's own steps: only ICW1 matters to the keyboard.
LEMMA IInvKernel == IInv /\ KernelStep => KeyInv' /\ LineInv'
<1> SUFFICES ASSUME IInv, KernelStep PROVE KeyInv' /\ LineInv'
  OBVIOUS
<1> USE DEF IInv, Reading
<1>1. UNCHANGED <<obf, keys, scancode, sent, raced>>
  BY DEF KernelStep, keyboardVars
<1>2. KeyInv'
  BY <1>1 DEF KeyInv
<1>3. in = "main" /\ in' = "main"
  BY DEF KernelStep, KernelRuns, InitIdt, idt_init, InitPic, SaveMasks, Remap, RestoreMasks,
         keyboard_init, Sti, Idle, intVars
<1>4. CASE main = "remap" /\ InitPic
  <2>1. ~Reading'
    BY <1>3
  <2>2. pic'.irr = {} /\ early' = (obf # Empty)
    BY <1>4 DEF InitPic, Goes, Remap
  <2>3. QED
    BY <1>1, <1>2, <2>1, <2>2 DEF LineInv
<1>5. CASE pic'.irr = pic.irr /\ early' = early /\ (Remapped' => Remapped)
  BY <1>1, <1>2, <1>3, <1>5 DEF LineInv
<1>6. CASE InitPic /\ main # "remap"
  BY <1>5, <1>6 DEF InitPic, Goes, SaveMasks, RestoreMasks, Remapped, ControlInv, PicState
<1>7. CASE ~InitPic
  BY <1>5, <1>7 DEF KernelStep, InitIdt, idt_init, keyboard_init, Sti, Idle, intVars, Goes, Remapped
<1>8. QED
  BY <1>2, <1>4, <1>6, <1>7

LEMMA IInvHandler == IInv /\ HandlerStep => KeyInv' /\ LineInv'
<1> SUFFICES ASSUME IInv, HandlerStep PROVE KeyInv' /\ LineInv'
  OBVIOUS
<1> USE DEF IInv, Reading, KeyInv, LineInv, keyboardVars
<1>1. UNCHANGED <<main, early, sent>> /\ (Remapped' = Remapped)
  BY DEF HandlerStep, Remapped
<1>2. CASE ReadScancode
  <2>1. Reading
    BY <1>2 DEF ReadScancode, ControlInv
  <2>2. QED
    BY <1>1, <1>2, <2>1 DEF ReadScancode, ReadPort, HandlerGoes
<1>3. CASE Echo
  BY <1>1, <1>3 DEF Echo, HandlerGoes, Prints
<1>4. CASE panic
  BY <1>1, <1>4 DEF panic, HandlerGoes, Prints
<1>5. CASE isr_handler /\ UNCHANGED <<keyboardVars, raced>>
  <2>1. CASE DispatchTimer
    BY <1>1, <1>5, <2>1 DEF DispatchTimer
  <2>2. CASE DispatchKeyboard
    BY <1>1, <1>5, <2>2 DEF DispatchKeyboard
  <2>3. CASE DispatchPanics
    <3>1. vector # 33
      BY <2>3 DEF DispatchPanics, ControlInv, Known, CoreExceptions
    <3>2. QED
      BY <1>1, <1>5, <2>3, <3>1 DEF DispatchPanics
  <2>4. CASE EndOfInterrupt
    <3>1. pic'.irr = pic.irr
      BY <2>4 DEF EndOfInterrupt, pic_send_eoi, ControlInv, PicState
    <3>2. QED
      BY <1>1, <1>5, <2>4, <3>1 DEF EndOfInterrupt
  <2>5. CASE Iretq
    BY <1>1, <1>5, <2>5 DEF Iretq
  <2>6. QED
    BY <1>5, <2>1, <2>2, <2>3, <2>4, <2>5 DEF isr_handler
<1>6. QED
  BY <1>2, <1>3, <1>4, <1>5 DEF HandlerStep

LEMMA IInvInterrupt ==
  ASSUME IInv, NEW l \in Lines, TakeInterrupt(l)
  PROVE  KeyInv' /\ LineInv'
<1> USE DEF IInv, Reading
<1>1. UNCHANGED <<obf, keys, scancode, sent, raced, main, early>>
  BY DEF TakeInterrupt, keyboardVars
<1>2. in = "main" /\ in' = "isr_handler" /\ l \in pic.irr /\ pic'.irr = pic.irr \ {l}
  BY DEF TakeInterrupt, KernelRuns, Interrupt, Chosen, Offered, Acknowledged, ControlInv, PicState
<1>3. vector' = 33 <=> l = 1
  <2>1. l \in (0 .. 15) \ {2} /\ Remapped /\ gates = Known
    BY InterruptsAssumption DEF ControlInv, TakeInterrupt, Interrupt, Remapped
  <2>2. VectorOf(l) = IF l \in Master THEN 32 + l ELSE 40 + l - 8
    BY <2>1 DEF ControlInv, VectorOf
  <2>3. vector' = Delivered(VectorOf(l))
    BY DEF TakeInterrupt, Interrupt
  <2>4. QED
    BY <2>1, <2>2, <2>3 DEF Delivered, DoubleFault, Known, Master
<1>4. KeyInv'
  BY <1>1 DEF KeyInv
<1>5. LineInv'
  BY <1>1, <1>2, <1>3 DEF LineInv, Remapped
<1>6. QED
  BY <1>4, <1>5

LEMMA IInvDevices ==
  /\ IInv
  /\ \/ \E s \in Scancodes : KeySends(s)
     \/ KeyArrives
     \/ \E l \in Lines \ {1} : DeviceRaises(l)
  => KeyInv' /\ LineInv'
<1> USE DEF IInv, Reading, Remapped
<1>1. ASSUME IInv, NEW s \in Scancodes, KeySends(s) PROVE KeyInv' /\ LineInv'
  BY <1>1, KernelRunAssumption, AppendProperties DEF KeySends, Press, KeyInv, LineInv, intVars
<1>2. ASSUME IInv, KeyArrives PROVE KeyInv' /\ LineInv'
  <2>1. Head(keys) \in Scancodes /\ Tail(keys) \in Seq(Scancodes)
    BY <1>2, HeadTailProperties DEF KeyArrives, FillBuffer, KeyInv
  <2>2. /\ obf = Empty /\ obf' = Head(keys) /\ keys' = Tail(keys)
        /\ UNCHANGED <<scancode, sent, raced, vector, in, main, early>>
    BY <1>2 DEF KeyArrives, FillBuffer
  <2>3. pic'.irr = pic.irr \cup {1}
    BY <1>2 DEF KeyArrives, Raise, ControlInv, PicState
  <2>4. QED
    BY <1>2, <2>1, <2>2, <2>3, EmptyIsNoByte DEF KeyInv, LineInv
<1>3. ASSUME IInv, NEW l \in Lines \ {1}, DeviceRaises(l) PROVE KeyInv' /\ LineInv'
  <2>1. UNCHANGED <<obf, keys, scancode, sent, raced, vector, in, main, early>>
    BY <1>3 DEF DeviceRaises, keyboardVars
  <2>2. pic'.irr = pic.irr \cup {l}
    BY <1>3 DEF DeviceRaises, Raise, ControlInv, PicState
  <2>3. QED
    BY <1>3, <2>1, <2>2 DEF KeyInv, LineInv
<1>4. QED
  BY <1>1, <1>2, <1>3

LEMMA IInvStep == IInv /\ [Next]_vars => IInv'
<1> SUFFICES ASSUME IInv, [Next]_vars PROVE IInv'
  OBVIOUS
<1>1. ControlInv'
  BY ControlInvStep DEF IInv
<1>2. KeyInv' /\ LineInv'
  <2>1. CASE UNCHANGED vars
    BY <2>1 DEF vars, intVars, keyboardVars, IInv, KeyInv, LineInv, Reading, Remapped
  <2>2. QED
    BY <2>1, IInvKernel, IInvHandler, IInvInterrupt, IInvDevices DEF Next
<1>3. QED
  BY <1>1, <1>2 DEF IInv

\* A byte waits for keyboard_callback (keyboard.c:17) exactly as long as its
\* interrupt is requested or its handler is on the way, for all machines and any
\* number of keys.
THEOREM LineCorrect == Spec => []LineMeansByte
<1>1. IInv => LineMeansByte
  BY DEF IInv, LineInv, LineMeansByte, Reading
<1>2. QED
  BY <1>1, IInvInit, IInvStep, PTL DEF Spec

\* Every variable has its type, for all values of the constants: the cursor what
\* putc leaves in it (console.c:54-75), the controllers what pic.c programs.
THEOREM TypeCorrect == Spec => []TypeOK
<1>1. ConsoleInv /\ IInv => TypeOK
  <2> SUFFICES ASSUME ConsoleInv, IInv PROVE TypeOK
    OBVIOUS
  <2>1. /\ cursor_x \in 0 .. VGA_WIDTH - 1 /\ cursor_y \in 0 .. VGA_HEIGHT
        /\ DOMAIN vga = Window
        /\ at \in PutcPlaces
    BY DEF ConsoleInv, Columns
  <2>2. DOMAIN reg = {"c", "x", "y", "i"} /\ reg.x \in Nat /\ reg.y \in Nat /\ reg.i \in Nat
    BY ConsoleAssumption DEF ConsoleInv, Columns
  <2>3. gates \subseteq 0 .. 255 /\ handlers \subseteq 0 .. 255
    BY DEF IInv, ControlInv, Known, CoreExceptions
  <2>4. vector \in 0 .. 255 \cup {None} /\ panicked \in 0 .. 255 \cup {None}
    BY DEF IInv, ControlInv, DoubleFault
  <2>5. QED
    BY <2>1, <2>2, <2>3, <2>4 DEF IInv, ControlInv, KeyInv, TypeOK
<1>2. Init => ConsoleInv /\ IInv
  BY ConsoleInvInit, IInvInit
<1>3. ConsoleInv /\ IInv /\ [Next]_vars => ConsoleInv' /\ IInv'
  BY ConsoleSteps, ConsoleInvStep, IInvStep
<1>4. QED
  BY <1>1, <1>2, <1>3, PTL DEF Spec
-----------------------------------------------------------------------------
(* The refinement of KeyStream. *)

LEMMA FrontOfSequence ==
  ASSUME NEW S, NEW a \in S, NEW q \in Seq(S)
  PROVE  LET s == <<a>> \o q
         IN  /\ s # <<>> /\ Head(s) = a /\ Tail(s) = q
             /\ \A b \in S : <<a>> \o Append(q, b) = Append(s, b)
OBVIOUS

LEMMA HeadThenTail ==
  ASSUME NEW S, NEW q \in Seq(S), q # <<>>
  PROVE  <<Head(q)>> \o Tail(q) = q
OBVIOUS

Unread == IF obf = Empty THEN keys ELSE <<obf>> \o keys

LEMMA KeysStep ==
  ASSUME IInv, [Next]_vars
  PROVE  \/ Keys!Next
         \/ UNCHANGED <<Unread, scancode>>
<1> USE DEF Unread, IInv, KeyInv
<1>1. ASSUME NEW s \in Scancodes, KeySends(s)
      PROVE  Keys!Send(s)
  BY <1>1, FrontOfSequence DEF KeySends, Press, Keys!Send
<1>2. CASE KeyArrives
  <2>1. Head(keys) \in Scancodes
    BY <1>2, HeadTailProperties DEF KeyArrives, FillBuffer
  <2>2. QED
    BY <1>2, <2>1, EmptyIsNoByte, HeadThenTail DEF KeyArrives, FillBuffer
<1>3. CASE HandlerStep /\ ReadScancode
  <2>1. obf \in Scancodes
    BY <1>3 DEF ReadScancode, ControlInv, LineInv, Reading
  <2>2. Keys!Read
    BY <1>3, <2>1, EmptyIsNoByte, FrontOfSequence DEF ReadScancode, ReadPort, Keys!Read
  <2>3. QED
    BY <2>2 DEF Keys!Next
<1>4. CASE UNCHANGED keyboardVars
  BY <1>4 DEF keyboardVars
<1>5. CASE HandlerStep /\ ~ReadScancode
  BY <1>4, <1>5 DEF HandlerStep, Echo, panic
<1>6. QED
  BY <1>1, <1>2, <1>3, <1>4, <1>5 DEF Next, KernelStep, TakeInterrupt, DeviceRaises, vars, Keys!Next

\* Interrupts, controllers and keyboard_callback (keyboard.c:16-29) together are
\* a queue of bytes: each is read once and in the order of the keys.
THEOREM ReadsKeysInOrder == Spec => ImplementsKeyStream
<1>1. Init => Keys!Init
  BY EmptyIsNoByte DEF Init, Keys!Init
<1>2. IInv /\ [Next]_vars => [Keys!Next]_<<Unread, scancode>>
  BY KeysStep
<1>3. QED
  BY <1>1, <1>2, IInvInit, IInvStep, PTL DEF Spec, ImplementsKeyStream, Keys!Spec, Unread
-----------------------------------------------------------------------------
(* The screen: how far putc and scroll have come in putting a character    *)
(* on a screen that shows the paper p of Terminal.                         *)

PaperOf(text) == Reference!Paper(text)
Line(p, r)    == Reference!Visible(p, r)
LastRow(p)    == Reference!CursorLine(p)

\* The paper once the character is on it, before the cursor moves.
Inked(p, c) == IF Printable(c) THEN Reference!Marked(p, c) ELSE p

Shows(v, p) == \A r \in Rows, x \in Columns : v[Cell(x, r)] = Line(p, r)[x]

\* Scrolling has copied the cells before i from the line below.
Shifted(v, p, i) ==
  \A r \in Rows, x \in Columns :
    v[Cell(x, r)] = Line(p, IF Cell(x, r) < i - VGA_WIDTH THEN r + 1 ELSE r)[x]

\* Scrolling has copied all lines and blanked the cells of the last before i.
Blanked(v, p, i) ==
  \A r \in Rows, x \in Columns :
    /\ r + 1 \in Rows => v[Cell(x, r)] = Line(p, r + 1)[x]
    /\ r + 1 \notin Rows /\ Cell(x, r) < i => v[Cell(x, r)] = Blank

\* What the kernel, at some place in putc, has done to a screen that showed p.
OnScreen(p) ==
  LET m == Inked(p, reg.c)
  IN  /\ at \in {"ret", "load_x", "putc_at"} => Shows(vga, p)
      /\ at \in {"store_x", "store_y"} => Shows(vga, m)
      /\ at = "copy" => Shifted(vga, m, reg.i)
      /\ at = "blank" => Blanked(vga, m, reg.i) /\ reg.i >= Cell(0, VGA_HEIGHT - 1)

CursorAt(p) ==
  /\ at \in {"ret", "load_x", "putc_at", "store_x"} => cursor_x = p.x
  /\ at \in {"store_y", "copy", "blank"} => cursor_x = 0
  /\ at \in {"ret", "load_x", "putc_at", "store_x", "store_y"} => cursor_y = LastRow(p)

\* What the registers hold of it.
Registers(p) ==
  /\ at \in {"load_x", "putc_at", "store_x"} => reg.y = LastRow(p)
  /\ at = "load_x" => reg.c \notin {NL, CR}
  /\ at = "putc_at" => reg.x = p.x /\ Printable(reg.c)
  /\ at = "store_x" => reg.c \in {NL, CR} \/ reg.x = p.x
  /\ at \in {"store_y", "copy", "blank"} => reg.y = LastRow(p) + 1 /\ BreaksLine(reg.c, p.x)
  /\ at = "store_y" => reg.i = VGA_WIDTH
  /\ at \in {"copy", "blank"} => reg.y = VGA_HEIGHT

InPutc(p) == OnScreen(p) /\ CursorAt(p) /\ Registers(p)

ScreenInv == ~raced => InPutc(PaperOf(typed))

-----------------------------------------------------------------------------
(* What the paper of Terminal says, line by line.                          *)

\* The recursion by which FoldLeft computes.
Greatest(s) == Reference!Max(s)

PaperStep(t, f, s) ==
  IF s = {} THEN Reference!NewPaper
  ELSE Reference!Typed(f[s \ {Greatest(s)}], t[Greatest(s)])

Papers(t, S, f) == f = [s \in SUBSET S |-> PaperStep(t, f, s)]

LEMMA PaperIsChosen ==
  ASSUME NEW t
  PROVE  PaperOf(t) = (CHOOSE f : Papers(t, DOMAIN t, f))[DOMAIN t]
BY DEF PaperOf, Reference!Paper, Reference!FoldLeft, Reference!MapThenFoldSet, Papers, PaperStep,
       Greatest

LEMMA GreatestExists ==
  ASSUME NEW n \in Nat, NEW s \in SUBSET (1 .. n), s # {}
  PROVE  Greatest(s) \in s /\ \A y \in s : y <= Greatest(s)
<1> DEFINE I == 1 .. n
           HasOne(u) == \E x \in u : \A y \in u : x >= y
           Bad == {u \in SUBSET I : u # {} /\ ~HasOne(u)}
<1>1. HasOne(s)
  <2> SUFFICES ASSUME Bad # {} PROVE FALSE
    OBVIOUS
  <2>1. IsFiniteSet(I)
    BY FS_Interval
  <2>2. PICK u \in Bad : \A y \in Bad : y \subseteq u => y = u
    <3>1. Bad \in SUBSET SUBSET I
      OBVIOUS
    <3> HIDE DEF Bad, I
    <3> QED
      BY <2>1, <3>1, LeastSet
  <2>3. PICK x \in u : TRUE
    OBVIOUS
  <2>4. CASE u = {x}
    BY <2>2, <2>4
  <2>5. CASE u # {x}
    <3>1. u \ {x} \notin Bad
      BY <2>2, <2>3
    <3>2. PICK y \in u \ {x} : \A z \in u \ {x} : y >= z
      BY <2>2, <2>5, <3>1
    <3>3. IF x > y THEN \A z \in u : x >= z ELSE \A z \in u : y >= z
      BY <2>2, <3>2
    <3>4. QED
      BY <2>2, <3>2, <3>3
  <2>6. QED
    BY <2>4, <2>5
<1>2. QED
  BY <1>1 DEF Greatest, Reference!Max

Selectable(S) == IsFiniteSet(S) /\ \A s \in SUBSET S : s # {} => Greatest(s) \in s

\* Texts that agree on S have the same papers for its subsets.
LEMMA PapersAgree ==
  ASSUME NEW S, Selectable(S), NEW T, NEW f, NEW g, NEW t, NEW u,
         Papers(t, S, f), Papers(u, T, g), \A i \in S : t[i] = u[i],
         NEW s \in SUBSET S, s \subseteq T
  PROVE  f[s] = g[s]
<1> DEFINE Bad == {r \in SUBSET S : r \subseteq T /\ f[r] # g[r]}
<1>1. SUFFICES ASSUME Bad # {}
               PROVE  FALSE
  OBVIOUS
<1>2. IsFiniteSet(S)
  BY DEF Selectable
<1>3. Bad \in SUBSET SUBSET S
  OBVIOUS
<1> HIDE DEF Bad
<1>4. PICK r \in Bad : \A y \in Bad : y \subseteq r => y = r
  BY <1>2, <1>1, <1>3, LeastSet
<1>5. r \subseteq S /\ r \subseteq T /\ f[r] # g[r]
  BY <1>4 DEF Bad
<1>6. f[r] = PaperStep(t, f, r) /\ g[r] = PaperStep(u, g, r)
  BY <1>5 DEF Papers
<1>7. r # {}
  BY <1>5, <1>6 DEF PaperStep
<1>8. Greatest(r) \in r
  BY <1>5, <1>7 DEF Selectable
<1>9. f[r \ {Greatest(r)}] # g[r \ {Greatest(r)}]
  BY <1>5, <1>6, <1>7, <1>8 DEF PaperStep
<1>10. r \ {Greatest(r)} \in Bad
  BY <1>5, <1>9 DEF Bad
<1>11. QED
  BY <1>4, <1>8, <1>10

\* Every text has a paper.
LEMMA PapersExist ==
  ASSUME NEW t, NEW S, Selectable(S)
  PROVE  \E f : Papers(t, S, f)
<1> DEFINE Bad == {s \in SUBSET S : ~ \E f : Papers(t, s, f)}
<1>1. SUFFICES ASSUME Bad # {}
               PROVE  FALSE
  OBVIOUS
<1>2. IsFiniteSet(S)
  BY DEF Selectable
<1>3. Bad \in SUBSET SUBSET S
  OBVIOUS
<1> HIDE DEF Bad
<1>4. PICK T \in Bad : \A y \in Bad : y \subseteq T => y = T
  BY <1>2, <1>1, <1>3, LeastSet
<1>5. T \subseteq S
  BY <1>3
<1> DEFINE F(s) == CHOOSE f : Papers(t, s, f)
           V(s) == F(s)[s]
<1>6. \A s \in SUBSET T : s # T => Papers(t, s, F(s))
  BY <1>3, <1>4 DEF Bad
<1>7. ASSUME NEW s \in SUBSET T, s # T, s # {}
      PROVE  V(s) = Reference!Typed(V(s \ {Greatest(s)}), t[Greatest(s)])
  <2> DEFINE r == s \ {Greatest(s)}
  <2>1. Greatest(s) \in s
    BY <1>5, <1>7 DEF Selectable
  <2>2. r \in SUBSET T /\ r # T /\ r \subseteq s
    BY <2>1, <1>7
  <2>3. Papers(t, s, F(s)) /\ Papers(t, r, F(r))
    BY <1>6, <1>7, <2>2
  <2>4. F(s)[r] = F(r)[r]
    <3> DEFINE f == F(s)
               g == F(r)
    <3>1. Papers(t, s, f) /\ Papers(t, r, g) /\ Selectable(s)
      BY <1>5, <2>3, FS_Subset DEF Selectable
    <3> HIDE DEF f, g, r
    <3>2. f[r] = g[r]
      BY <2>2, <3>1, PapersAgree
    <3>3. QED
      BY <3>2 DEF f, g
  <2> HIDE DEF F
  <2>5. F(s)[s] = PaperStep(t, F(s), s)
    BY <2>3 DEF Papers
  <2>6. QED
    BY <1>7, <2>4, <2>5 DEF PaperStep
<1>8. ASSUME {} # T
      PROVE V({}) = Reference!NewPaper
  <2>1. Papers(t, {}, F({}))
    BY <1>6, <1>8
  <2> HIDE DEF F
  <2>2. F({})[{}] = PaperStep(t, F({}), {})
    BY <2>1 DEF Papers
  <2>3. QED
    BY <2>2 DEF PaperStep
<1> HIDE DEF V
<1> DEFINE W(s) == IF s = {} THEN Reference!NewPaper
                   ELSE Reference!Typed(V(s \ {Greatest(s)}), t[Greatest(s)])
           g == [s \in SUBSET T |-> W(s)]
<1>9. \A s \in SUBSET T : s # T => V(s) = W(s)
  BY <1>7, <1>8
<1> HIDE DEF W
<1>10. ASSUME NEW s \in SUBSET T
      PROVE  W(s) = PaperStep(t, g, s)
  <2>1. CASE s = {}
    BY <2>1 DEF W, PaperStep
  <2>2. CASE s # {}
    <3>1. Greatest(s) \in s
      BY <1>5, <2>2 DEF Selectable
    <3>2. g[s \ {Greatest(s)}] = V(s \ {Greatest(s)})
      BY <1>9, <1>10, <3>1
    <3> HIDE DEF g
    <3>3. QED
      BY <2>2, <3>2 DEF W, PaperStep
  <2>3. QED
    BY <2>1, <2>2
<1>11. Papers(t, T, g)
  BY <1>10 DEF Papers
<1>12. QED
  BY <1>4, <1>11 DEF Bad

LEMMA Selecting == ASSUME NEW n \in Nat PROVE Selectable(1 .. n)
<1>1. IsFiniteSet(1 .. n)
  BY FS_Interval
<1>2. QED
  BY <1>1, GreatestExists DEF Selectable

LEMMA PaperIs ==
  ASSUME NEW t, Selectable(DOMAIN t), NEW S, NEW f, NEW u, Papers(u, S, f),
         DOMAIN t \subseteq S, \A i \in DOMAIN t : t[i] = u[i]
  PROVE  PaperOf(t) = f[DOMAIN t]
<1> DEFINE D == DOMAIN t
           g == CHOOSE f1 : Papers(t, D, f1)
<1>1. Papers(t, D, g)
  BY PapersExist
<1>2. PaperOf(t) = g[D]
  BY PaperIsChosen
<1>3. Selectable(D) /\ \A i \in D : t[i] = u[i]
  OBVIOUS
<1>4. D \in SUBSET D /\ D \subseteq S
  OBVIOUS
<1> HIDE DEF g, D
<1>5. g[D] = f[D]
  BY <1>1, <1>3, <1>4, PapersAgree
<1>6. QED
  BY <1>2, <1>5 DEF D

LEMMA PaperStart == PaperOf(<<>>) = Reference!NewPaper
<1> DEFINE t == <<>>
<1>1. DOMAIN t = {} /\ DOMAIN t = 1 .. 0
  OBVIOUS
<1>2. Selectable(DOMAIN t)
  BY <1>1, Selecting
<1> HIDE DEF t
<1>3. PICK f : Papers(t, DOMAIN t, f)
  BY <1>2, PapersExist
<1>4. PaperOf(t) = f[DOMAIN t]
  BY <1>2, <1>3, PaperIs
<1>5. f[{}] = PaperStep(t, f, {})
  BY <1>1, <1>3 DEF Papers
<1>6. QED
  BY <1>1, <1>4, <1>5 DEF PaperStep, t

Text(t) == \E G : t \in Seq(G)

LEMMA TextGrows ==
  ASSUME NEW t, Text(t), NEW c
  PROVE  /\ Text(Append(t, c))
         /\ Len(t) \in Nat /\ DOMAIN t = 1 .. Len(t)
         /\ Len(Append(t, c)) = Len(t) + 1
         /\ DOMAIN Append(t, c) = 1 .. Len(t) + 1
         /\ \A i \in 1 .. Len(t) : Append(t, c)[i] = t[i]
         /\ Append(t, c)[Len(t) + 1] = c
<1>1. PICK G : t \in Seq(G)
  BY DEF Text
<1>2. t \in Seq(G \cup {c}) /\ c \in G \cup {c}
  BY <1>1
<1>3. Append(t, c) \in Seq(G \cup {c})
  BY <1>2
<1>4. Text(Append(t, c))
  BY <1>3 DEF Text
<1>5. QED
  BY <1>2, <1>4

LEMMA PaperGrows ==
  ASSUME NEW t, Text(t), NEW c
  PROVE  PaperOf(Append(t, c)) = Reference!Typed(PaperOf(t), c)
<1> DEFINE u == Append(t, c)
           n == Len(t) + 1
           U == DOMAIN u
           T == DOMAIN t
<1>1. n \in Nat /\ n - 1 \in Nat /\ T = 1 .. n - 1 /\ U = 1 .. n
  BY TextGrows
<1>2. u[n] = c /\ \A i \in T : t[i] = u[i]
  BY TextGrows
<1>3. n \in U /\ U \ {n} = T /\ T \subseteq U
  BY <1>1
<1>4. Greatest(U) = n
  <2>1. Greatest(1 .. n) \in 1 .. n /\ \A y \in 1 .. n : y <= Greatest(1 .. n)
    BY <1>1, <1>3, GreatestExists
  <2>2. QED
    BY <1>1, <1>3, <2>1
<1>5. Selectable(U) /\ Selectable(T)
  BY <1>1, Selecting
<1> HIDE DEF n, u
<1>6. PICK f : Papers(u, U, f)
  BY <1>5, PapersExist
<1>7. PaperOf(u) = f[U]
  BY <1>5, <1>6, PaperIs
<1>8. PaperOf(t) = f[T]
  BY <1>2, <1>3, <1>5, <1>6, PaperIs
<1>9. f[U] = PaperStep(u, f, U)
  BY <1>6 DEF Papers
<1>10. U # {}
  BY <1>3
<1>11. QED
  BY <1>2, <1>3, <1>4, <1>7, <1>8, <1>9, <1>10 DEF PaperStep, u

LEMMA MultiplesApart ==
  ASSUME NEW a \in Nat, NEW b \in Nat, NEW d \in Nat \ {0}, b + 1 <= a
  PROVE  d * b + d <= d * a
<1> DEFINE e == a - (b + 1)
<1>1. e \in Nat /\ a = (b + 1) + e
  OBVIOUS
<1>2. d * a = (d * b + d) + d * e
  BY <1>1
<1>3. d * e \in Nat /\ d * b \in Nat
  BY <1>1
<1>4. QED
  BY <1>2, <1>3

LEMMA NextTabStopIs ==
  ASSUME NEW x \in Nat
  PROVE  (CHOOSE z \in x + 1 .. x + TabStop : z % TabStop = 0) = NextTabStop(x)
<1>1. TabStop \in Nat \ {0}
  BY ConsoleAssumption
<1> DEFINE T == TabStop
           q == (x + T) \div T
<1>2. q \in Nat /\ T * q <= x + T /\ x + T < T * q + T
  BY <1>1
<1>3. T * q \in x + 1 .. x + T
  BY <1>1, <1>2
<1>4. (T * q) % T = 0
  <2>1. \A k \in Nat, d \in Nat \ {0} : (d * k) % d = 0
    OBVIOUS
  <2>2. QED
    BY <1>1, <1>2, <2>1
<1>5. ASSUME NEW z \in x + 1 .. x + T, z % T = 0
      PROVE  z = T * q
  <2> DEFINE k == z \div T
             m == z - T * k
  <2>1. z \in Nat /\ k \in Nat /\ T * k <= z /\ z < T * k + T /\ T * k \in Nat
    BY <1>1
  <2>2. m \in Nat /\ m < T /\ z = T * k + m
    BY <1>1, <2>1
  <2>3. \A d \in Nat \ {0}, a, b \in Nat : b < d => (d * a + b) % d = b
    OBVIOUS
  <2> HIDE DEF k, q, m
  <2>4. m = 0
    BY <1>1, <1>5, <2>1, <2>2, <2>3
  <2>5. z = T * k
    BY <2>1, <2>2, <2>4
  <2>6. T * k < T * q + T /\ T * q < T * k + T
    BY <1>1, <1>2, <2>1, <2>5
  <2>7. \A a, b \in Nat, d \in Nat \ {0} : b + 1 <= a => d * b + d <= d * a
    BY MultiplesApart
  <2>8. ~(q + 1 <= k) /\ ~(k + 1 <= q)
    BY <1>1, <1>2, <2>1, <2>6, <2>7
  <2>9. k = q
    BY <1>2, <2>1, <2>8
  <2>10. QED
    BY <2>5, <2>9
<1>6. NextTabStop(x) = T * q
  BY DEF NextTabStop
<1> HIDE DEF q, T
<1>7. QED
  BY <1>3, <1>4, <1>5, <1>6 DEF T

\* Paper on which the lines of a screen are written.
PaperOK(p) ==
  /\ p = [lines |-> p.lines, x |-> p.x]
  /\ Text(p.lines) /\ Len(p.lines) >= 1
  /\ \A i \in 1 .. Len(p.lines) : p.lines[i] = [x \in Columns |-> p.lines[i][x]]
  /\ p.x \in Columns

\* What a character does to the paper, in the terms of putc.
LEMMA TypedIs ==
  ASSUME NEW p, PaperOK(p), NEW c
  PROVE  Reference!Typed(p, c) =
           IF BreaksLine(c, p.x) THEN Reference!Broken(Inked(p, c))
           ELSE [Inked(p, c) EXCEPT !.x = NewColumn(c, p.x)]
<1>1. VGA_WIDTH \in Nat \ {0} /\ p.x \in Nat
  <2>1. p.x \in Columns
    BY DEF PaperOK
  <2>2. QED
    BY <2>1, ConsoleAssumption DEF Columns
<1> USE DEF Reference!Typed, Reference!MovedTo, Inked, Printable, NL, CR, TAB, BreaksLine,
            NewColumn, ColumnAfter
<1>2. CASE c = "\n"
  BY <1>2
<1>3. CASE c = "\r"
  BY <1>1, <1>3
<1>4. CASE c = "\t"
  BY <1>1, <1>4, NextTabStopIs
<1>5. CASE c \notin {"\n", "\r", "\t"}
  BY <1>1, <1>5
<1>6. QED
  BY <1>2, <1>3, <1>4, <1>5

LEMMA LastRowIs ==
  ASSUME NEW p, PaperOK(p)
  PROVE  /\ LastRow(p) \in Rows
         /\ LastRow(p) + 1 = VGA_HEIGHT <=> Len(p.lines) >= VGA_HEIGHT
         /\ Len(p.lines) \in Nat
         /\ Reference!Above(p) \in Nat
         /\ Reference!Above(p) + LastRow(p) + 1 = Len(p.lines)
<1>1. Len(p.lines) \in Nat /\ Len(p.lines) >= 1
  BY TextGrows DEF PaperOK
<1>2. QED
  BY <1>1, ConsoleAssumption DEF LastRow, Reference!CursorLine, Reference!Above, Rows

LEMMA InkedIs ==
  ASSUME NEW p, PaperOK(p), NEW c
  PROVE  LET m == Inked(p, c)
         IN  /\ PaperOK(m) /\ m.x = p.x /\ Len(m.lines) = Len(p.lines)
             /\ LastRow(m) = LastRow(p)
             /\ \A r \in Nat, x \in Columns :
                  Line(m, r)[x] = IF Printable(c) /\ r = LastRow(p) /\ x = p.x
                                  THEN c ELSE Line(p, r)[x]
<1>1. CASE ~Printable(c)
  BY <1>1 DEF Inked
<1>2. CASE Printable(c)
  <2> DEFINE n == Len(p.lines)
             e == [p.lines[n] EXCEPT ![p.x] = c]
             t == [p.lines EXCEPT ![n] = e]
             m == Inked(p, c)
  <2>1. n \in Nat /\ n \in 1 .. n /\ DOMAIN p.lines = 1 .. n
    BY TextGrows DEF PaperOK
  <2>2. m = [lines |-> t, x |-> p.x]
    BY <1>2 DEF Inked, Reference!Marked, PaperOK
  <2>3. PICK G : p.lines \in Seq(G)
    BY DEF PaperOK, Text
  <2>4. t \in Seq(G \cup {e}) /\ Len(t) = n
    <3>1. p.lines \in Seq(G \cup {e}) /\ e \in G \cup {e}
      BY <2>3
    <3> HIDE DEF e
    <3>2. QED
      BY <2>1, <3>1, ExceptSeq
  <2>5. t[n] = e /\ \A i \in 1 .. n : i # n => t[i] = p.lines[i]
    BY <2>1
  <2>6. e = [x \in Columns |-> IF x = p.x THEN c ELSE p.lines[n][x]]
    BY <2>1 DEF PaperOK
  <2> HIDE DEF e, t, m
  <2>7. m.lines = t /\ m.x = p.x
    BY <2>2
  <2>8. PaperOK(m)
    <3>1. Text(t)
      BY <2>4 DEF Text
    <3>2. \A i \in 1 .. n : t[i] = [x \in Columns |-> t[i][x]]
      BY <2>5, <2>6 DEF PaperOK
    <3>3. QED
      BY <2>1, <2>2, <2>4, <2>7, <3>1, <3>2 DEF PaperOK
  <2>9. Reference!Above(m) = Reference!Above(p) /\ LastRow(m) = LastRow(p)
    BY <2>4, <2>7 DEF Reference!Above, LastRow, Reference!CursorLine
  <2>10. ASSUME NEW r \in Nat, NEW x \in Columns
         PROVE  Line(m, r)[x] = IF r = LastRow(p) /\ x = p.x THEN c ELSE Line(p, r)[x]
    <3> DEFINE j == Reference!Above(p) + r + 1
    <3>1. j \in Nat /\ j >= 1 /\ (j = n <=> r = LastRow(p))
      BY LastRowIs DEF Rows
    <3>2. CASE j > n
      BY <2>1, <2>4, <2>7, <2>9, <3>1, <3>2 DEF Line, Reference!Visible
    <3>3. CASE j <= n
      BY <2>1, <2>4, <2>5, <2>6, <2>7, <2>9, <3>1, <3>3 DEF Line, Reference!Visible
    <3>4. QED
      BY <2>1, <3>1, <3>2, <3>3
  <2>11. QED
    BY <1>2, <2>4, <2>7, <2>8, <2>9, <2>10 DEF m
<1>3. QED
  BY <1>1, <1>2

LEMMA BrokenIs ==
  ASSUME NEW p, PaperOK(p)
  PROVE  LET q == Reference!Broken(p)
         IN  /\ PaperOK(q) /\ q.x = 0
             /\ LastRow(p) + 1 < VGA_HEIGHT =>
                  /\ LastRow(q) = LastRow(p) + 1
                  /\ \A r \in Rows : Line(q, r) = Line(p, r)
             /\ LastRow(p) + 1 = VGA_HEIGHT =>
                  /\ LastRow(q) = LastRow(p)
                  /\ \A r \in Rows : Line(q, r) = Line(p, r + 1)
             /\ Line(p, VGA_HEIGHT) = Reference!BlankLine
<1> DEFINE n == Len(p.lines)
           t == Append(p.lines, Reference!BlankLine)
           q == Reference!Broken(p)
<1>0. VGA_HEIGHT \in Nat \ {0} /\ VGA_WIDTH \in Nat \ {0}
  BY ConsoleAssumption
<1>1. n \in Nat /\ Len(t) = n + 1 /\ t[n + 1] = Reference!BlankLine
  BY TextGrows DEF PaperOK
<1>2. Text(t) /\ \A i \in 1 .. n : t[i] = p.lines[i]
  BY TextGrows DEF PaperOK
<1>3. q.lines = t /\ q.x = 0 /\ q = [lines |-> t, x |-> 0]
  BY DEF Reference!Broken
<1> HIDE DEF t, q
<1>4. PaperOK(q)
  <2>1. \A i \in 1 .. n + 1 : t[i] = [x \in Columns |-> t[i][x]]
    <3>1. \A i \in 1 .. n : p.lines[i] = [x \in Columns |-> p.lines[i][x]]
      BY DEF PaperOK
    <3>2. t[n + 1] = [x \in Columns |-> t[n + 1][x]]
      BY <1>1 DEF Reference!BlankLine, Columns
    <3>3. \A i \in 1 .. n + 1 : i \in 1 .. n \/ i = n + 1
      BY <1>1
    <3> HIDE DEF n
    <3>4. QED
      BY <1>2, <3>1, <3>2, <3>3
  <2>2. 0 \in Columns /\ n + 1 >= 1
    BY <1>0, <1>1 DEF Columns
  <2>3. Len(q.lines) = n + 1 /\ q.lines = t /\ q.x = 0
    BY <1>1, <1>3
  <2>4. q = [lines |-> q.lines, x |-> q.x]
    BY <1>3
  <2> HIDE DEF n
  <2>5. QED
    BY <1>2, <2>1, <2>2, <2>3, <2>4 DEF PaperOK
<1> DEFINE A == Reference!Above(p)
           B == Reference!Above(q)
<1>5. /\ IF n <= VGA_HEIGHT THEN A = 0 ELSE A = n - VGA_HEIGHT
      /\ IF n < VGA_HEIGHT THEN B = 0 ELSE B = (n + 1) - VGA_HEIGHT
      /\ LastRow(p) = (n - A) - 1 /\ LastRow(q) = n - B
  <2>1. Len(q.lines) = n + 1
    BY <1>1, <1>3
  <2>2. IF n <= VGA_HEIGHT THEN A = 0 ELSE A = n - VGA_HEIGHT
    BY DEF Reference!Above
  <2>3. IF n < VGA_HEIGHT THEN B = 0 ELSE B = (n + 1) - VGA_HEIGHT
    BY <1>0, <1>1, <2>1 DEF Reference!Above
  <2>4. A \in Int /\ B \in Int
    BY <1>0, <1>1, <2>2, <2>3
  <2> HIDE DEF n, A, B
  <2>5. LastRow(p) = (n - A) - 1 /\ LastRow(q) = ((n + 1) - B) - 1
    BY <2>1 DEF LastRow, Reference!CursorLine, n, A, B
  <2>6. QED
    BY <1>1, <2>2, <2>3, <2>4, <2>5
<1>6. ASSUME NEW j \in Nat, j >= 1
      PROVE  (IF j <= n + 1 THEN t[j] ELSE Reference!BlankLine)
               = (IF j <= n THEN p.lines[j] ELSE Reference!BlankLine)
  BY <1>1, <1>2, <1>6
<1> DEFINE At(j) == IF j <= n THEN p.lines[j] ELSE Reference!BlankLine
<1>7. ASSUME NEW r \in Nat
       PROVE  Line(p, r) = At(A + r + 1) /\ Line(q, r) = At(B + r + 1)
  <2>1. Line(p, r) = At(A + r + 1)
    BY DEF Line, Reference!Visible
  <2>2. Line(q, r) = IF B + r + 1 <= n + 1 THEN t[B + r + 1] ELSE Reference!BlankLine
    BY <1>1, <1>3 DEF Line, Reference!Visible
  <2>3. B + r + 1 \in Nat /\ B + r + 1 >= 1
    BY <1>0, <1>1, <1>5
  <2> HIDE DEF n, A, B
  <2>4. QED
    BY <2>1, <2>2, <2>3, <1>6
<1> HIDE DEF n, A, B, At
<1>8. ASSUME LastRow(p) + 1 < VGA_HEIGHT
       PROVE  /\ LastRow(q) = LastRow(p) + 1
              /\ \A r \in Rows : Line(q, r) = Line(p, r)
  <2>1. n < VGA_HEIGHT /\ A = 0 /\ B = 0
    BY <1>0, <1>1, <1>5, <1>8
  <2>2. LastRow(q) = LastRow(p) + 1
    BY <1>1, <1>5, <2>1
  <2>3. QED
    BY <1>0, <1>7, <2>1, <2>2 DEF Rows
<1>9. ASSUME LastRow(p) + 1 = VGA_HEIGHT
       PROVE  /\ LastRow(q) = LastRow(p)
              /\ \A r \in Rows : Line(q, r) = Line(p, r + 1)
  <2>1. n >= VGA_HEIGHT /\ A \in Nat /\ B = A + 1
    BY <1>0, <1>1, <1>5, <1>9
  <2>2. LastRow(q) = LastRow(p)
    BY <1>0, <1>1, <1>5, <2>1
  <2>3. ASSUME NEW r \in Rows
        PROVE  Line(q, r) = Line(p, r + 1)
    <3>1. r \in Nat /\ r + 1 \in Nat /\ B + r + 1 = A + (r + 1) + 1
      BY <1>0, <2>1 DEF Rows
    <3>2. QED
      BY <1>7, <3>1
  <2>4. QED
    BY <2>2, <2>3
<1>10. Line(p, VGA_HEIGHT) = Reference!BlankLine
  BY <1>0, <1>1 DEF Line, Reference!Visible, Reference!Above
<1>11. QED
  BY <1>3, <1>4, <1>8, <1>9, <1>10 DEF q

LEMMA MovedIs ==
  ASSUME NEW p, PaperOK(p), NEW z \in Columns
  PROVE  LET q == [p EXCEPT !.x = z]
         IN  /\ PaperOK(q) /\ q.x = z /\ LastRow(q) = LastRow(p)
             /\ \A r : Line(q, r) = Line(p, r)
BY DEF PaperOK, LastRow, Line, Reference!CursorLine, Reference!Visible, Reference!Above

LEMMA NewPaperIs ==
  LET p == Reference!NewPaper
  IN  /\ PaperOK(p) /\ p.x = 0 /\ LastRow(p) = 0
      /\ \A r \in Rows : Line(p, r) = Reference!BlankLine
<1>1. <<Reference!BlankLine>> \in Seq({Reference!BlankLine})
  OBVIOUS
<1>2. VGA_HEIGHT \in Nat \ {0} /\ VGA_WIDTH \in Nat \ {0}
  BY ConsoleAssumption
<1> DEFINE p == Reference!NewPaper
<1>3. /\ p = [lines |-> p.lines, x |-> p.x] /\ p.x = 0 /\ p.lines = <<Reference!BlankLine>>
      /\ Text(p.lines) /\ Len(p.lines) = 1 /\ p.lines[1] = Reference!BlankLine
  BY <1>1 DEF Text, Reference!NewPaper
<1> HIDE DEF p
<1>4. Reference!BlankLine = [x \in Columns |-> Reference!BlankLine[x]] /\ 0 \in Columns
  BY <1>2 DEF Reference!BlankLine, Columns
<1>5. PaperOK(p)
  BY <1>3, <1>4 DEF PaperOK
<1>6. Reference!Above(p) = 0
  BY <1>2, <1>3 DEF Reference!Above
<1>7. LastRow(p) = 0
  BY <1>3, <1>6 DEF LastRow, Reference!CursorLine
<1>8. \A r \in Rows : Line(p, r) = Reference!BlankLine
  BY <1>2, <1>3, <1>6 DEF Line, Reference!Visible, Rows
<1>9. QED
  BY <1>3, <1>5, <1>7, <1>8 DEF p

-----------------------------------------------------------------------------
(* The cells of the screen.                                                *)

LEMMA CellsDiffer ==
  ASSUME NEW x \in Columns, NEW z \in Columns, NEW r \in Nat, NEW s \in Nat
  PROVE  /\ Cell(x, r) \in Nat
         /\ r < s => Cell(x, r) < Cell(z, s)
         /\ Cell(x, r) = Cell(z, s) => r = s /\ x = z
         /\ Cell(x, r + 1) = Cell(x, r) + VGA_WIDTH
<1>1. VGA_WIDTH \in Nat \ {0}
  BY ConsoleAssumption
<1>2. \A a, b \in Nat : a < b => a * VGA_WIDTH + VGA_WIDTH <= b * VGA_WIDTH
  <2> TAKE a, b \in Nat
  <2> HAVE a < b
  <2>1. VGA_WIDTH * a + VGA_WIDTH <= VGA_WIDTH * b
    BY <1>1, MultiplesApart
  <2>2. QED
    BY <1>1, <2>1
<1>3. \A a \in Nat : a * VGA_WIDTH \in Nat
  BY <1>1
<1>4. (r + 1) * VGA_WIDTH = r * VGA_WIDTH + VGA_WIDTH
  BY <1>1
<1>5. x \in Nat /\ z \in Nat /\ x < VGA_WIDTH /\ z < VGA_WIDTH
  BY <1>1 DEF Columns
<1> DEFINE a == r * VGA_WIDTH
           b == s * VGA_WIDTH
<1>6. a \in Nat /\ b \in Nat
  BY <1>3
<1>7. /\ r < s => a + VGA_WIDTH <= b
      /\ s < r => b + VGA_WIDTH <= a
      /\ r = s => a = b
  BY <1>2
<1>8. Cell(x, r) = a + x /\ Cell(z, s) = b + z /\ Cell(x, r + 1) = (a + VGA_WIDTH) + x
  BY <1>4 DEF Cell
<1> HIDE DEF a, b
<1>9. QED
  BY <1>1, <1>5, <1>6, <1>7, <1>8

LEMMA CellsOfScreen ==
  ASSUME NEW x \in Columns, NEW r \in Rows
  PROVE  /\ r \in Nat /\ Cell(x, r) \in Screen /\ Cell(x, r) \in Window
         /\ Cell(x, r) + VGA_WIDTH \in Screen <=> r + 1 \in Rows
         /\ Cell(x, r) < Cell(0, VGA_HEIGHT - 1) <=> r + 1 \in Rows
         /\ r + 1 \notin Rows => r + 1 = VGA_HEIGHT /\ Cell(x, r) >= Cell(0, VGA_HEIGHT - 1)
<1>1. VGA_WIDTH \in Nat \ {0} /\ VGA_HEIGHT \in Nat \ {0} /\ r \in Nat
  BY ConsoleAssumption DEF Rows
<1>2. Cell(x, r) \in Screen
  BY <1>1, CellOnScreen DEF Rows, Screen
<1>3. VGA_WIDTH * (VGA_HEIGHT + 1) = VGA_WIDTH * VGA_HEIGHT + VGA_WIDTH
      /\ VGA_WIDTH * VGA_HEIGHT \in Nat
  BY <1>1
<1>4. Cell(x, r) \in Window
  BY <1>1, <1>2, <1>3 DEF Screen, Window
<1>5. 0 \in Columns /\ VGA_HEIGHT - 1 \in Nat
  BY <1>1 DEF Columns
<1>6. Cell(0, VGA_HEIGHT) = VGA_WIDTH * VGA_HEIGHT
  BY <1>1 DEF Cell
<1>7. Cell(x, r + 1) = Cell(x, r) + VGA_WIDTH
  BY <1>1, CellsDiffer
<1>8. CASE r + 1 \in Rows
  <2>1. Cell(x, r + 1) \in Screen
    BY <1>1, <1>8, CellOnScreen DEF Rows, Screen
  <2>2. r < VGA_HEIGHT - 1
    BY <1>1, <1>8 DEF Rows
  <2>3. Cell(x, r) < Cell(0, VGA_HEIGHT - 1)
    BY <1>1, <1>5, <2>2, CellsDiffer
  <2>4. QED
    BY <1>1, <1>2, <1>4, <1>7, <1>8, <2>1, <2>3
<1>9. CASE r + 1 \notin Rows
  <2>1. r + 1 = VGA_HEIGHT /\ r = VGA_HEIGHT - 1
    BY <1>1, <1>9 DEF Rows
  <2>2. Cell(x, r) = Cell(0, VGA_HEIGHT - 1) + x /\ x \in Nat
    BY <1>1, <2>1 DEF Cell, Columns
  <2>3. Cell(0, VGA_HEIGHT) = Cell(0, VGA_HEIGHT - 1) + VGA_WIDTH
    BY <1>5, <2>1, CellsDiffer
  <2>4. Cell(x, r) \in Nat /\ Cell(0, VGA_HEIGHT - 1) \in Nat
    BY <1>1, <1>5, CellsDiffer
  <2>5. Cell(x, r) >= Cell(0, VGA_HEIGHT - 1)
    BY <2>2, <2>4
  <2>6. Cell(x, r) + VGA_WIDTH >= VGA_WIDTH * VGA_HEIGHT
    BY <1>1, <1>6, <2>2, <2>3, <2>4
  <2>7. Cell(x, r) + VGA_WIDTH \notin Screen
    BY <1>1, <1>3, <2>4, <2>6 DEF Screen
  <2>8. QED
    BY <1>1, <1>2, <1>4, <1>9, <2>1, <2>4, <2>5, <2>7
<1>10. QED
  BY <1>8, <1>9

-----------------------------------------------------------------------------
(* What putc and scroll do to a screen that shows a paper.                 *)

Memory(v) == v = [i \in Window |-> v[i]]

LEMMA WriteShows ==
  ASSUME NEW p, PaperOK(p), NEW v, Memory(v), Shows(v, p), NEW c
  PROVE  Shows(Written(v, c, p.x, LastRow(p)), Inked(p, c))
<1> DEFINE m == Inked(p, c)
           y == LastRow(p)
<1>1. y \in Rows /\ p.x \in Columns
  BY LastRowIs DEF PaperOK
<1>2. \A r \in Nat, x \in Columns :
        Line(m, r)[x] = IF Printable(c) /\ r = y /\ x = p.x THEN c ELSE Line(p, r)[x]
  BY InkedIs
<1> SUFFICES ASSUME NEW r \in Rows, NEW x \in Columns
             PROVE  Written(v, c, p.x, y)[Cell(x, r)] = Line(m, r)[x]
  BY DEF Shows
<1>3. r \in Nat /\ y \in Nat /\ Cell(x, r) \in Window
  BY <1>1, CellsOfScreen
<1>4. v[Cell(x, r)] = Line(p, r)[x]
  BY DEF Shows
<1>5. Cell(x, r) = Cell(p.x, y) => r = y /\ x = p.x
  BY <1>1, <1>3, CellsDiffer
<1> HIDE DEF m, y
<1>6. CASE Printable(c)
  <2>1. Written(v, c, p.x, y)[Cell(x, r)] = IF Cell(x, r) = Cell(p.x, y) THEN c ELSE v[Cell(x, r)]
    BY <1>3, <1>6 DEF Written, Memory
  <2>2. QED
    BY <1>2, <1>3, <1>4, <1>5, <1>6, <2>1
<1>7. CASE ~Printable(c)
  BY <1>2, <1>3, <1>4, <1>7 DEF Written
<1>8. QED
  BY <1>6, <1>7

\* The screen when all lines have moved up, and the next line is blank.
Moved(v, p) == \A r \in Rows, x \in Columns : v[Cell(x, r)] = Line(p, r + 1)[x]

\* After the last step of putc the screen shows the paper with the character.
LEMMA TypedShows ==
  ASSUME NEW p, PaperOK(p), NEW c, NEW v
  PROVE  LET q == Reference!Typed(p, c)
             m == Inked(p, c)
             y == NewLine(c, p.x, LastRow(p))
         IN  /\ PaperOK(q) /\ q.x = NewColumn(c, p.x)
             /\ y < VGA_HEIGHT => /\ LastRow(q) = y
                                  /\ Shows(v, m) => Shows(v, q)
             /\ y >= VGA_HEIGHT => /\ LastRow(q) = VGA_HEIGHT - 1
                                   /\ Moved(v, m) => Shows(v, q)
<1> DEFINE q == Reference!Typed(p, c)
           m == Inked(p, c)
           y == NewLine(c, p.x, LastRow(p))
<1>1. PaperOK(m) /\ m.x = p.x /\ LastRow(m) = LastRow(p)
  BY InkedIs
<1>2. LastRow(p) \in Rows /\ p.x \in Columns
  BY LastRowIs DEF PaperOK
<1>3. NewColumn(c, p.x) \in Columns
  BY <1>2, CursorArithmetic
<1>4. VGA_HEIGHT \in Nat \ {0}
  BY ConsoleAssumption
<1>5. q = IF BreaksLine(c, p.x) THEN Reference!Broken(m) ELSE [m EXCEPT !.x = NewColumn(c, p.x)]
  BY TypedIs
<1> HIDE DEF q, m
<1>6. CASE ~BreaksLine(c, p.x)
  <2>1. q = [m EXCEPT !.x = NewColumn(c, p.x)] /\ y = LastRow(p)
    BY <1>5, <1>6 DEF NewLine
  <2>2. /\ PaperOK(q) /\ q.x = NewColumn(c, p.x) /\ LastRow(q) = LastRow(m)
        /\ \A r : Line(q, r) = Line(m, r)
    BY <1>1, <1>3, <2>1, MovedIs
  <2>3. Shows(v, m) => Shows(v, q)
    BY <2>2 DEF Shows
  <2>4. y < VGA_HEIGHT
    BY <1>2, <1>4, <2>1 DEF Rows
  <2>5. ~(y >= VGA_HEIGHT)
    BY <1>2, <1>4, <2>1 DEF Rows
  <2>6. QED
    BY <1>1, <2>1, <2>2, <2>3, <2>4, <2>5 DEF q, m
<1>7. CASE BreaksLine(c, p.x)
  <2>1. q = Reference!Broken(m) /\ y = LastRow(p) + 1 /\ NewColumn(c, p.x) = 0
    BY <1>5, <1>7 DEF NewLine, NewColumn
  <2>2. /\ PaperOK(q) /\ q.x = 0
        /\ LastRow(m) + 1 < VGA_HEIGHT =>
             LastRow(q) = LastRow(m) + 1 /\ \A r \in Rows : Line(q, r) = Line(m, r)
        /\ LastRow(m) + 1 = VGA_HEIGHT =>
             LastRow(q) = LastRow(m) /\ \A r \in Rows : Line(q, r) = Line(m, r + 1)
    BY <1>1, <2>1, BrokenIs
  <2>3. ASSUME y < VGA_HEIGHT
        PROVE  LastRow(q) = y /\ (Shows(v, m) => Shows(v, q))
    <3>1. LastRow(q) = y /\ \A r \in Rows : Line(q, r) = Line(m, r)
      BY <1>1, <2>1, <2>2, <2>3
    <3>2. QED
      BY <3>1 DEF Shows
  <2>4. ASSUME y >= VGA_HEIGHT
        PROVE  LastRow(q) = VGA_HEIGHT - 1 /\ (Moved(v, m) => Shows(v, q))
    <3>1. LastRow(m) + 1 = VGA_HEIGHT
      BY <1>1, <1>2, <1>4, <2>1, <2>4 DEF Rows
    <3>2. LastRow(q) = VGA_HEIGHT - 1
      BY <1>1, <1>2, <1>4, <2>2, <3>1 DEF Rows
    <3>3. QED
      BY <2>2, <3>1, <3>2 DEF Shows, Moved
  <2>5. QED
    BY <2>1, <2>2, <2>3, <2>4 DEF q, m
<1>8. QED
  BY <1>6, <1>7

LEMMA BlankBelow ==
  ASSUME NEW p, PaperOK(p), NEW x \in Columns
  PROVE  Line(p, VGA_HEIGHT)[x] = Blank
BY BrokenIs DEF Reference!BlankLine, Columns, Blank

LEMMA ScrolledMoves ==
  ASSUME NEW p, PaperOK(p), NEW v, Memory(v), Shows(v, p)
  PROVE  Moved(Scrolled(v), p)
<1> SUFFICES ASSUME NEW r \in Rows, NEW x \in Columns
             PROVE  Scrolled(v)[Cell(x, r)] = Line(p, r + 1)[x]
  BY DEF Moved
<1> DEFINE i == Cell(x, r)
<1>1. i \in Window /\ i \in Screen
  BY CellsOfScreen
<1>2. Scrolled(v)[i] = IF i + VGA_WIDTH \in Screen THEN v[i + VGA_WIDTH] ELSE Blank
  BY <1>1 DEF Scrolled
<1>3. i + VGA_WIDTH = Cell(x, r + 1)
  BY CellsDiffer, CellsOfScreen
<1>4. CASE r + 1 \in Rows
  BY <1>2, <1>3, <1>4, CellsOfScreen DEF Shows
<1>5. CASE r + 1 \notin Rows
  <2>1. r + 1 = VGA_HEIGHT /\ i + VGA_WIDTH \notin Screen
    BY <1>5, CellsOfScreen
  <2>2. QED
    BY <1>2, <2>1, BlankBelow
<1>6. QED
  BY <1>4, <1>5

LEMMA CopyShifts ==
  ASSUME NEW p, NEW v, Memory(v), NEW i \in Screen, i >= VGA_WIDTH, Shifted(v, p, i)
  PROVE  Shifted([v EXCEPT ![i - VGA_WIDTH] = v[i]], p, i + 1)
<1> DEFINE u == [v EXCEPT ![i - VGA_WIDTH] = v[i]]
<1>0. VGA_WIDTH \in Nat \ {0} /\ i \in Nat
  BY ConsoleAssumption DEF Screen
<1> SUFFICES ASSUME NEW r \in Rows, NEW x \in Columns
             PROVE  u[Cell(x, r)] =
                      Line(p, IF Cell(x, r) < (i + 1) - VGA_WIDTH THEN r + 1 ELSE r)[x]
  BY DEF Shifted
<1> DEFINE j == Cell(x, r)
<1>1. j \in Nat /\ j \in Window /\ j + VGA_WIDTH = Cell(x, r + 1)
  BY CellsDiffer, CellsOfScreen
<1>2. v[j] = Line(p, IF j < i - VGA_WIDTH THEN r + 1 ELSE r)[x]
  BY DEF Shifted
<1>3. CASE j = i - VGA_WIDTH
  <2>1. i = Cell(x, r + 1) /\ r + 1 \in Rows
    BY <1>0, <1>1, <1>3, CellsOfScreen
  <2>2. v[i] = Line(p, IF i < i - VGA_WIDTH THEN r + 1 + 1 ELSE r + 1)[x]
    BY <2>1 DEF Shifted
  <2>3. ~(i < i - VGA_WIDTH) /\ j < (i + 1) - VGA_WIDTH
    BY <1>0, <1>1, <1>3
  <2>4. u[j] = v[i]
    BY <1>1, <1>3 DEF Memory
  <2>5. QED
    BY <2>2, <2>3, <2>4
<1>4. CASE j # i - VGA_WIDTH
  <2>1. j < (i + 1) - VGA_WIDTH <=> j < i - VGA_WIDTH
    BY <1>0, <1>1, <1>4
  <2>2. u[j] = v[j]
    BY <1>1, <1>4 DEF Memory
  <2>3. QED
    BY <1>2, <2>1, <2>2
<1>5. QED
  BY <1>3, <1>4

LEMMA CopyEnds ==
  ASSUME NEW p, NEW v, NEW i \in Nat, i \notin Screen, Shifted(v, p, i)
  PROVE  Blanked(v, p, Cell(0, VGA_HEIGHT - 1))
<1>0. VGA_WIDTH \in Nat \ {0} /\ VGA_HEIGHT \in Nat \ {0}
  BY ConsoleAssumption
<1> SUFFICES ASSUME NEW r \in Rows, NEW x \in Columns
             PROVE  /\ r + 1 \in Rows => v[Cell(x, r)] = Line(p, r + 1)[x]
                    /\ r + 1 \in Rows \/ ~(Cell(x, r) < Cell(0, VGA_HEIGHT - 1))
  BY DEF Blanked
<1>1. CASE r + 1 \in Rows
  <2>1. Cell(x, r) \in Nat /\ Cell(x, r) + VGA_WIDTH \in Screen
    BY <1>1, CellsDiffer, CellsOfScreen
  <2>2. VGA_WIDTH * VGA_HEIGHT \in Nat
    BY <1>0
  <2>3. Cell(x, r) < i - VGA_WIDTH
    BY <1>0, <2>1, <2>2 DEF Screen
  <2>4. QED
    BY <1>1, <2>3 DEF Shifted
<1>2. CASE r + 1 \notin Rows
  BY <1>2, CellsOfScreen
<1>3. QED
  BY <1>1, <1>2

LEMMA BlankingGoesOn ==
  ASSUME NEW p, NEW v, Memory(v), NEW i \in Screen, i >= Cell(0, VGA_HEIGHT - 1),
         Blanked(v, p, i)
  PROVE  Blanked([v EXCEPT ![i] = Blank], p, i + 1)
<1> DEFINE u == [v EXCEPT ![i] = Blank]
<1> SUFFICES ASSUME NEW r \in Rows, NEW x \in Columns
             PROVE  /\ r + 1 \in Rows => u[Cell(x, r)] = Line(p, r + 1)[x]
                    /\ r + 1 \notin Rows /\ Cell(x, r) < i + 1 => u[Cell(x, r)] = Blank
  BY DEF Blanked
<1> DEFINE j == Cell(x, r)
<1>1. j \in Nat /\ j \in Window /\ i \in Int
  BY CellsDiffer, CellsOfScreen DEF Screen
<1>2. u[j] = IF j = i THEN Blank ELSE v[j]
  BY <1>1 DEF Memory
<1>3. CASE r + 1 \in Rows
  <2>1. j < Cell(0, VGA_HEIGHT - 1)
    BY <1>3, CellsOfScreen
  <2>2. Cell(0, VGA_HEIGHT - 1) \in Int
    BY ConsoleAssumption DEF Cell
  <2>3. j # i
    BY <1>1, <2>1, <2>2
  <2>4. QED
    BY <1>2, <1>3, <2>3 DEF Blanked
<1>4. CASE r + 1 \notin Rows
  <2>1. j < i + 1 => j = i \/ j < i
    BY <1>1
  <2>2. QED
    BY <1>2, <1>4, <2>1 DEF Blanked
<1>5. QED
  BY <1>3, <1>4

LEMMA BlankingEnds ==
  ASSUME NEW p, PaperOK(p), NEW v, NEW i \in Nat, i \notin Screen, Blanked(v, p, i)
  PROVE  Moved(v, p)
<1> SUFFICES ASSUME NEW r \in Rows, NEW x \in Columns
             PROVE  v[Cell(x, r)] = Line(p, r + 1)[x]
  BY DEF Moved
<1>1. CASE r + 1 \in Rows
  BY <1>1 DEF Blanked
<1>2. CASE r + 1 \notin Rows
  <2>1. r + 1 = VGA_HEIGHT /\ Cell(x, r) \in Screen
    BY <1>2, CellsOfScreen
  <2>2. VGA_WIDTH * VGA_HEIGHT \in Nat
    BY ConsoleAssumption
  <2>3. Cell(x, r) < i
    BY <2>1, <2>2 DEF Screen
  <2>4. v[Cell(x, r)] = Blank
    BY <1>2, <2>3 DEF Blanked
  <2>5. QED
    BY <2>1, <2>4, BlankBelow
<1>3. QED
  BY <1>1, <1>2

-----------------------------------------------------------------------------
(* The screen shows the end of the text.                                   *)

PaperInv == Text(typed) /\ PaperOK(PaperOf(typed))

\* What a step does to the console and to the history of what was printed.
ScreenStep ==
  \/ (\E c : LoadLine(c)) /\ UNCHANGED <<typed, raced>>
  \/ /\ PutcStep
     /\ typed' = IF PutcReturns THEN Append(typed, reg.c) ELSE typed
     /\ UNCHANGED raced
  \/ (\E c : Prints(c)) /\ UNCHANGED <<at, reg>>
  \/ UNCHANGED <<consoleVars, typed, raced>>

LEMMA ScreenSteps == [Next]_vars => ScreenStep
<1> SUFFICES ASSUME [Next]_vars PROVE ScreenStep
  OBVIOUS
<1>1. CASE KernelStep
  BY <1>1 DEF KernelStep, PutcCalled, PutcContinues, ScreenStep
<1>2. CASE HandlerStep
  <2>1. CASE isr_handler /\ UNCHANGED <<screenVars, keyboardVars, typed, raced>>
    BY <1>2, <2>1 DEF HandlerStep, ScreenStep, consoleVars
  <2>2. CASE ReadScancode
    BY <1>2, <2>2 DEF HandlerStep, ReadScancode, ScreenStep, consoleVars
  <2>3. CASE Echo
    BY <1>2, <2>3 DEF HandlerStep, Echo, ScreenStep
  <2>4. CASE panic
    BY <1>2, <2>4 DEF HandlerStep, panic, ScreenStep
  <2>5. QED
    BY <1>2, <2>1, <2>2, <2>3, <2>4 DEF HandlerStep
<1>3. CASE \E l \in Lines : TakeInterrupt(l)
  BY <1>3 DEF TakeInterrupt, ScreenStep
<1>4. CASE \E s \in Scancodes : KeySends(s)
  BY <1>4 DEF KeySends, ScreenStep
<1>5. CASE KeyArrives
  BY <1>5 DEF KeyArrives, ScreenStep
<1>6. CASE \E l \in Lines \ {1} : DeviceRaises(l)
  BY <1>6 DEF DeviceRaises, ScreenStep
<1>7. CASE UNCHANGED vars
  BY <1>7 DEF vars, ScreenStep
<1>8. QED
  BY <1>1, <1>2, <1>3, <1>4, <1>5, <1>6, <1>7 DEF Next

LEMMA PaperInvStep == PaperInv /\ ScreenStep => PaperInv'
<1> SUFFICES ASSUME PaperInv, ScreenStep PROVE PaperInv'
  OBVIOUS
<1>1. typed' = typed \/ \E c : typed' = Append(typed, c)
  BY DEF ScreenStep, Prints
<1>2. CASE typed' = typed
  BY <1>2 DEF PaperInv
<1>3. ASSUME NEW c, typed' = Append(typed, c)
      PROVE  PaperInv'
  <2>1. PaperOf(Append(typed, c)) = Reference!Typed(PaperOf(typed), c)
    BY PaperGrows DEF PaperInv
  <2>2. Text(Append(typed, c)) /\ PaperOK(PaperOf(Append(typed, c)))
    BY <2>1, TextGrows, TypedShows DEF PaperInv
  <2>3. QED
    BY <1>3, <2>2 DEF PaperInv
<1>4. QED
  BY <1>1, <1>2, <1>3

\* The state of the console between two calls of putc, when the text fills p.
Settled(p) ==
  /\ at = "ret"
  /\ cursor_x = p.x /\ cursor_y = LastRow(p) /\ Shows(vga, p)

LEMMA SettledShows ==
  ASSUME NEW p, Settled(p)
  PROVE  OnScreen(p) /\ CursorAt(p) /\ Registers(p)
BY DEF Settled, OnScreen, CursorAt, Registers

LEMMA SameWithoutColumn ==
  ASSUME NEW c, NEW x, NEW z, c \in {NL, CR} \/ x = z
  PROVE  /\ BreaksLine(c, x) <=> BreaksLine(c, z)
         /\ NewColumn(c, x) = NewColumn(c, z)
         /\ \A y : NewLine(c, x, y) = NewLine(c, z, y)
BY DEF BreaksLine, NewColumn, NewLine, NL, CR

LEMMA PutcStepShows ==
  ASSUME ConsoleInv, NEW p, PaperOK(p), InPutc(p), PutcStep,
         NEW q, q = Reference!Typed(p, reg.c)
  PROVE  IF PutcReturns THEN Settled(q)' ELSE InPutc(p)'
<1> DEFINE c == reg.c
           m == Inked(p, c)
           y == NewLine(c, p.x, LastRow(p))
<1>1. VGA_WIDTH \in Nat \ {0} /\ VGA_HEIGHT \in Nat \ {0}
  BY ConsoleAssumption
<1>2. LastRow(p) \in Rows /\ LastRow(p) \in Nat /\ LastRow(p) < VGA_HEIGHT
  BY <1>1, LastRowIs DEF Rows
<1>3. Memory(vga) /\ reg.i \in Nat /\ reg = [c |-> c, x |-> reg.x, y |-> reg.y, i |-> reg.i]
  BY DEF ConsoleInv, Memory
<1>4. OnScreen(p) /\ CursorAt(p) /\ Registers(p)
  BY DEF InPutc
<1>5. PaperOK(m)
  BY InkedIs
<1>6. q.x = NewColumn(c, p.x)
  BY TypedShows
<1>7. ASSUME NEW v, y < VGA_HEIGHT, Shows(v, m)
      PROVE  LastRow(q) = y /\ Shows(v, q)
  BY <1>7, TypedShows
<1>8. ASSUME NEW v, y >= VGA_HEIGHT, Moved(v, m)
      PROVE  LastRow(q) = VGA_HEIGHT - 1 /\ Shows(v, q)
  BY <1>8, TypedShows
<1>9. BreaksLine(c, p.x) => y = LastRow(p) + 1 /\ NewColumn(c, p.x) = 0
  BY DEF NewLine, NewColumn
<1>10. ~BreaksLine(c, p.x) => y = LastRow(p)
  BY DEF NewLine
<1>11. CASE LoadColumn
  <2>1. /\ at = "load_x" /\ cursor_x = p.x /\ cursor_y = LastRow(p) /\ Shows(vga, p)
        /\ reg.y = LastRow(p) /\ c \notin {NL, CR}
    BY <1>4, <1>11 DEF LoadColumn, OnScreen, CursorAt, Registers
  <2>2. /\ reg'.c = c /\ reg'.x = p.x /\ reg'.y = LastRow(p) /\ UNCHANGED screenVars
        /\ at' = IF Printable(c) THEN "putc_at" ELSE "store_x"
    BY <1>3, <1>11, <2>1 DEF LoadColumn
  <2>3. InPutc(p)'
    BY <2>1, <2>2 DEF InPutc, OnScreen, CursorAt, Registers, Inked, screenVars
  <2>4. ~PutcReturns
    BY <2>2 DEF PutcReturns
  <2>5. QED
    BY <2>3, <2>4
<1>12. CASE PutcAt
  <2>1. /\ at = "putc_at" /\ cursor_x = p.x /\ cursor_y = LastRow(p) /\ Shows(vga, p)
        /\ reg.y = LastRow(p) /\ reg.x = p.x /\ Printable(c)
    BY <1>4, <1>12 DEF PutcAt, OnScreen, CursorAt, Registers
  <2>2. /\ vga' = Written(vga, c, p.x, LastRow(p)) /\ at' = "store_x"
        /\ UNCHANGED <<cursor_x, cursor_y, reg>>
    BY <1>12, <2>1 DEF PutcAt, Written
  <2>3. Shows(vga', m)
    BY <1>3, <2>1, <2>2, WriteShows
  <2>4. InPutc(p)'
    BY <2>1, <2>2, <2>3 DEF InPutc, OnScreen, CursorAt, Registers
  <2>5. ~PutcReturns
    BY <2>2 DEF PutcReturns
  <2>6. QED
    BY <2>4, <2>5
<1>13. CASE StoreColumn
  <2>1. /\ at = "store_x" /\ cursor_y = LastRow(p) /\ Shows(vga, m)
        /\ reg.y = LastRow(p) /\ (c \in {NL, CR} \/ reg.x = p.x)
    BY <1>4, <1>13 DEF StoreColumn, OnScreen, CursorAt, Registers
  <2>2. /\ BreaksLine(c, reg.x) <=> BreaksLine(c, p.x)
        /\ NewColumn(c, reg.x) = NewColumn(c, p.x)
        /\ NewLine(c, reg.x, reg.y) = y
    BY <2>1, SameWithoutColumn
  <2>3. /\ cursor_x' = NewColumn(c, p.x) /\ UNCHANGED <<cursor_y, vga>>
        /\ reg'.c = c /\ reg'.y = y /\ reg'.i = VGA_WIDTH
        /\ at' = IF BreaksLine(c, p.x) THEN "store_y" ELSE AfterStores(reg.y)
    BY <1>3, <1>13, <2>2 DEF StoreColumn
  <2>4. CASE BreaksLine(c, p.x)
    <3>1. at' = "store_y" /\ cursor_x' = 0 /\ reg'.y = LastRow(p) + 1
      BY <1>9, <2>3, <2>4
    <3>2. InPutc(p)'
      BY <2>1, <2>3, <2>4, <3>1 DEF InPutc, OnScreen, CursorAt, Registers
    <3>3. ~PutcReturns
      BY <3>1 DEF PutcReturns
    <3>4. QED
      BY <3>2, <3>3
  <2>5. CASE ~BreaksLine(c, p.x)
    <3>1. at' = "ret" /\ y = LastRow(p) /\ y < VGA_HEIGHT
      BY <1>2, <1>1, <1>10, <2>1, <2>3, <2>5 DEF AfterStores
    <3>2. LastRow(q) = y /\ Shows(vga, q)
      BY <1>7, <2>1, <3>1
    <3>3. Settled(q)'
      BY <1>6, <2>1, <2>3, <3>1, <3>2 DEF Settled
    <3>4. PutcReturns
      BY <2>1, <3>1 DEF PutcReturns
    <3>5. QED
      BY <3>3, <3>4
  <2>6. QED
    BY <2>4, <2>5
<1>14. CASE StoreLine
  <2>1. /\ at = "store_y" /\ cursor_x = 0 /\ Shows(vga, m)
        /\ reg.y = LastRow(p) + 1 /\ reg.i = VGA_WIDTH /\ BreaksLine(c, p.x)
    BY <1>4, <1>14 DEF StoreLine, OnScreen, CursorAt, Registers
  <2>2. /\ cursor_y' = reg.y /\ UNCHANGED <<cursor_x, vga, reg>> /\ at' = AfterStores(reg.y)
    BY <1>14 DEF StoreLine
  <2>3. y = reg.y /\ NewColumn(c, p.x) = 0
    BY <1>9, <2>1
  <2>4. CASE reg.y >= VGA_HEIGHT
    <3>1. at' = "copy" /\ reg.y = VGA_HEIGHT
      BY <1>1, <1>2, <2>1, <2>2, <2>4 DEF AfterStores
    <3>2. Shifted(vga, m, reg.i)
      <4>1. ASSUME NEW r \in Rows, NEW x \in Columns
            PROVE  ~(Cell(x, r) < VGA_WIDTH - VGA_WIDTH)
        <5>1. Cell(x, r) \in Nat
          BY CellsDiffer, CellsOfScreen
        <5>2. QED
          BY <1>1, <5>1
      <4>2. QED
        BY <2>1, <4>1 DEF Shifted, Shows
    <3>3. InPutc(p)'
      BY <2>1, <2>2, <3>1, <3>2 DEF InPutc, OnScreen, CursorAt, Registers
    <3>4. ~PutcReturns
      BY <3>1 DEF PutcReturns
    <3>5. QED
      BY <3>3, <3>4
  <2>5. CASE ~(reg.y >= VGA_HEIGHT)
    <3>1. at' = "ret" /\ y < VGA_HEIGHT
      BY <1>1, <1>2, <2>1, <2>2, <2>3, <2>5 DEF AfterStores
    <3>2. LastRow(q) = y /\ Shows(vga, q)
      BY <1>7, <2>1, <3>1
    <3>3. Settled(q)'
      BY <1>6, <2>1, <2>2, <2>3, <3>1, <3>2 DEF Settled
    <3>4. PutcReturns
      BY <2>1, <3>1 DEF PutcReturns
    <3>5. QED
      BY <3>3, <3>4
  <2>6. QED
    BY <2>4, <2>5
<1>15. CASE CopyCell
  <2>1. /\ at = "copy" /\ cursor_x = 0 /\ Shifted(vga, m, reg.i) /\ reg.i \in Screen
        /\ reg.y = LastRow(p) + 1 /\ reg.y = VGA_HEIGHT /\ BreaksLine(c, p.x)
    BY <1>4, <1>15 DEF CopyCell, OnScreen, CursorAt, Registers
  <2>2. reg.i >= VGA_WIDTH
    BY <2>1 DEF ConsoleInv
  <2>3. /\ vga' = [vga EXCEPT ![reg.i - VGA_WIDTH] = vga[reg.i]]
        /\ reg'.c = c /\ reg'.y = reg.y /\ reg'.i = reg.i + 1
        /\ UNCHANGED <<cursor_x, cursor_y, at>>
    BY <1>3, <1>15 DEF CopyCell
  <2>4. Shifted(vga', m, reg'.i)
    BY <1>3, <2>1, <2>2, <2>3, CopyShifts
  <2>5. InPutc(p)'
    BY <2>1, <2>3, <2>4 DEF InPutc, OnScreen, CursorAt, Registers
  <2>6. ~PutcReturns
    BY <2>1, <2>3 DEF PutcReturns
  <2>7. QED
    BY <2>5, <2>6
<1>16. CASE CopyDone
  <2>1. /\ at = "copy" /\ cursor_x = 0 /\ Shifted(vga, m, reg.i) /\ reg.i \notin Screen
        /\ reg.y = LastRow(p) + 1 /\ reg.y = VGA_HEIGHT /\ BreaksLine(c, p.x)
    BY <1>4, <1>16 DEF CopyDone, OnScreen, CursorAt, Registers
  <2>2. /\ reg'.c = c /\ reg'.y = reg.y /\ reg'.i = Cell(0, VGA_HEIGHT - 1)
        /\ at' = "blank" /\ UNCHANGED screenVars
    BY <1>3, <1>16 DEF CopyDone
  <2>3. Blanked(vga, m, Cell(0, VGA_HEIGHT - 1))
    BY <1>3, <2>1, CopyEnds
  <2>4. Cell(0, VGA_HEIGHT - 1) >= Cell(0, VGA_HEIGHT - 1)
    BY <1>1 DEF Cell
  <2>5. InPutc(p)'
    BY <2>1, <2>2, <2>3, <2>4 DEF InPutc, OnScreen, CursorAt, Registers, screenVars
  <2>6. ~PutcReturns
    BY <2>2 DEF PutcReturns
  <2>7. QED
    BY <2>5, <2>6
<1>17. CASE BlankCell
  <2>1. /\ at = "blank" /\ cursor_x = 0 /\ Blanked(vga, m, reg.i) /\ reg.i \in Screen
        /\ reg.i >= Cell(0, VGA_HEIGHT - 1)
        /\ reg.y = LastRow(p) + 1 /\ reg.y = VGA_HEIGHT /\ BreaksLine(c, p.x)
    BY <1>4, <1>17 DEF BlankCell, OnScreen, CursorAt, Registers
  <2>2. /\ vga' = [vga EXCEPT ![reg.i] = Blank]
        /\ reg'.c = c /\ reg'.y = reg.y /\ reg'.i = reg.i + 1
        /\ UNCHANGED <<cursor_x, cursor_y, at>>
    BY <1>3, <1>17 DEF BlankCell
  <2>3. Blanked(vga', m, reg'.i)
    BY <1>3, <2>1, <2>2, BlankingGoesOn
  <2>4. reg'.i >= Cell(0, VGA_HEIGHT - 1)
    <3>1. Cell(0, VGA_HEIGHT - 1) \in Int
      BY <1>1 DEF Cell
    <3>2. QED
      BY <1>3, <2>1, <2>2, <3>1
  <2>5. InPutc(p)'
    BY <2>1, <2>2, <2>3, <2>4 DEF InPutc, OnScreen, CursorAt, Registers
  <2>6. ~PutcReturns
    BY <2>1, <2>2 DEF PutcReturns
  <2>7. QED
    BY <2>5, <2>6
<1>18. CASE ScrollDone
  <2>1. /\ at = "blank" /\ cursor_x = 0 /\ Blanked(vga, m, reg.i) /\ reg.i \notin Screen
        /\ reg.y = LastRow(p) + 1 /\ reg.y = VGA_HEIGHT /\ BreaksLine(c, p.x)
    BY <1>4, <1>18 DEF ScrollDone, OnScreen, CursorAt, Registers
  <2>2. cursor_y' = VGA_HEIGHT - 1 /\ at' = "ret" /\ UNCHANGED <<cursor_x, vga, reg>>
    BY <1>18 DEF ScrollDone
  <2>3. y = VGA_HEIGHT /\ y >= VGA_HEIGHT /\ NewColumn(c, p.x) = 0
    BY <1>1, <1>9, <2>1
  <2>4. Moved(vga, m)
    BY <1>3, <1>5, <2>1, BlankingEnds
  <2>5. LastRow(q) = VGA_HEIGHT - 1 /\ Shows(vga, q)
    BY <1>8, <2>3, <2>4
  <2>6. Settled(q)'
    BY <1>6, <2>1, <2>2, <2>3, <2>5 DEF Settled
  <2>7. PutcReturns
    BY <2>1, <2>2 DEF PutcReturns
  <2>8. QED
    BY <2>6, <2>7
<1>19. QED
  BY <1>11, <1>12, <1>13, <1>14, <1>15, <1>16, <1>17, <1>18 DEF PutcStep, scroll

\* putc at once does in a handler what the steps do in the kernel.
LEMMA PutcAtOnceShows ==
  ASSUME ConsoleInv, NEW p, PaperOK(p), Settled(p), NEW c, PutcAtOnce(c), at' = at,
         NEW q, q = Reference!Typed(p, c)
  PROVE  Settled(q)'
<1> DEFINE m == Inked(p, c)
           y == NewLine(c, p.x, LastRow(p))
           v == Written(vga, c, p.x, LastRow(p))
<1>1. cursor_x = p.x /\ cursor_y = LastRow(p) /\ Shows(vga, p) /\ at = "ret"
  BY DEF Settled
<1>2. Memory(vga) /\ Memory(v)
  BY DEF ConsoleInv, Memory, Written
<1>3. PaperOK(m) /\ Shows(v, m)
  BY <1>1, <1>2, InkedIs, WriteShows
<1>4. /\ cursor_x' = NewColumn(c, p.x)
      /\ IF y >= VGA_HEIGHT THEN cursor_y' = VGA_HEIGHT - 1 /\ vga' = Scrolled(v)
         ELSE cursor_y' = y /\ vga' = v
  BY <1>1 DEF PutcAtOnce
<1>5. /\ q.x = NewColumn(c, p.x)
      /\ \A u : y < VGA_HEIGHT => LastRow(q) = y /\ (Shows(u, m) => Shows(u, q))
      /\ \A u : y >= VGA_HEIGHT => LastRow(q) = VGA_HEIGHT - 1 /\ (Moved(u, m) => Shows(u, q))
  BY TypedShows
<1>6. Moved(Scrolled(v), m)
  BY <1>2, <1>3, ScrolledMoves
<1>7. y \in Int /\ VGA_HEIGHT \in Int
  BY LastRowIs, ConsoleAssumption DEF NewLine, Rows
<1> HIDE DEF y, v, m
<1>8. CASE y >= VGA_HEIGHT
  BY <1>1, <1>4, <1>5, <1>6, <1>8 DEF Settled
<1>9. CASE y < VGA_HEIGHT
  BY <1>1, <1>3, <1>4, <1>5, <1>7, <1>9 DEF Settled
<1>10. QED
  BY <1>7, <1>8, <1>9

LEMMA LoadLineShows ==
  ASSUME ConsoleInv, NEW p, Settled(p), NEW c, LoadLine(c)
  PROVE  InPutc(p)'
<1>1. /\ reg'.c = c /\ reg'.y = cursor_y /\ UNCHANGED screenVars
      /\ at' = IF c \in {NL, CR} THEN "store_x" ELSE "load_x"
  BY DEF LoadLine, ConsoleInv
<1>2. at' = "store_x" => Inked(p, reg'.c) = p
  BY <1>1 DEF Inked, Printable
<1>3. QED
  BY <1>1, <1>2 DEF Settled, InPutc, OnScreen, CursorAt, Registers, screenVars

LEMMA ScreenInvInit == Init => PaperInv /\ ScreenInv
<1> SUFFICES ASSUME Init PROVE PaperInv /\ ScreenInv
  OBVIOUS
<1> DEFINE p == Reference!NewPaper
<1>1. PaperOf(typed) = p /\ typed = <<>>
  BY PaperStart DEF Init
<1>2. /\ PaperOK(p) /\ p.x = 0 /\ LastRow(p) = 0
      /\ \A r \in Rows : Line(p, r) = Reference!BlankLine
  BY NewPaperIs
<1>3. Text(typed)
  <2>1. typed \in Seq({})
    BY <1>1
  <2>2. QED
    BY <2>1 DEF Text
<1> HIDE DEF p
<1>4. Shows(vga, p)
  <2> SUFFICES ASSUME NEW r \in Rows, NEW x \in Columns
               PROVE  vga[Cell(x, r)] = Line(p, r)[x]
    BY DEF Shows
  <2>1. Cell(x, r) \in Window
    BY CellsOfScreen
  <2>2. vga[Cell(x, r)] = Blank
    BY <2>1 DEF Init, ConsoleInit
  <2>3. QED
    BY <1>2, <2>2 DEF Reference!BlankLine, Blank, Columns
<1>5. Settled(p)
  BY <1>2, <1>4 DEF Settled, Init, ConsoleInit
<1>6. QED
  BY <1>1, <1>2, <1>3, <1>5, SettledShows DEF PaperInv, ScreenInv, InPutc

LEMMA ScreenInvStep == ConsoleInv /\ PaperInv /\ ScreenInv /\ ScreenStep => ScreenInv'
<1> SUFFICES ASSUME ConsoleInv, PaperInv, ScreenInv, ScreenStep, ~raced'
             PROVE  InPutc(PaperOf(typed))'
  BY DEF ScreenInv
<1>1. ~raced
  BY DEF ScreenStep, Prints
<1>2. PICK p : p = PaperOf(typed)
  OBVIOUS
<1>3. PaperOK(p) /\ InPutc(p)
  BY <1>1, <1>2 DEF PaperInv, ScreenInv
<1>4. \A c : PaperOf(Append(typed, c)) = Reference!Typed(p, c)
  BY <1>2, PaperGrows DEF PaperInv
<1>5. at = "ret" => Settled(p)
  BY <1>3 DEF InPutc, OnScreen, CursorAt, Settled
<1>6. ASSUME NEW q, PaperOf(typed') = q, InPutc(q)'
      PROVE  InPutc(PaperOf(typed))'
  BY <1>6
<1>7. CASE UNCHANGED typed /\ InPutc(p)'
  BY <1>2, <1>6, <1>7
<1>8. ASSUME NEW c, typed' = Append(typed, c), NEW q, q = Reference!Typed(p, c), Settled(q)'
      PROVE  InPutc(PaperOf(typed))'
  <2>1. PaperOf(typed') = q
    BY <1>4, <1>8
  <2>2. InPutc(q)'
    BY <1>8 DEF Settled, InPutc, OnScreen, CursorAt, Registers
  <2>3. QED
    BY <1>6, <2>1, <2>2
<1>9. ASSUME NEW c, LoadLine(c), UNCHANGED typed
      PROVE  InPutc(PaperOf(typed))'
  <2>1. Settled(p)
    BY <1>5, <1>9 DEF LoadLine
  <2>2. InPutc(p)'
    BY <1>9, <2>1, LoadLineShows
  <2>3. QED
    BY <1>7, <1>9, <2>2
<1>10. ASSUME PutcStep, typed' = IF PutcReturns THEN Append(typed, reg.c) ELSE typed
       PROVE  InPutc(PaperOf(typed))'
  <2>1. PICK q : q = Reference!Typed(p, reg.c)
    OBVIOUS
  <2>2. IF PutcReturns THEN Settled(q)' ELSE InPutc(p)'
    BY <1>3, <1>10, <2>1, PutcStepShows
  <2>3. PICK c : c = reg.c
    OBVIOUS
  <2>4. CASE PutcReturns
    BY <1>8, <1>10, <2>1, <2>2, <2>3, <2>4
  <2>5. CASE ~PutcReturns
    BY <1>7, <1>10, <2>2, <2>5
  <2>6. QED
    BY <2>4, <2>5
<1>11. ASSUME NEW c, Prints(c), UNCHANGED <<at, reg>>
       PROVE  InPutc(PaperOf(typed))'
  <2>1. PutcAtOnce(c) /\ typed' = Append(typed, c) /\ at = "ret"
    BY <1>11 DEF Prints
  <2>2. Settled(p)
    BY <1>5, <2>1
  <2>3. PICK q : q = Reference!Typed(p, c)
    OBVIOUS
  <2>4. Settled(q)'
    BY <1>3, <1>11, <2>1, <2>2, <2>3, PutcAtOnceShows
  <2>5. QED
    BY <1>8, <2>1, <2>3, <2>4
<1>12. CASE UNCHANGED <<consoleVars, typed, raced>>
  <2>1. InPutc(p)'
    BY <1>3, <1>12 DEF consoleVars, screenVars, InPutc, OnScreen, CursorAt, Registers
  <2>2. QED
    BY <1>7, <1>12, <2>1
<1>13. QED
  BY <1>9, <1>10, <1>11, <1>12 DEF ScreenStep

\* Between two calls of putc the screen shows the end of the text and the cursor
\* is where the text ends (console.c:36-75), for screens, tab stops and texts of
\* every size, as long as no handler has printed inside an interrupted putc.
THEOREM ScreenCorrect == Spec => []ScreenShowsTail
<1>1. ScreenInv => ScreenShowsTail
  BY DEF ScreenInv, ScreenShowsTail, InPutc, OnScreen, CursorAt, Shows, PaperOf, Line,
         LastRow, Rows, Columns
<1>2. Init => ConsoleInv /\ PaperInv /\ ScreenInv
  BY ConsoleInvInit, ScreenInvInit
<1>3. ConsoleInv /\ PaperInv /\ ScreenInv /\ [Next]_vars
        => ConsoleInv' /\ PaperInv' /\ ScreenInv'
  BY ConsoleSteps, ConsoleInvStep, ScreenSteps, PaperInvStep, ScreenInvStep
<1>4. QED
  BY <1>1, <1>2, <1>3, PTL DEF Spec
=============================================================================
