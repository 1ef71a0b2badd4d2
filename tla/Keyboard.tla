------------------------------ MODULE Keyboard ------------------------------
(***************************************************************************)
(* The keyboard: the controller with one byte of output buffer behind port *)
(* 0x60 and the keyboard's own queue (hardware), and the scancode table    *)
(* and callback of keyboard.c.  The controller raises line 1 when it puts  *)
(* a byte into the buffer, and takes the next one only when the buffer has *)
(* been read: a byte that nobody reads silences the keyboard.              *)
(***************************************************************************)
EXTENDS Integers, Sequences

CONSTANTS
  Scancodes,          \* the bytes this keyboard sends
  ReleaseBit,         \* 0x80: set in the byte for a key that goes up
  scancode_to_ascii   \* the table, a sequence; entry s+1 is for scancode s

ASSUME KeyboardAssumption ==
  /\ ReleaseBit \in Nat
  /\ Scancodes \subseteq 0 .. (2 * ReleaseBit - 1)
  /\ Len(scancode_to_ascii) <= ReleaseBit

VARIABLES
  obf,          \* the byte in the output buffer, or Empty
  keys,         \* the bytes the keyboard has not handed to its controller yet
  scancode      \* the local of keyboard_callback

keyboardVars == <<obf, keys, scancode>>

Empty == -1
NUL   == "NUL"

\* The byte that a key sends when it goes down or up.
Press(s) ==
  /\ keys' = Append(keys, s)
  /\ UNCHANGED <<obf, scancode>>

\* The controller takes the next byte and raises its line.
FillBuffer ==
  /\ obf = Empty
  /\ keys # <<>>
  /\ obf' = Head(keys)
  /\ keys' = Tail(keys)
  /\ UNCHANGED scancode

\* Mutant: the callback does not read the port.
ReadPortNever ==
  /\ scancode' = obf
  /\ UNCHANGED <<obf, keys>>

\* Mutant: the callback reads until the controller has nothing more to give.
ReadPortDrains ==
  /\ scancode' = obf
  /\ obf' = Empty
  /\ keys' = <<>>

\* inb(KEYBOARD_PORT)
ReadPort ==
  /\ scancode' = obf
  /\ obf' = Empty
  /\ UNCHANGED keys

\* What keyboard_callback prints for a scancode: nothing for a key going up,
\* for one outside the table, and for one whose entry is 0.
Echoes(s) ==
  /\ s < ReleaseBit
  /\ s < Len(scancode_to_ascii)
  /\ scancode_to_ascii[s + 1] # NUL

CharOf(s) == scancode_to_ascii[s + 1]
=============================================================================
