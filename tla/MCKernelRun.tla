---------------------------- MODULE MCKernelRun ----------------------------
(***************************************************************************)
(* Machines for the kernel and its interrupts: a screen of two short       *)
(* lines, a keyboard whose scancodes are below 16 with bit 3 for "key      *)
(* up", and lines 0 (timer), 1 (keyboard) and 12 (slave, unknown to it).   *)
(***************************************************************************)
EXTENDS KernelRun

\* Scancodes 0 to 3: an entry that is 0, a letter, Enter and Tab.
MCTable == <<NUL, "k", NL, TAB>>

\* Firmware that leaves open all lines, keyboard and slave, or the timer only.
MCMasks == {{}, {0}, {1, 12}}

\* A letter; then a line that fills the width and a line break.
MCBefore == <<"b">>
MCAfter  == <<"m", "m", NL>>
=============================================================================
