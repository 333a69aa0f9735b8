------------------------------ MODULE Command ------------------------------
(***************************************************************************)
(* What running an external command promises its caller: the command runs  *)
(* once, and if the caller is given a result at all, it is given once,     *)
(* after the command has ended, with everything that was written to the    *)
(* command's terminal and with the command's own exit code.                *)
(*                                                                         *)
(* CommandWorker implements this module (see CommandWorker!Promise).       *)
(***************************************************************************)
EXTENDS Sequences

CONSTANTS
  Texts,   \* what can be written to the terminal
  Codes,   \* exit codes
  None     \* no exit code yet, no result yet

VARIABLES
  started,   \* whether the command was started
  code,      \* the exit code of the command
  open,      \* whether the command or a process it started can still write
  output,    \* what was written to the terminal, in order
  result     \* what the caller was given

vars == <<started, code, open, output, result>>

Init ==
  /\ started = FALSE
  /\ code = None
  /\ open = FALSE
  /\ output = <<>>
  /\ result = None

Start ==
  /\ ~started
  /\ started' = TRUE
  /\ open' = TRUE
  /\ UNCHANGED <<code, output, result>>

Write(t) ==
  /\ open
  /\ output' = Append(output, t)
  /\ UNCHANGED <<started, code, open, result>>

\* The command ends; a process it left behind may keep the terminal.
Exit(c, left) ==
  /\ started
  /\ code = None
  /\ left => open
  /\ code' = c
  /\ open' = left
  /\ UNCHANGED <<started, output, result>>

\* The terminal is let go of, by the command itself or by what it left.
Close ==
  /\ open
  /\ open' = FALSE
  /\ UNCHANGED <<started, code, output, result>>

Report ==
  /\ code # None
  /\ ~open
  /\ result = None
  /\ result' = [output |-> output, code |-> code]
  /\ UNCHANGED <<started, code, open, output>>

Next ==
  \/ Start
  \/ \E t \in Texts : Write(t)
  \/ \E c \in Codes, left \in BOOLEAN : Exit(c, left)
  \/ Close
  \/ Report

Spec == Init /\ [][Next]_vars
=============================================================================
