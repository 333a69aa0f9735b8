--------------------------- MODULE CommandWorker ---------------------------
(***************************************************************************)
(* A command on a pseudo terminal: the process that runs, the terminal it  *)
(* writes to, the SysCommandWorker that reads it, and the caller.          *)
(*                                                                         *)
(* Between any two steps of the worker the process goes on: it writes,     *)
(* asks, waits for an answer, leaves a helper behind that keeps the        *)
(* terminal open, and ends.  What it writes is kept in chunks.             *)
(*                                                                         *)
(* The callers are the four ways the program uses a worker: SysCommand,    *)
(* the dialogues of Luks2._add_key and of the two FIDO2 enrolments, and    *)
(* the commands that are answered once and left alone (Luks2.erase and     *)
(* lvm_vol_create).  ContainerSession adds the fifth.                      *)
(***************************************************************************)
EXTENDS Integers, Sequences, SequencesExt

CONSTANTS
  None,
  Clients,     \* who runs the command: a subset of Callers
  ExitCodes,   \* exit codes; 0 is success
  MaxWritten,  \* bound: chunks written to the terminal
  Daemons      \* whether a command may leave a process behind

Callers == {"command", "keyslot", "fido", "u2f", "detached", "container"}

ASSUME CommandAssumption ==
  /\ Clients \subseteq Callers
  /\ 0 \in ExitCodes
  /\ ExitCodes \subseteq Nat
  /\ None \notin ExitCodes
  /\ MaxWritten \in Nat
  /\ Daemons \in BOOLEAN

VARIABLES
  child,     \* the process: [state, code, asked, asking]
  held,      \* who has the terminal open: "command", "helper"
  written,   \* all that was written to the terminal
  unread,    \* what of it was not read yet
  input,     \* answers written to the terminal and not read by the process
  worker,    \* SysCommandWorker: [trace, pos, started, ended, exit_code]
  step,      \* where poll() is: "idle" outside of it
  got,       \* got_output of the current poll()
  client,    \* who runs the command
  pc,        \* where the caller is
  answered,  \* prompts the caller answered
  result     \* what the caller was given

process == <<child, held, written, unread, input>>
vars == <<child, held, written, unread, input, worker, step, got, client, pc, answered, result>>

\* What each caller is ready to be asked, in this order.
Prompts(c) ==
  CASE c = "keyslot" -> <<"passphrase">>
    [] c = "fido"    -> <<"passphrase", "pin">>
    [] c = "u2f"     -> <<"pin">>
    [] OTHER         -> <<>>

Dialogues == {"keyslot", "fido", "u2f"}
Texts == {"text", "passphrase", "pin", "login"}

NoChild == [state |-> "none", code |-> None, asked |-> 0, asking |-> FALSE]
NewWorker == [trace |-> <<>>, pos |-> 0, started |-> FALSE, ended |-> FALSE, exit_code |-> None]

Init ==
  /\ child = NoChild
  /\ held = {}
  /\ written = <<>>
  /\ unread = <<>>
  /\ input = 0
  /\ worker = NewWorker
  /\ step = "idle"
  /\ got = FALSE
  /\ client \in Clients
  /\ pc = "call"
  /\ answered = 0
  /\ result = None

----------------------------------------------------------------------------
(* The process *)

Running == child.state = "running"

\* Written by the process or by what it left behind.
ChildWrites(t) ==
  /\ held # {}
  /\ Running \/ "helper" \in held
  /\ Len(written) < MaxWritten
  /\ written' = Append(written, t)
  /\ unread' = Append(unread, t)
  /\ UNCHANGED <<child, held, input>>

\* The next prompt, for which the process waits.
ChildAsks ==
  /\ Running
  /\ "command" \in held
  /\ ~child.asking
  /\ child.asked < Len(Prompts(client))
  /\ LET t == Prompts(client)[child.asked + 1]
     IN  /\ written' = Append(written, t)
         /\ unread' = Append(unread, t)
  /\ child' = [child EXCEPT !.asked = @ + 1, !.asking = TRUE]
  /\ UNCHANGED <<held, input>>

ChildIsAnswered ==
  /\ Running
  /\ child.asking
  /\ input > 0
  /\ child' = [child EXCEPT !.asking = FALSE]
  /\ input' = input - 1
  /\ UNCHANGED <<held, written, unread>>

\* A process in the background inherits the terminal, gpg-agent for one.
ChildForks ==
  /\ Daemons
  /\ Running
  /\ "command" \in held
  /\ held' = held \cup {"helper"}
  /\ UNCHANGED <<child, written, unread, input>>

ChildCloses ==
  /\ Running
  /\ "command" \in held
  /\ ~child.asking
  /\ held' = held \ {"command"}
  /\ UNCHANGED <<child, written, unread, input>>

\* The process ends, also while it waits for an answer; it stays a zombie.
ChildExits(c) ==
  /\ Running
  /\ child' = [child EXCEPT !.state = "zombie", !.code = c, !.asking = FALSE]
  /\ held' = held \ {"command"}
  /\ UNCHANGED <<written, unread, input>>

HelperExits ==
  /\ "helper" \in held
  /\ held' = held \ {"helper"}
  /\ UNCHANGED <<child, written, unread, input>>

World == UNCHANGED <<worker, step, got, client, pc, answered, result>>

----------------------------------------------------------------------------
(* SysCommandWorker *)

\* Only what runs is there.
PidExistsWhileRunning == Running

\* _pid_exists: ps lists a process until it was waited for.
PidExists == child.state \in {"running", "zombie"}

\* execute(), called by the first poll().
Execute ==
  /\ step = "execute"
  /\ child' = [NoChild EXCEPT !.state = "running"]
  /\ held' = {"command"}
  /\ worker' = [worker EXCEPT !.started = TRUE]
  /\ step' = "wait"
  /\ UNCHANGED <<written, unread, input, got, client, pc, answered, result>>

\* os.read() returned some of what there is.
Read ==
  /\ step = "wait"
  /\ \E n \in 1..Len(unread) :
       /\ worker' = [worker EXCEPT !.trace = @ \o SubSeq(unread, 1, n)]
       /\ unread' = SubSeq(unread, n + 1, Len(unread))
  /\ got' = TRUE
  /\ step' = "check"
  /\ UNCHANGED <<child, held, written, input, client, pc, answered, result>>

\* os.read() failed: nobody has the terminal open, and all of it was read.
HangUp ==
  /\ step = "wait"
  /\ held = {}
  /\ unread = <<>>
  /\ worker' = [worker EXCEPT !.ended = TRUE]
  /\ step' = "reap"
  /\ UNCHANGED <<child, held, written, unread, input, got, client, pc, answered, result>>

\* The poll object reported nothing for a tenth of a second.
TimeOut ==
  /\ step = "wait"
  /\ held # {}
  /\ unread = <<>>
  /\ got' = FALSE
  /\ step' = "check"
  /\ UNCHANGED <<child, held, written, unread, input, worker, client, pc, answered, result>>

CheckProcess ==
  /\ step = "check"
  /\ IF worker.ended \/ (~got /\ ~PidExists)
     THEN /\ worker' = [worker EXCEPT !.ended = TRUE]
          /\ step' = "reap"
     ELSE /\ step' = "idle"
          /\ UNCHANGED worker
  /\ UNCHANGED <<child, held, written, unread, input, got, client, pc, answered, result>>

\* waitpid() waits for the process to end; one that was waited for before
\* is no child any more, and the exit code is overwritten.
Reap ==
  /\ step = "reap"
  /\ \/ /\ child.state = "zombie"
        /\ worker' = [worker EXCEPT !.exit_code = child.code]
        /\ child' = [child EXCEPT !.state = "reaped"]
     \/ /\ child.state = "reaped"
        /\ worker' = [worker EXCEPT !.exit_code = 1]
        /\ UNCHANGED child
  /\ step' = "idle"
  /\ UNCHANGED <<held, written, unread, input, got, client, pc, answered, result>>

PollStep == Execute \/ Read \/ HangUp \/ TimeOut \/ CheckProcess \/ Reap

\* The caller, at p, calls poll() and goes on at q.
CallPoll(p, q) ==
  /\ step = "idle"
  /\ pc = p
  /\ step' = IF worker.started THEN "wait" ELSE "execute"
  /\ pc' = q
  /\ UNCHANGED <<child, held, written, unread, input, worker, got, client, answered, result>>

\* Silence taken for the end.
AliveWhileWriting == worker.started /\ ~worker.ended /\ got

\* is_alive(), after its poll().
Alive == worker.started /\ ~worker.ended

\* Searched from behind the character at the position.
FoundBehind(t) == {i \in 1..Len(worker.trace) : i > worker.pos + 1 /\ worker.trace[i] = t}

\* __contains__: searched from the position on, which is moved by the index
\* in the whole trace.
FoundAt(t) == {i \in 1..Len(worker.trace) : i > worker.pos /\ worker.trace[i] = t}
Occurs(t) == FoundAt(t) # {}
Searched(t) ==
  IF Occurs(t)
  THEN LET i == CHOOSE j \in FoundAt(t) : \A k \in FoundAt(t) : j <= k
       IN  [worker EXCEPT !.pos = @ + i]
  ELSE worker

----------------------------------------------------------------------------
(* The callers *)

Goto(p) == pc' = p /\ UNCHANGED <<child, held, written, unread, input, worker, step, got, client, answered, result>>

\* The constructor raises RequirementError when the program is not installed.
LocateBinary ==
  /\ pc = "call"
  /\ client # "container"
  /\ \/ Goto("loop")
     \/ Goto("missing")

\* SysCommand.create_session()
CommandPolls == client = "command" /\ ~worker.ended /\ CallPoll("loop", "loop")
CommandEnds == client = "command" /\ pc = "loop" /\ step = "idle" /\ worker.ended /\ Goto("leave")

\* while worker.is_alive(): ...
DialoguePolls == client \in Dialogues /\ CallPoll("loop", "look")

\* The next prompt is looked for in the whole trace, or by _add_key with the
\* search that moves the position, also after it was answered.
DialogueLooks ==
  /\ client \in Dialogues
  /\ pc = "look"
  /\ step = "idle"
  /\ Alive
  /\ LET expected == Prompts(client)[answered + 1]
         due == /\ answered < Len(Prompts(client))
                /\ \/ client = "keyslot" /\ Occurs(expected)
                   \/ client # "keyslot" /\ expected \in Range(worker.trace)
     IN  pc' = IF due THEN "answer" ELSE "loop"
  /\ worker' = IF client = "keyslot" THEN Searched("passphrase") ELSE worker
  /\ UNCHANGED <<child, held, written, unread, input, step, got, client, answered, result>>

DialogueEnds ==
  /\ client \in Dialogues
  /\ pc = "look"
  /\ step = "idle"
  /\ ~Alive
  /\ Goto("leave")

\* Answered after one poll(), whatever it found.
DetachedPolls == client = "detached" /\ CallPoll("loop", "answer")

\* write(): the terminal refuses it when nobody has it open any more.
Answer ==
  /\ pc = "answer"
  /\ step = "idle"
  /\ \/ /\ held # {}
        /\ input' = input + 1
        /\ answered' = answered + 1
        /\ pc' = IF client = "detached" THEN "abandoned" ELSE "loop"
     \/ /\ held = {}
        /\ pc' = "raised"
        /\ UNCHANGED <<input, answered>>
  /\ UNCHANGED <<child, held, written, unread, worker, step, got, client, result>>

\* __exit__() and _add_key() raise when the command failed, the enrolment of
\* a token goes on, and that of a login takes the last line of the output.
Leave ==
  /\ pc = "leave"
  /\ result' = [output |-> worker.trace, code |-> worker.exit_code]
  /\ LET fails == CASE client = "fido" -> FALSE
                    [] client = "u2f"  -> worker.trace = <<>>
                    [] OTHER           -> worker.exit_code # 0
     IN  pc' = IF fails THEN "raised" ELSE "returned"
  /\ UNCHANGED <<child, held, written, unread, input, worker, step, got, client, answered>>

CallerStep ==
  \/ LocateBinary
  \/ CommandPolls \/ CommandEnds
  \/ DialoguePolls \/ DialogueLooks \/ DialogueEnds
  \/ DetachedPolls \/ Answer
  \/ Leave

ChildStep ==
  \/ ChildWrites("text")
  \/ ChildAsks
  \/ ChildIsAnswered
  \/ ChildForks
  \/ ChildCloses
  \/ \E c \in ExitCodes : ChildExits(c)
  \/ HelperExits

Next ==
  \/ PollStep
  \/ CallerStep
  \/ ChildStep /\ World

\* The program is never kept from going on, a process that waits reads its
\* answer, and one that does not wait ends at some time.  A process in the
\* background need not end.
Fairness ==
  /\ WF_vars(PollStep)
  /\ WF_vars(CallerStep)
  /\ WF_vars(ChildIsAnswered /\ World)
  /\ WF_vars(~child.asking /\ \E c \in ExitCodes : ChildExits(c) /\ World)

Spec == Init /\ [][Next]_vars /\ Fairness

----------------------------------------------------------------------------
(* Properties *)

TypeOK ==
  /\ child \in [state : {"none", "running", "zombie", "reaped"}, code : ExitCodes \cup {None},
                asked : Nat, asking : BOOLEAN]
  /\ held \subseteq {"command", "helper"}
  /\ written \in Seq(Texts)
  /\ unread \in Seq(Texts)
  /\ input \in Nat
  /\ worker \in [trace : Seq(Texts), pos : Nat, started : BOOLEAN, ended : BOOLEAN,
                 exit_code : ExitCodes \cup {None, 1}]
  /\ step \in {"idle", "execute", "wait", "check", "reap"}
  /\ got \in BOOLEAN
  /\ client \in Clients
  /\ pc \in {"call", "loop", "look", "answer", "leave", "returned", "raised", "missing", "abandoned",
             "enter", "booting", "inside", "leaving", "drain", "drained", "interrupted"}
  /\ answered \in Nat

\* A caller of this module; the container's sessions are polled again after
\* their end and are left out of the promise.
Plain == client # "container"

Abstract == INSTANCE Command WITH
  Codes <- ExitCodes,
  started <- Plain /\ worker.started,
  code <- IF Plain THEN child.code ELSE None,
  open <- Plain /\ held # {},
  output <- IF Plain THEN written ELSE <<>>,
  result <- result

\* A caller that is given a result is given it once, after the end, with all
\* that was written and the exit code of the process: no chunk is lost between
\* the last read, the look at the process list and waitpid(), whatever the
\* process does in between.
Promise == Abstract!Spec

Finished == pc \in {"returned", "raised", "missing", "abandoned"}

\* The caller and the process never wait for one another: every process ends,
\* each prompt being found and answered, and when nobody has the terminal open
\* any more the caller goes on.
CommandsEnd ==
  /\ (Plain /\ Running) ~> ~Running
  /\ (Plain /\ child.state = "zombie" /\ held = {}) ~> Finished

=============================================================================
