-------------------------- MODULE ContainerSession --------------------------
(***************************************************************************)
(* The temporary boot of the target in a container (class Boot): the fifth *)
(* way to use a SysCommandWorker.  Its session is kept in a class variable *)
(* and polled from two loops, one that waits for the login prompt and one  *)
(* that waits for the end; between them commands run in the container, and *)
(* another command shuts it down.                                          *)
(*                                                                         *)
(* A with block is entered with a path, and several blocks follow one      *)
(* another: Installer.set_keyboard_language, set_x11_keyboard_language and *)
(* what scripts that use the library add.                                  *)
(***************************************************************************)
EXTENDS CommandWorker

CONSTANTS
  Paths,      \* targets
  MaxBlocks   \* bound: with blocks in one run of the program

ASSUME ContainerAssumption == MaxBlocks \in Nat

VARIABLES
  active,   \* Boot._active_boot: [path, ready], or None
  boot,     \* the instance of the current block, or of the last one
  told,     \* whether the container was told to shut down
  blocks    \* blocks entered

containerVars == <<active, boot, told, blocks>>
allVars == <<vars, containerVars>>

ContainerInit ==
  /\ Init
  /\ active = None
  /\ boot = [path |-> None, ready |-> FALSE]
  /\ told = FALSE
  /\ blocks = 0

BootStep(p) ==
  /\ client = "container"
  /\ pc = p
  /\ step = "idle"

\* KeyError: another path is taken, be its session alive or not.
EnterOther(path) ==
  /\ BootStep("call")
  /\ blocks < MaxBlocks
  /\ active # None
  /\ active.path # path
  /\ blocks' = blocks + 1
  /\ UNCHANGED <<vars, active, boot, told>>

\* The session of the class variable, however it ended.
EnterAgain(path) ==
  /\ BootStep("call")
  /\ blocks < MaxBlocks
  /\ active # None
  /\ active.path = path
  /\ boot' = active
  /\ pc' = "enter"
  /\ blocks' = blocks + 1
  /\ UNCHANGED <<child, held, written, unread, input, worker, step, got, client, answered, result, active, told>>

\* A new worker, on a terminal of its own.
EnterNew(path) ==
  /\ BootStep("call")
  /\ blocks < MaxBlocks
  /\ active = None
  /\ boot' = [path |-> path, ready |-> FALSE]
  /\ child' = NoChild
  /\ held' = {}
  /\ written' = <<>>
  /\ unread' = <<>>
  /\ worker' = NewWorker
  /\ pc' = "enter"
  /\ told' = FALSE
  /\ blocks' = blocks + 1
  /\ UNCHANGED <<input, step, got, client, answered, result, active>>

\* while self.session.is_alive(): if b' login:' in self.session
AwaitLogin ==
  /\ client = "container"
  /\ ~boot.ready
  /\ CallPoll("enter", "booting")
  /\ UNCHANGED containerVars

\* The loop ends with the prompt only.
BootedByPromptOnly ==
  /\ \/ BootStep("booting")
     \/ BootStep("enter") /\ boot.ready
  /\ LET login == (pc = "booting") /\ Alive /\ Occurs("login")
         inside == (pc = "enter") \/ login
     IN  /\ worker' = IF login THEN Searched("login") ELSE worker
         /\ boot' = [boot EXCEPT !.ready = @ \/ login]
         /\ active' = IF inside THEN boot' ELSE active
         /\ pc' = IF inside THEN "inside" ELSE "enter"
  /\ UNCHANGED <<child, held, written, unread, input, step, got, client, answered, result, told, blocks>>

\* The loop ends with the prompt or with the session; the block is entered
\* in both cases.
Booted ==
  /\ \/ BootStep("booting")
     \/ BootStep("enter") /\ boot.ready
  /\ LET login == (pc = "booting") /\ Alive /\ Occurs("login")
         inside == (pc = "enter") \/ login \/ ~Alive
     IN  /\ worker' = IF login THEN Searched("login") ELSE worker
         /\ boot' = [boot EXCEPT !.ready = @ \/ login]
         /\ active' = IF inside THEN boot' ELSE active
         /\ pc' = IF inside THEN "inside" ELSE "enter"
  /\ UNCHANGED <<child, held, written, unread, input, step, got, client, answered, result, told, blocks>>

\* The commands of the block succeed or raise; __exit__ follows either way.
Body ==
  /\ BootStep("inside")
  /\ pc' = "leaving"
  /\ UNCHANGED <<child, held, written, unread, input, worker, step, got, client, answered, result, containerVars>>

\* systemd-run ... shutdown now; it may fail, also when the container obeys.
Shutdown ==
  /\ BootStep("leaving")
  /\ told' \in {told, Running}
  /\ pc' = "drain"
  /\ UNCHANGED <<child, held, written, unread, input, worker, step, got, client, answered, result, active, boot, blocks>>

Drain ==
  /\ client = "container"
  /\ CallPoll("drain", "drained")
  /\ UNCHANGED containerVars

DrainOn ==
  /\ BootStep("drained")
  /\ Alive
  /\ pc' = "drain"
  /\ UNCHANGED <<child, held, written, unread, input, worker, step, got, client, answered, result, containerVars>>

\* The class variable is cleared only after a session that ended with 0: a
\* shutdown that succeeded leaves shutdown_exit_code at -1.  Otherwise a
\* SysCallError is raised, which ends the block as well.
Settle ==
  /\ BootStep("drained")
  /\ ~Alive
  /\ active' = IF worker.exit_code = 0 THEN None ELSE active
  /\ pc' = "call"
  /\ UNCHANGED <<child, held, written, unread, input, worker, step, got, client, answered, result, boot, told, blocks>>

\* Ctrl-C inside of one of the two loops leaves the container as it is.
Interrupt ==
  /\ client = "container"
  /\ pc \in {"enter", "booting", "leaving", "drain", "drained"}
  /\ step # "execute"
  /\ pc' = "interrupted"
  /\ UNCHANGED <<child, held, written, unread, input, worker, step, got, client, answered, result, containerVars>>

BootSteps ==
  \/ \E path \in Paths : EnterOther(path) \/ EnterAgain(path) \/ EnterNew(path)
  \/ AwaitLogin \/ Booted
  \/ Body
  \/ Shutdown \/ Drain \/ DrainOn \/ Settle

\* systemd-nspawn: the console shows the login prompt once the system is up.
ContainerStep ==
  /\ client = "container"
  /\ \/ ChildWrites("login")
     \/ (Len(written) + 1 < MaxWritten /\ ChildWrites("text"))
     \/ \E c \in ExitCodes : ChildExits(c)

PlainStep == Plain /\ (CallerStep \/ (ChildStep /\ World))

ContainerNext ==
  \/ (PollStep /\ UNCHANGED containerVars)
  \/ (PlainStep /\ UNCHANGED containerVars)
  \/ BootSteps
  \/ Interrupt
  \/ (ContainerStep /\ World /\ UNCHANGED containerVars)

\* A container that is up shows its prompt, and one that was told to shut
\* down ends.
ContainerFairness ==
  /\ WF_allVars(PollStep /\ UNCHANGED containerVars)
  /\ WF_allVars(Plain /\ CallerStep /\ UNCHANGED containerVars)
  /\ WF_allVars(Plain /\ ChildIsAnswered /\ World /\ UNCHANGED containerVars)
  /\ WF_allVars(Plain /\ ~child.asking /\ (\E c \in ExitCodes : ChildExits(c)) /\ World /\ UNCHANGED containerVars)
  /\ WF_allVars(BootSteps)
  /\ WF_allVars(client = "container" /\ told /\ (\E c \in ExitCodes : ChildExits(c)) /\ World /\ UNCHANGED containerVars)
  /\ WF_allVars(client = "container" /\ ~("login" \in Range(written)) /\ ChildWrites("login") /\ World /\ UNCHANGED containerVars)

ContainerSpec == ContainerInit /\ [][ContainerNext]_allVars /\ ContainerFairness

----------------------------------------------------------------------------
(* Properties *)

\* However a block ends, with an exception of its commands, with a session
\* that died while it booted or in between, or with a shutdown that failed:
\* no container runs in the target when the program goes on to unmount it.
BlockLeavesNoContainer == (client = "container" /\ pc = "call") => ~Running

\* Waiting for the login prompt ends with the prompt or with the session, and
\* a shutdown that reached the container ends the block.
SessionsEnd ==
  /\ (pc = "enter") ~> (pc \in {"inside", "interrupted"})
  /\ (pc = "drain" /\ told) ~> (pc \in {"call", "interrupted"})
=============================================================================
