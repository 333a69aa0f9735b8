------------------------ MODULE ContainerSessionProofs ------------------------
(***************************************************************************)
(* Every use of a SysCommandWorker, for any exit codes, any amount of      *)
(* output and any number of with blocks: the caller is given what          *)
(* Command promises, and no block leaves its container behind.             *)
(***************************************************************************)
EXTENDS ContainerSession, SequenceTheorems, WellFoundedInduction, NaturalsInduction, TLAPS

\* What was read and what was not are what was written; the end is noticed
\* only when nobody can write any more.
TerminalInv ==
  /\ worker.trace \o unread = written
  /\ worker.ended => worker.started /\ held = {} /\ unread = <<>>
  /\ ~worker.started => held = {} /\ written = <<>>
  /\ "command" \in held => child.state = "running"

\* The process exists from execute() on, and is waited for after the end.
ChildInv ==
  /\ child.state = "none" <=> ~worker.started
  /\ child.code = None <=> child.state \in {"none", "running"}
  /\ child.state = "reaped" => worker.ended
  /\ worker.ended /\ step # "reap" => child.state = "reaped"

StepInv ==
  /\ step = "execute" => ~worker.started
  /\ step \in {"wait", "check", "reap"} => worker.started
  /\ step = "reap" => worker.ended

\* A caller of its own stops polling at the end: poll() after the end would
\* overwrite the exit code.
CallerInv ==
  Plain =>
    /\ child.state = "reaped" => step = "idle" /\ worker.exit_code = child.code
    /\ pc = "call" => step = "idle" /\ ~worker.started
    /\ client \in Dialogues \cup {"detached"} /\ pc = "loop" => step = "idle" /\ ~worker.ended
    /\ client \in Dialogues /\ pc = "answer" => step = "idle" /\ ~worker.ended
    /\ pc = "look" /\ step # "execute" => worker.started
    /\ pc = "leave" => step = "idle" /\ worker.ended
    /\ pc \notin {"returned", "raised"} => result = None

BlockInv ==
  ~Plain => result = None /\ (pc = "call" => step = "idle" /\ ~Running)

IInv == TypeOK /\ TerminalInv /\ ChildInv /\ StepInv /\ CallerInv /\ BlockInv

-----------------------------------------------------------------------------
(* Lemmas about the trace *)

LEMMA LeastElement ==
  ASSUME NEW S \in SUBSET Nat, S # {}
  PROVE  \E m \in S : \A k \in S : m <= k
<1>1. PICK m \in S : \A k \in S : ~(<<k, m>> \in OpToRel(<, Nat))
  BY NatLessThanWellFounded, WFMin, Zenon
<1>2. \A k \in S : ~(k < m)
  BY <1>1, Zenon DEF OpToRel
<1> QED BY <1>2

\* Searching moves the position and nothing else.
LEMMA SearchedFields ==
  ASSUME TypeOK, NEW t
  PROVE  /\ Searched(t) \in [trace : Seq(Texts), pos : Nat, started : BOOLEAN, ended : BOOLEAN,
                             exit_code : ExitCodes \cup {None, 1}]
         /\ Searched(t).trace = worker.trace
         /\ Searched(t).started = worker.started
         /\ Searched(t).ended = worker.ended
         /\ Searched(t).exit_code = worker.exit_code
<1>1. CASE Occurs(t)
  <2> DEFINE i == CHOOSE j \in FoundAt(t) : \A k \in FoundAt(t) : j <= k
  <2>1. FoundAt(t) \in SUBSET Nat /\ FoundAt(t) # {}
    BY <1>1 DEF FoundAt, Occurs, TypeOK
  <2>2. i \in Nat
    BY <2>1, LeastElement
  <2>3. Searched(t) = [worker EXCEPT !.pos = @ + i]
    BY <1>1 DEF Searched
  <2>4. worker \in [trace : Seq(Texts), pos : Nat, started : BOOLEAN, ended : BOOLEAN,
                    exit_code : ExitCodes \cup {None, 1}]
    BY DEF TypeOK
  <2>5. worker.pos + i \in Nat
    BY <2>2, <2>4
  <2> HIDE DEF i
  <2> QED BY <2>3, <2>4, <2>5
<1>2. CASE ~Occurs(t)
  BY <1>2 DEF Searched, TypeOK
<1> QED BY <1>1, <1>2

LEMMA Associative ==
  \A w, a, b \in Seq(Texts) : (w \o a) \o b = w \o (a \o b)
BY ConcatAssociative

\* What is read goes from the unread to the trace.
LEMMA ReadMoves ==
  ASSUME NEW u \in Seq(Texts), NEW w \in Seq(Texts), NEW n \in 1..Len(u)
  PROVE  /\ SubSeq(u, 1, n) \in Seq(Texts) /\ SubSeq(u, n + 1, Len(u)) \in Seq(Texts)
         /\ w \o SubSeq(u, 1, n) \in Seq(Texts)
         /\ (w \o SubSeq(u, 1, n)) \o SubSeq(u, n + 1, Len(u)) = w \o u
<1>1. SubSeq(u, 1, n) \in Seq(Texts)
  BY SubSeqProperties
<1>2. SubSeq(u, n + 1, Len(u)) \in Seq(Texts)
  BY SubSeqProperties
<1>3. SubSeq(u, 1, n) \o SubSeq(u, n + 1, Len(u)) = SubSeq(u, 1, Len(u))
  BY ConcatAdjacentSubSeq
<1>4. SubSeq(u, 1, n) \o SubSeq(u, n + 1, Len(u)) = u
  BY <1>3, SubSeqFull, Zenon
<1>5. w \o SubSeq(u, 1, n) \in Seq(Texts)
  BY <1>1, ConcatProperties
<1> DEFINE front == SubSeq(u, 1, n)
           rest  == SubSeq(u, n + 1, Len(u))
<1>6. (w \o front) \o rest = w \o (front \o rest)
  BY <1>1, <1>2, Associative, Zenon
<1> QED BY <1>1, <1>2, <1>4, <1>5, <1>6, Zenon

\* What is written is unread at first.
LEMMA WriteAppends ==
  ASSUME NEW w \in Seq(Texts), NEW u \in Seq(Texts), NEW t \in Texts
  PROVE  /\ Append(u, t) \in Seq(Texts)
         /\ w \o Append(u, t) = Append(w \o u, t)
<1>1. Append(u, t) \in Seq(Texts)
  BY AppendProperties
<1>2. w \o u \in Seq(Texts)
  BY ConcatProperties
<1>3. <<t>> \in Seq(Texts)
  OBVIOUS
<1>4. Append(u, t) = u \o <<t>> /\ Append(w \o u, t) = (w \o u) \o <<t>>
  BY <1>2, AppendIsConcat
<1> QED BY <1>1, <1>3, <1>4, ConcatAssociative

-----------------------------------------------------------------------------
(* The process *)

\* The process and its helpers change neither the worker nor the caller.
LEMMA WritesInv ==
  ASSUME IInv, World, NEW t \in Texts, ChildWrites(t)
  PROVE  IInv'
<1>1. /\ unread' \in Seq(Texts)
      /\ worker'.trace \o unread' = Append(written, t)
      /\ written' = Append(written, t)
  BY WriteAppends DEF IInv, TypeOK, TerminalInv, ChildWrites, World
<1>2. written' \in Seq(Texts)
  BY <1>1, AppendProperties DEF IInv, TypeOK
<1>3. held # {}
  BY DEF ChildWrites
<1>4. TypeOK'
  BY <1>1, <1>2 DEF IInv, TypeOK, ChildWrites, World
<1>5. TerminalInv'
  BY <1>1, <1>3 DEF IInv, TerminalInv, ChildWrites, World
<1>6. ChildInv' /\ StepInv' /\ CallerInv' /\ BlockInv'
  BY DEF IInv, ChildInv, StepInv, CallerInv, BlockInv, Plain, Running, ChildWrites, World
<1> QED BY <1>4, <1>5, <1>6 DEF IInv

LEMMA AsksInv ==
  ASSUME IInv, World, ChildAsks
  PROVE  IInv'
<1> DEFINE t == Prompts(client)[child.asked + 1]
<1>1. t \in Texts
  BY DEF ChildAsks, Prompts, Texts, IInv, TypeOK
<1>2. written' = Append(written, t) /\ unread' = Append(unread, t)
  BY DEF ChildAsks
<1> HIDE DEF t
<1>3. unread' \in Seq(Texts) /\ worker'.trace \o unread' = written'
  BY <1>1, <1>2, WriteAppends DEF IInv, TypeOK, TerminalInv, World
<1>4. written' \in Seq(Texts)
  BY <1>1, <1>2, AppendProperties DEF IInv, TypeOK
<1>5. /\ child' = [child EXCEPT !.asked = @ + 1, !.asking = TRUE]
      /\ held # {} /\ held' = held /\ input' = input
  BY DEF ChildAsks
<1>6. /\ child'.state = child.state /\ child'.code = child.code
      /\ child' \in [state : {"none", "running", "zombie", "reaped"}, code : ExitCodes \cup {None},
                     asked : Nat, asking : BOOLEAN]
  <2>1. child \in [state : {"none", "running", "zombie", "reaped"}, code : ExitCodes \cup {None},
                   asked : Nat, asking : BOOLEAN]
    BY DEF IInv, TypeOK
  <2>2. child.asked + 1 \in Nat
    BY <2>1
  <2> DEFINE n == child.asked + 1
  <2>3. child' = [[child EXCEPT !.asked = n] EXCEPT !.asking = TRUE]
    BY <1>5
  <2>4. n \in Nat
    BY <2>2
  <2> HIDE DEF n
  <2> QED BY <2>1, <2>3, <2>4
<1>7. TypeOK'
  BY <1>3, <1>4, <1>5, <1>6 DEF IInv, TypeOK, World
<1>8. TerminalInv'
  BY <1>3, <1>5, <1>6 DEF IInv, TerminalInv, World
<1>9. ChildInv' /\ StepInv' /\ CallerInv' /\ BlockInv'
  BY <1>6 DEF IInv, ChildInv, StepInv, CallerInv, BlockInv, Plain, Running, World
<1> QED BY <1>7, <1>8, <1>9 DEF IInv

LEMMA AnsweredInv ==
  ASSUME IInv, World, ChildIsAnswered
  PROVE  IInv'
<1>1. /\ child'.state = child.state /\ child'.code = child.code
      /\ child' \in [state : {"none", "running", "zombie", "reaped"}, code : ExitCodes \cup {None},
                     asked : Nat, asking : BOOLEAN]
  BY DEF IInv, TypeOK, ChildIsAnswered
<1>2. TypeOK'
  BY <1>1 DEF IInv, TypeOK, ChildIsAnswered, World
<1>3. TerminalInv' /\ ChildInv' /\ StepInv' /\ CallerInv' /\ BlockInv'
  BY <1>1 DEF IInv, TerminalInv, ChildInv, StepInv, CallerInv, BlockInv, Plain, Running, ChildIsAnswered, World
<1> QED BY <1>2, <1>3 DEF IInv

\* Who has the terminal open changes; nobody opens it again.
LEMMA HeldInv ==
  ASSUME IInv, World, ChildForks \/ ChildCloses \/ HelperExits
  PROVE  IInv'
<1>1. /\ UNCHANGED <<child, written, unread, input>>
      /\ held' \subseteq {"command", "helper"}
      /\ held = {} => held' = {}
      /\ "command" \in held' => "command" \in held
  BY DEF ChildForks, ChildCloses, HelperExits, IInv, TypeOK
<1>2. TypeOK'
  BY <1>1 DEF IInv, TypeOK, World
<1>3. TerminalInv' /\ ChildInv' /\ StepInv' /\ CallerInv' /\ BlockInv'
  BY <1>1 DEF IInv, TerminalInv, ChildInv, StepInv, CallerInv, BlockInv, Plain, Running, World
<1> QED BY <1>2, <1>3 DEF IInv

LEMMA ExitsInv ==
  ASSUME IInv, World, NEW c \in ExitCodes, ChildExits(c)
  PROVE  IInv'
<1>1. child.state = "running" /\ UNCHANGED <<written, unread, input>>
      /\ held' = held \ {"command"}
  BY DEF ChildExits, Running
<1>2. /\ child'.state = "zombie" /\ child'.code = c
      /\ child' \in [state : {"none", "running", "zombie", "reaped"}, code : ExitCodes \cup {None},
                     asked : Nat, asking : BOOLEAN]
  BY DEF IInv, TypeOK, ChildExits
<1>3. c # None
  BY CommandAssumption
<1>4. TypeOK'
  BY <1>1, <1>2 DEF IInv, TypeOK, World
<1>5. TerminalInv'
  BY <1>1, <1>2 DEF IInv, TerminalInv, ChildInv, World
<1>6. ChildInv' /\ StepInv'
  BY <1>1, <1>2, <1>3 DEF IInv, ChildInv, StepInv, World
<1>7. CallerInv' /\ BlockInv'
  BY <1>1, <1>2 DEF IInv, CallerInv, BlockInv, Plain, Running, World
<1> QED BY <1>4, <1>5, <1>6, <1>7 DEF IInv
-----------------------------------------------------------------------------
(* The worker *)

LEMMA WorkerShape ==
  ASSUME IInv
  PROVE  /\ worker \in [trace : Seq(Texts), pos : Nat, started : BOOLEAN, ended : BOOLEAN,
                        exit_code : ExitCodes \cup {None, 1}]
         /\ child \in [state : {"none", "running", "zombie", "reaped"}, code : ExitCodes \cup {None},
                       asked : Nat, asking : BOOLEAN]
BY DEF IInv, TypeOK

LEMMA ExecuteInv == ASSUME IInv, Execute PROVE IInv'
<1>1. /\ step = "execute" /\ step' = "wait" /\ held' = {"command"}
      /\ worker' = [worker EXCEPT !.started = TRUE]
      /\ child' = [NoChild EXCEPT !.state = "running"]
      /\ UNCHANGED <<written, unread, input, got, client, pc, answered, result>>
  BY DEF Execute
<1>2. /\ worker'.trace = worker.trace /\ worker'.started /\ worker'.ended = worker.ended
      /\ worker'.exit_code = worker.exit_code
      /\ worker' \in [trace : Seq(Texts), pos : Nat, started : BOOLEAN, ended : BOOLEAN,
                      exit_code : ExitCodes \cup {None, 1}]
  BY <1>1, WorkerShape
<1>3. /\ child'.state = "running" /\ child'.code = None
      /\ child' \in [state : {"none", "running", "zombie", "reaped"}, code : ExitCodes \cup {None},
                     asked : Nat, asking : BOOLEAN]
  BY <1>1 DEF NoChild
<1>4. ~worker.started /\ ~worker.ended
  BY <1>1, WorkerShape DEF IInv, StepInv, TerminalInv
<1>5. TypeOK'
  BY <1>1, <1>2, <1>3 DEF IInv, TypeOK
<1>6. TerminalInv' /\ ChildInv' /\ StepInv'
  BY <1>1, <1>2, <1>3, <1>4 DEF IInv, TerminalInv, ChildInv, StepInv
<1>7. CallerInv'
  BY <1>1, <1>2, <1>3, <1>4 DEF IInv, CallerInv, Plain
<1>8. BlockInv'
  BY <1>1 DEF IInv, BlockInv, Plain
<1> QED BY <1>5, <1>6, <1>7, <1>8 DEF IInv

LEMMA ReadInv == ASSUME IInv, Read PROVE IInv'
<1>1. /\ step = "wait" /\ step' = "check" /\ got'
      /\ UNCHANGED <<child, held, written, input, client, pc, answered, result>>
  BY DEF Read
<1>2. PICK n \in 1..Len(unread) :
        /\ worker' = [worker EXCEPT !.trace = worker.trace \o SubSeq(unread, 1, n)]
        /\ unread' = SubSeq(unread, n + 1, Len(unread))
  BY DEF Read
<1>3. unread # <<>>
  BY <1>2
<1> DEFINE trace == worker.trace \o SubSeq(unread, 1, n)
<1>4. trace \in Seq(Texts) /\ unread' \in Seq(Texts) /\ trace \o unread' = worker.trace \o unread
  BY <1>2, ReadMoves, WorkerShape DEF IInv, TypeOK
<1>5. worker' = [worker EXCEPT !.trace = trace]
  BY <1>2
<1> HIDE DEF trace
<1>6. /\ worker'.trace = trace /\ worker'.started = worker.started /\ worker'.ended = worker.ended
      /\ worker'.exit_code = worker.exit_code
      /\ worker' \in [trace : Seq(Texts), pos : Nat, started : BOOLEAN, ended : BOOLEAN,
                      exit_code : ExitCodes \cup {None, 1}]
  BY <1>4, <1>5, WorkerShape
<1>7. TypeOK'
  BY <1>1, <1>4, <1>6 DEF IInv, TypeOK, Read
<1>8. TerminalInv'
  BY <1>1, <1>3, <1>4, <1>6 DEF IInv, TerminalInv
<1>9. ChildInv' /\ StepInv' /\ CallerInv' /\ BlockInv'
  BY <1>1, <1>6 DEF IInv, ChildInv, StepInv, CallerInv, BlockInv, Plain, Running
<1> QED BY <1>7, <1>8, <1>9 DEF IInv

LEMMA HangUpInv == ASSUME IInv, HangUp PROVE IInv'
<1>1. /\ step = "wait" /\ step' = "reap" /\ held = {} /\ unread = <<>>
      /\ worker' = [worker EXCEPT !.ended = TRUE]
      /\ UNCHANGED <<child, held, written, unread, input, got, client, pc, answered, result>>
  BY DEF HangUp
<1>2. /\ worker'.trace = worker.trace /\ worker'.started = worker.started /\ worker'.ended
      /\ worker'.exit_code = worker.exit_code
      /\ worker' \in [trace : Seq(Texts), pos : Nat, started : BOOLEAN, ended : BOOLEAN,
                      exit_code : ExitCodes \cup {None, 1}]
  BY <1>1, WorkerShape
<1>3. TypeOK'
  BY <1>1, <1>2 DEF IInv, TypeOK
<1>4. TerminalInv' /\ ChildInv' /\ StepInv'
  BY <1>1, <1>2 DEF IInv, TerminalInv, ChildInv, StepInv
<1>5. CallerInv' /\ BlockInv'
  BY <1>1, <1>2 DEF IInv, CallerInv, BlockInv, Plain, Running
<1> QED BY <1>3, <1>4, <1>5 DEF IInv

LEMMA TimeOutInv == ASSUME IInv, TimeOut PROVE IInv'
<1>1. /\ step = "wait" /\ step' = "check" /\ got' = FALSE
      /\ UNCHANGED <<child, held, written, unread, input, worker, client, pc, answered, result>>
  BY DEF TimeOut
<1>2. TypeOK'
  BY <1>1 DEF IInv, TypeOK
<1>3. TerminalInv' /\ ChildInv' /\ StepInv' /\ CallerInv' /\ BlockInv'
  BY <1>1 DEF IInv, TerminalInv, ChildInv, StepInv, CallerInv, BlockInv, Plain, Running
<1> QED BY <1>2, <1>3 DEF IInv

\* A process that is not listed was waited for, which ended the worker before.
LEMMA CheckInv == ASSUME IInv, CheckProcess PROVE IInv'
<1>1. step = "check" /\ UNCHANGED <<child, held, written, unread, input, got, client, pc, answered, result>>
  BY DEF CheckProcess
<1>2. CASE worker.ended \/ (~got /\ ~PidExists)
  <2>1. worker.ended
    BY <1>1, <1>2 DEF IInv, TypeOK, ChildInv, StepInv, PidExists
  <2>2. worker' = [worker EXCEPT !.ended = TRUE] /\ step' = "reap"
    BY <1>2 DEF CheckProcess
  <2>3. worker' = worker
    BY <2>1, <2>2, WorkerShape
  <2>4. TypeOK'
    BY <1>1, <2>2, <2>3 DEF IInv, TypeOK
  <2>5. TerminalInv' /\ ChildInv' /\ StepInv' /\ CallerInv' /\ BlockInv'
    BY <1>1, <2>1, <2>2, <2>3 DEF IInv, TerminalInv, ChildInv, StepInv, CallerInv, BlockInv, Plain, Running
  <2> QED BY <2>4, <2>5 DEF IInv
<1>3. CASE ~(worker.ended \/ (~got /\ ~PidExists))
  <2>1. step' = "idle" /\ worker' = worker
    BY <1>3 DEF CheckProcess
  <2>2. TypeOK'
    BY <1>1, <2>1 DEF IInv, TypeOK
  <2>3. TerminalInv' /\ ChildInv' /\ StepInv'
    BY <1>1, <2>1 DEF IInv, TerminalInv, ChildInv, StepInv
  <2>4. CallerInv' /\ BlockInv'
    BY <1>1, <2>1 DEF IInv, CallerInv, BlockInv, Plain, Running
  <2> QED BY <2>2, <2>3, <2>4 DEF IInv
<1> QED BY <1>2, <1>3

LEMMA ReapInv == ASSUME IInv, Reap PROVE IInv'
<1>1. /\ step = "reap" /\ step' = "idle" /\ worker.ended /\ worker.started
      /\ UNCHANGED <<held, written, unread, input, got, client, pc, answered, result>>
  BY DEF Reap, IInv, StepInv
<1>2. CASE child.state = "zombie" /\ worker' = [worker EXCEPT !.exit_code = child.code]
           /\ child' = [child EXCEPT !.state = "reaped"]
  <2>1. /\ child'.state = "reaped" /\ child'.code = child.code
        /\ child' \in [state : {"none", "running", "zombie", "reaped"}, code : ExitCodes \cup {None},
                       asked : Nat, asking : BOOLEAN]
    BY <1>2, WorkerShape
  <2>2. /\ worker'.trace = worker.trace /\ worker'.started = worker.started
        /\ worker'.ended = worker.ended /\ worker'.exit_code = child.code
        /\ worker' \in [trace : Seq(Texts), pos : Nat, started : BOOLEAN, ended : BOOLEAN,
                        exit_code : ExitCodes \cup {None, 1}]
    BY <1>2, WorkerShape
  <2>3. TypeOK'
    BY <1>1, <2>1, <2>2 DEF IInv, TypeOK
  <2>4. TerminalInv' /\ ChildInv' /\ StepInv'
    BY <1>1, <1>2, <2>1, <2>2 DEF IInv, TerminalInv, ChildInv, StepInv
  <2>5. CallerInv' /\ BlockInv'
    BY <1>1, <2>1, <2>2 DEF IInv, CallerInv, BlockInv, Plain, Running
  <2> QED BY <2>3, <2>4, <2>5 DEF IInv
<1>3. CASE child.state = "reaped" /\ worker' = [worker EXCEPT !.exit_code = 1] /\ UNCHANGED child
  <2>1. ~Plain
    BY <1>1, <1>3 DEF IInv, CallerInv
  <2>2. /\ worker'.trace = worker.trace /\ worker'.started = worker.started
        /\ worker'.ended = worker.ended
        /\ worker' \in [trace : Seq(Texts), pos : Nat, started : BOOLEAN, ended : BOOLEAN,
                        exit_code : ExitCodes \cup {None, 1}]
    BY <1>3, WorkerShape
  <2>3. TypeOK'
    BY <1>1, <1>3, <2>2 DEF IInv, TypeOK
  <2>4. TerminalInv' /\ ChildInv' /\ StepInv'
    BY <1>1, <1>3, <2>2 DEF IInv, TerminalInv, ChildInv, StepInv
  <2>5. CallerInv' /\ BlockInv'
    BY <1>1, <1>3, <2>1 DEF IInv, CallerInv, BlockInv, Plain, Running
  <2> QED BY <2>3, <2>4, <2>5 DEF IInv
<1> QED BY <1>2, <1>3 DEF Reap

LEMMA PollInv == ASSUME IInv, PollStep PROVE IInv'
BY ExecuteInv, ReadInv, HangUpInv, TimeOutInv, CheckInv, ReapInv DEF PollStep

-----------------------------------------------------------------------------
(* The callers *)

Places == {"call", "loop", "look", "answer", "leave", "returned", "raised", "missing", "abandoned",
           "enter", "booting", "inside", "leaving", "drain", "drained", "interrupted"}

\* A call of poll(), before the end.
LEMMA CallPollInv ==
  ASSUME IInv, NEW p, NEW q \in Places, CallPoll(p, q),
         p \notin {"returned", "raised"}, q \notin {"call", "leave"},
         Plain => ~worker.ended,
         client \in Dialogues \cup {"detached"} => q # "loop",
         client \in Dialogues => q # "answer"
  PROVE  IInv'
<1>1. /\ step = "idle" /\ pc = p /\ pc' = q
      /\ step' = IF worker.started THEN "wait" ELSE "execute"
      /\ UNCHANGED <<child, held, written, unread, input, worker, got, client, answered, result>>
  BY DEF CallPoll
<1>2. step' \in {"wait", "execute"}
  BY <1>1
<1>3. TypeOK'
  BY <1>1, <1>2 DEF IInv, TypeOK, Places
<1>4. TerminalInv' /\ ChildInv'
  BY <1>1, <1>2 DEF IInv, TerminalInv, ChildInv
<1>5. StepInv'
  BY <1>1 DEF StepInv
<1>6. CallerInv'
  BY <1>1, <1>2 DEF IInv, ChildInv, CallerInv, Plain
<1>7. BlockInv'
  BY <1>1 DEF IInv, BlockInv, Plain
<1> QED BY <1>3, <1>4, <1>5, <1>6, <1>7 DEF IInv

LEMMA PollingInv ==
  ASSUME IInv, CommandPolls \/ DialoguePolls \/ DetachedPolls
  PROVE  IInv'
<1>1. CASE CommandPolls
  <2>1. client = "command" /\ ~worker.ended /\ CallPoll("loop", "loop")
    BY <1>1 DEF CommandPolls
  <2> QED BY <2>1, CallPollInv DEF Dialogues, Places
<1>2. CASE DialoguePolls
  <2>1. client \in Dialogues /\ CallPoll("loop", "look") /\ pc = "loop"
    BY <1>2 DEF DialoguePolls, CallPoll
  <2>2. Plain => ~worker.ended
    BY <2>1 DEF IInv, CallerInv
  <2> QED BY <2>1, <2>2, CallPollInv DEF Dialogues, Places
<1>3. CASE DetachedPolls
  <2>1. client = "detached" /\ CallPoll("loop", "answer") /\ pc = "loop"
    BY <1>3 DEF DetachedPolls, CallPoll
  <2>2. Plain => ~worker.ended
    BY <2>1 DEF IInv, CallerInv
  <2> QED BY <2>1, <2>2, CallPollInv DEF Dialogues, Places
<1> QED BY <1>1, <1>2, <1>3

LEMMA GotoInv ==
  ASSUME IInv, LocateBinary \/ CommandEnds \/ DialogueEnds
  PROVE  IInv'
<1>1. /\ UNCHANGED <<child, held, written, unread, input, worker, step, got, client, answered, result>>
      /\ Plain
      /\ pc' \in {"loop", "missing", "leave"}
      /\ pc' = "loop" => step = "idle" /\ ~worker.started
      /\ pc' = "leave" => step = "idle" /\ worker.ended
      /\ pc \in {"call", "loop", "look"}
  <2>1. CASE LocateBinary
    BY <2>1 DEF LocateBinary, Goto, IInv, CallerInv, Plain
  <2>2. CASE CommandEnds
    BY <2>2 DEF CommandEnds, Goto, Plain
  <2>3. CASE DialogueEnds
    <3>1. client \in Dialogues /\ pc = "look" /\ step = "idle" /\ ~Alive /\ Goto("leave")
      BY <2>3 DEF DialogueEnds
    <3>2. worker.started => worker.ended
      BY <3>1 DEF Alive
    <3>3. worker.started
      BY <3>1 DEF IInv, CallerInv, Plain, Dialogues
    <3> QED BY <3>1, <3>2, <3>3 DEF Goto, Plain, Dialogues
  <2> QED BY <2>1, <2>2, <2>3
<1>2. TypeOK'
  BY <1>1 DEF IInv, TypeOK
<1>3. TerminalInv' /\ ChildInv' /\ StepInv' /\ BlockInv'
  BY <1>1 DEF IInv, TerminalInv, ChildInv, StepInv, BlockInv, Plain
<1>4. CallerInv'
  BY <1>1 DEF IInv, TerminalInv, CallerInv, Plain
<1> QED BY <1>2, <1>3, <1>4 DEF IInv

LEMMA LooksInv == ASSUME IInv, DialogueLooks PROVE IInv'
<1>1. /\ client \in Dialogues /\ pc = "look" /\ step = "idle" /\ ~worker.ended
      /\ pc' \in {"answer", "loop"}
      /\ UNCHANGED <<child, held, written, unread, input, step, got, client, answered, result>>
  BY DEF DialogueLooks, Alive
<1>2. worker' = worker \/ worker' = Searched("passphrase")
  BY DEF DialogueLooks
<1>3. /\ worker'.trace = worker.trace /\ worker'.started = worker.started
      /\ worker'.ended = worker.ended /\ worker'.exit_code = worker.exit_code
      /\ worker' \in [trace : Seq(Texts), pos : Nat, started : BOOLEAN, ended : BOOLEAN,
                      exit_code : ExitCodes \cup {None, 1}]
  BY <1>2, SearchedFields, WorkerShape DEF IInv
<1>4. TypeOK'
  BY <1>1, <1>3 DEF IInv, TypeOK
<1>5. TerminalInv' /\ ChildInv' /\ StepInv'
  BY <1>1, <1>3 DEF IInv, TerminalInv, ChildInv, StepInv
<1>6. CallerInv' /\ BlockInv'
  BY <1>1, <1>3 DEF IInv, CallerInv, BlockInv, Plain, Running
<1> QED BY <1>4, <1>5, <1>6 DEF IInv

LEMMA AnswerInv == ASSUME IInv, Answer PROVE IInv'
<1>1. /\ pc = "answer" /\ step = "idle"
      /\ pc' \in {"abandoned", "loop", "raised"}
      /\ pc' = "loop" => client # "detached"
      /\ input' \in Nat /\ answered' \in Nat
      /\ UNCHANGED <<child, held, written, unread, worker, step, got, client, result>>
  BY DEF Answer, IInv, TypeOK
<1>2. TypeOK'
  BY <1>1 DEF IInv, TypeOK
<1>3. TerminalInv' /\ ChildInv' /\ StepInv' /\ BlockInv'
  BY <1>1 DEF IInv, TerminalInv, ChildInv, StepInv, BlockInv, Plain
<1>4. CallerInv'
  BY <1>1 DEF IInv, CallerInv, Plain
<1> QED BY <1>2, <1>3, <1>4 DEF IInv

LEMMA LeaveInv == ASSUME IInv, Plain, Leave PROVE IInv'
<1>1. /\ pc = "leave" /\ pc' \in {"raised", "returned"}
      /\ UNCHANGED <<child, held, written, unread, input, worker, step, got, client, answered>>
  BY DEF Leave
<1>2. TypeOK'
  BY <1>1 DEF IInv, TypeOK
<1>3. TerminalInv' /\ ChildInv' /\ StepInv' /\ BlockInv'
  BY <1>1 DEF IInv, TerminalInv, ChildInv, StepInv, BlockInv, Plain
<1>4. CallerInv'
  BY <1>1 DEF IInv, CallerInv, Plain
<1> QED BY <1>2, <1>3, <1>4 DEF IInv

LEMMA ChildStepInv ==
  ASSUME IInv, World, ChildStep \/ ContainerStep
  PROVE  IInv'
<1>1. /\ ChildStep => \/ ChildWrites("text") \/ ChildAsks \/ ChildIsAnswered
                      \/ (ChildForks \/ ChildCloses \/ HelperExits)
                      \/ \E c \in ExitCodes : ChildExits(c)
      /\ ContainerStep => \/ ChildWrites("login") \/ ChildWrites("text")
                          \/ \E c \in ExitCodes : ChildExits(c)
  BY DEF ChildStep, ContainerStep
<1>2. "text" \in Texts /\ "login" \in Texts
  BY DEF Texts
<1> QED BY <1>1, <1>2, WritesInv, AsksInv, AnsweredInv, HeldInv, ExitsInv

-----------------------------------------------------------------------------
(* The container *)

\* The steps of Boot that only move on.
LEMMA BootMovesInv ==
  ASSUME IInv, client = "container",
         UNCHANGED <<child, held, written, unread, input, step, got, client, answered, result>>,
         worker' = worker \/ worker' = Searched("login"),
         pc' \in Places \ {"call"}
  PROVE  IInv'
<1>1. /\ worker'.trace = worker.trace /\ worker'.started = worker.started
      /\ worker'.ended = worker.ended /\ worker'.exit_code = worker.exit_code
      /\ worker' \in [trace : Seq(Texts), pos : Nat, started : BOOLEAN, ended : BOOLEAN,
                      exit_code : ExitCodes \cup {None, 1}]
  BY SearchedFields, WorkerShape DEF IInv
<1>2. TypeOK'
  BY <1>1 DEF IInv, TypeOK, Places
<1>3. TerminalInv' /\ ChildInv' /\ StepInv'
  BY <1>1 DEF IInv, TerminalInv, ChildInv, StepInv
<1>4. CallerInv' /\ BlockInv'
  BY DEF IInv, CallerInv, BlockInv, Plain
<1> QED BY <1>2, <1>3, <1>4 DEF IInv

\* A container of its own for a block that finds no session.
LEMMA EnterNewInv == ASSUME IInv, NEW path, EnterNew(path) PROVE IInv'
<1>1. /\ client = "container" /\ step = "idle" /\ pc' = "enter"
      /\ child' = NoChild /\ worker' = NewWorker
      /\ held' = {} /\ written' = <<>> /\ unread' = <<>>
      /\ UNCHANGED <<input, step, got, client, answered, result>>
  BY DEF EnterNew, BootStep
<1>2. /\ child'.state = "none" /\ child'.code = None
      /\ child' \in [state : {"none", "running", "zombie", "reaped"}, code : ExitCodes \cup {None},
                     asked : Nat, asking : BOOLEAN]
  BY <1>1 DEF NoChild
<1>3. /\ worker'.trace = <<>> /\ ~worker'.started /\ ~worker'.ended
      /\ worker' \in [trace : Seq(Texts), pos : Nat, started : BOOLEAN, ended : BOOLEAN,
                      exit_code : ExitCodes \cup {None, 1}]
  BY <1>1 DEF NewWorker
<1>4. TypeOK'
  BY <1>1, <1>2, <1>3 DEF IInv, TypeOK
<1>5. worker'.trace \o unread' = written'
  BY <1>1, <1>3, EmptySeq, ConcatEmptySeq
<1>6. TerminalInv' /\ ChildInv' /\ StepInv'
  BY <1>1, <1>2, <1>3, <1>5 DEF TerminalInv, ChildInv, StepInv
<1>7. CallerInv' /\ BlockInv'
  BY <1>1 DEF IInv, CallerInv, BlockInv, Plain
<1> QED BY <1>4, <1>6, <1>7 DEF IInv

\* The worker ended, so the container did.
LEMMA SettleInv == ASSUME IInv, Settle PROVE IInv'
<1>1. /\ client = "container" /\ step = "idle" /\ ~Alive /\ pc' = "call"
      /\ UNCHANGED <<child, held, written, unread, input, worker, step, got, client, answered, result>>
  BY DEF Settle, BootStep
<1>2. child.state # "running"
  BY <1>1 DEF IInv, ChildInv, Alive
<1>3. TypeOK'
  BY <1>1 DEF IInv, TypeOK
<1>4. TerminalInv' /\ ChildInv' /\ StepInv'
  BY <1>1 DEF IInv, TerminalInv, ChildInv, StepInv
<1>5. CallerInv' /\ BlockInv'
  BY <1>1, <1>2 DEF IInv, CallerInv, BlockInv, Plain, Running
<1> QED BY <1>3, <1>4, <1>5 DEF IInv

LEMMA BootInv == ASSUME IInv, BootSteps \/ Interrupt PROVE IInv'
<1>1. ASSUME NEW path \in Paths, EnterOther(path) PROVE IInv'
  <2>1. UNCHANGED vars
    BY <1>1 DEF EnterOther
  <2> QED BY <2>1 DEF vars, IInv, TypeOK, TerminalInv, ChildInv, StepInv, CallerInv, BlockInv, Plain, Running
<1>2. ASSUME NEW path \in Paths, EnterAgain(path) PROVE IInv'
  BY <1>2, BootMovesInv DEF EnterAgain, BootStep, Places
<1>3. CASE AwaitLogin
  <2>1. CallPoll("enter", "booting") /\ ~Plain
    BY <1>3 DEF AwaitLogin, Plain
  <2> QED BY <2>1, CallPollInv DEF Plain, Dialogues, Places
<1>4. CASE Drain
  <2>1. CallPoll("drain", "drained") /\ ~Plain
    BY <1>4 DEF Drain, Plain
  <2> QED BY <2>1, CallPollInv DEF Plain, Dialogues, Places
<1>5. CASE Booted
  <2>1. /\ client = "container"
        /\ worker' = worker \/ worker' = Searched("login")
        /\ pc' \in Places \ {"call"}
        /\ UNCHANGED <<child, held, written, unread, input, step, got, client, answered, result>>
    BY <1>5 DEF Booted, BootStep, Places
  <2> QED BY <2>1, BootMovesInv
<1>6. CASE Body \/ Shutdown \/ DrainOn \/ Interrupt
  <2>1. /\ client = "container" /\ worker' = worker
        /\ pc' \in Places \ {"call"}
        /\ UNCHANGED <<child, held, written, unread, input, step, got, client, answered, result>>
    BY <1>6 DEF Body, Shutdown, DrainOn, Interrupt, BootStep, Places
  <2> QED BY <2>1, BootMovesInv
<1> QED BY <1>1, <1>2, <1>3, <1>4, <1>5, <1>6, EnterNewInv, SettleInv DEF BootSteps

-----------------------------------------------------------------------------
(* The invariant *)

LEMMA InitInv == ContainerInit => IInv
<1> SUFFICES ASSUME Init PROVE IInv
  BY DEF ContainerInit
<1>1. /\ child.state = "none" /\ child.code = None /\ ~worker.started /\ ~worker.ended
      /\ child \in [state : {"none", "running", "zombie", "reaped"}, code : ExitCodes \cup {None},
                    asked : Nat, asking : BOOLEAN]
      /\ worker \in [trace : Seq(Texts), pos : Nat, started : BOOLEAN, ended : BOOLEAN,
                     exit_code : ExitCodes \cup {None, 1}]
      /\ worker.trace = <<>> /\ unread = <<>> /\ written = <<>> /\ held = {} /\ result = None
      /\ step = "idle" /\ pc = "call"
  BY DEF Init, NoChild, NewWorker
<1>2. TypeOK
  BY <1>1 DEF Init, TypeOK
<1>3. worker.trace \o unread = written
  BY <1>1, EmptySeq, ConcatEmptySeq
<1>4. TerminalInv /\ ChildInv /\ StepInv /\ CallerInv /\ BlockInv
  BY <1>1, <1>3 DEF TerminalInv, ChildInv, StepInv, CallerInv, BlockInv, Plain, Running
<1> QED BY <1>2, <1>4 DEF IInv

LEMMA NextInv == ASSUME IInv, [ContainerNext]_allVars PROVE IInv'
<1>1. CASE UNCHANGED allVars
  BY <1>1 DEF allVars, vars, IInv, TypeOK, TerminalInv, ChildInv, StepInv, CallerInv, BlockInv, Plain, Running
<1>2. CASE PollStep
  BY <1>2, PollInv
<1>3. CASE PlainStep
  <2>1. CASE CallerStep /\ Plain
    BY <2>1, PollingInv, GotoInv, LooksInv, AnswerInv, LeaveInv DEF CallerStep
  <2>2. CASE ChildStep /\ World
    BY <2>2, ChildStepInv
  <2> QED BY <1>3, <2>1, <2>2 DEF PlainStep
<1>4. CASE BootSteps \/ Interrupt
  BY <1>4, BootInv
<1>5. CASE ContainerStep /\ World
  BY <1>5, ChildStepInv
<1> QED BY <1>1, <1>2, <1>3, <1>4, <1>5 DEF ContainerNext

LEMMA SpecInv == ContainerSpec => []IInv
BY InitInv, NextInv, PTL DEF ContainerSpec

\* No container runs in the target when a block was left, however it ended: a
\* worker that is not alive was waited for (boot.py, Boot.__exit__).
THEOREM NoContainerIsLeft == ContainerSpec => []BlockLeavesNoContainer
<1>1. IInv => BlockLeavesNoContainer
  BY DEF IInv, BlockInv, BlockLeavesNoContainer, Plain
<1> QED BY <1>1, SpecInv, PTL

-----------------------------------------------------------------------------
(* The refinement of Command *)

LEMMA AbstractInit == ContainerInit => Abstract!Init
<1> SUFFICES ASSUME Init PROVE Abstract!Init
  BY DEF ContainerInit
<1>1. worker.started = FALSE /\ child.code = None /\ held = {} /\ written = <<>> /\ result = None
  BY DEF Init, NewWorker, NoChild
<1> QED BY <1>1 DEF Abstract!Init

\* The variables of Command stay when these do.
LEMMA AbstractStutter ==
  ASSUME UNCHANGED <<client, held, written, result>>,
         worker'.started = worker.started, child'.code = child.code
  PROVE  UNCHANGED Abstract!vars
BY DEF Abstract!vars, Plain

LEMMA AbstractContainer ==
  ASSUME ~Plain, UNCHANGED <<client, result>>
  PROVE  UNCHANGED Abstract!vars
BY DEF Abstract!vars, Plain

LEMMA AbstractExecute ==
  ASSUME IInv, Plain, Execute
  PROVE  Abstract!Start
<1>1. /\ ~worker.started /\ worker'.started = TRUE /\ child'.code = None /\ held' # {}
      /\ UNCHANGED <<client, written, result>>
  BY WorkerShape DEF Execute, NoChild, IInv, StepInv
<1>2. child.code = None
  BY <1>1 DEF IInv, ChildInv
<1> QED BY <1>1, <1>2 DEF Abstract!Start, Plain

LEMMA AbstractWrite ==
  ASSUME Plain, World, NEW t \in Texts, held # {}, written' = Append(written, t), held' = held,
         child'.code = child.code
  PROVE  Abstract!Write(t)
BY DEF Abstract!Write, Plain, World

LEMMA AbstractClose ==
  ASSUME Plain, World, held # {}, held' = {}, UNCHANGED <<child, written>>
  PROVE  Abstract!Close
BY DEF Abstract!Close, Plain, World

LEMMA AbstractExit ==
  ASSUME IInv, Plain, World, NEW c \in ExitCodes, ChildExits(c)
  PROVE  Abstract!Next
<1>1. /\ worker.started /\ child.code = None /\ child'.code = c
      /\ held' # {} => held # {}
      /\ UNCHANGED <<client, written, result, worker>>
  BY WorkerShape DEF ChildExits, Running, World, IInv, ChildInv, TypeOK
<1>2. CASE held' # {}
  BY <1>1, <1>2 DEF Abstract!Next, Abstract!Exit, Plain
<1>3. CASE held' = {}
  BY <1>1, <1>3 DEF Abstract!Next, Abstract!Exit, Plain
<1> QED BY <1>2, <1>3

LEMMA AbstractReport ==
  ASSUME IInv, Plain, Leave
  PROVE  Abstract!Report
<1>1. pc = "leave" /\ worker.ended /\ step = "idle"
  BY DEF Leave, IInv, CallerInv
<1>2. child.state = "reaped" /\ held = {} /\ unread = <<>>
  BY <1>1 DEF IInv, ChildInv, TerminalInv
<1>3. worker.exit_code = child.code /\ child.code # None
  BY <1>2 DEF IInv, CallerInv, ChildInv
<1>4. worker.trace = written
  BY <1>2, ConcatEmptySeq, WorkerShape DEF IInv, TerminalInv
<1>5. result = None /\ result' = [output |-> worker.trace, code |-> worker.exit_code]
  BY <1>1 DEF Leave, IInv, CallerInv
<1>6. UNCHANGED <<client, child, held, written, worker>>
  BY DEF Leave
<1> QED BY <1>2, <1>3, <1>4, <1>5, <1>6 DEF Abstract!Report, Plain

LEMMA AbstractPoll ==
  ASSUME IInv, Plain, PollStep
  PROVE  [Abstract!Next]_Abstract!vars
<1>1. CASE Execute
  BY <1>1, AbstractExecute DEF Abstract!Next
<1>2. CASE Read
  <2>1. worker'.started = worker.started
    BY <1>2, WorkerShape DEF Read
  <2> QED BY <1>2, <2>1, AbstractStutter DEF Read
<1>3. CASE HangUp
  <2>1. worker'.started = worker.started
    BY <1>3, WorkerShape DEF HangUp
  <2> QED BY <1>3, <2>1, AbstractStutter DEF HangUp
<1>4. CASE TimeOut
  BY <1>4, AbstractStutter DEF TimeOut
<1>5. CASE CheckProcess
  <2>1. worker'.started = worker.started
    BY <1>5, WorkerShape DEF CheckProcess
  <2> QED BY <1>5, <2>1, AbstractStutter DEF CheckProcess
<1>6. CASE Reap
  <2>1. worker'.started = worker.started /\ child'.code = child.code
    BY <1>6, WorkerShape DEF Reap
  <2> QED BY <1>6, <2>1, AbstractStutter DEF Reap
<1> QED BY <1>1, <1>2, <1>3, <1>4, <1>5, <1>6 DEF PollStep

LEMMA AbstractCaller ==
  ASSUME IInv, Plain, CallerStep
  PROVE  [Abstract!Next]_Abstract!vars
<1>1. CASE Leave
  BY <1>1, AbstractReport DEF Abstract!Next
<1>2. CASE DialogueLooks
  <2>1. worker'.started = worker.started
    BY <1>2, SearchedFields DEF DialogueLooks, IInv
  <2> QED BY <1>2, <2>1, AbstractStutter DEF DialogueLooks
<1>3. CASE LocateBinary \/ CommandPolls \/ CommandEnds \/ DialoguePolls \/ DialogueEnds
           \/ DetachedPolls \/ Answer
  <2>1. UNCHANGED <<client, child, held, written, worker, result>>
    BY <1>3 DEF LocateBinary, CommandPolls, CommandEnds, DialoguePolls, DialogueEnds, DetachedPolls,
                Answer, Goto, CallPoll
  <2> QED BY <2>1, AbstractStutter
<1> QED BY <1>1, <1>2, <1>3 DEF CallerStep

LEMMA AbstractChild ==
  ASSUME IInv, Plain, World, ChildStep
  PROVE  [Abstract!Next]_Abstract!vars
<1>1. CASE ChildWrites("text")
  <2>1. "text" \in Texts
    BY DEF Texts
  <2>2. Abstract!Write("text")
    BY <1>1, <2>1, AbstractWrite DEF ChildWrites
  <2> QED BY <2>1, <2>2 DEF Abstract!Next
<1>2. CASE ChildAsks
  <2> DEFINE t == Prompts(client)[child.asked + 1]
  <2>1. t \in Texts
    BY <1>2 DEF ChildAsks, Prompts, Texts, IInv, TypeOK
  <2>2. written' = Append(written, t) /\ held' = held /\ held # {}
        /\ child' = [child EXCEPT !.asked = @ + 1, !.asking = TRUE]
    BY <1>2 DEF ChildAsks
  <2> HIDE DEF t
  <2>3. child'.code = child.code
    BY <2>2, WorkerShape
  <2>4. Abstract!Write(t)
    BY <2>1, <2>2, <2>3, AbstractWrite
  <2> QED BY <2>1, <2>4 DEF Abstract!Next
<1>3. CASE ChildIsAnswered
  <2>1. child'.code = child.code
    BY <1>3, WorkerShape DEF ChildIsAnswered
  <2> QED BY <1>3, <2>1, AbstractStutter DEF ChildIsAnswered, World
<1>4. CASE ChildForks
  <2>1. held # {} /\ held' # {} /\ UNCHANGED <<client, child, written, worker, result>>
    BY <1>4 DEF ChildForks, World
  <2> QED BY <2>1 DEF Abstract!vars, Plain
<1>5. CASE ChildCloses \/ HelperExits
  <2>1. held # {} /\ UNCHANGED <<client, child, written, worker, result>>
    BY <1>5 DEF ChildCloses, HelperExits, World
  <2>2. CASE held' = {}
    BY <2>1, <2>2, AbstractClose DEF Abstract!Next
  <2>3. CASE held' # {}
    BY <2>1, <2>3 DEF Abstract!vars, Plain
  <2> QED BY <2>2, <2>3
<1>6. ASSUME NEW c \in ExitCodes, ChildExits(c) PROVE Abstract!Next
  BY <1>6, AbstractExit
<1> QED BY <1>1, <1>2, <1>3, <1>4, <1>5, <1>6 DEF ChildStep

LEMMA AbstractNext ==
  ASSUME IInv, [ContainerNext]_allVars
  PROVE  [Abstract!Next]_Abstract!vars
<1>1. CASE UNCHANGED allVars
  BY <1>1, AbstractStutter DEF allVars, vars
<1>2. CASE Plain /\ ContainerNext
  <2>1. ~(BootSteps \/ Interrupt \/ (ContainerStep /\ World))
    BY <1>2 DEF Plain, BootSteps, EnterOther, EnterAgain, EnterNew, AwaitLogin, Booted, Body, Shutdown,
                Drain, DrainOn, Settle, Interrupt, BootStep, ContainerStep
  <2> QED BY <1>2, <2>1, AbstractPoll, AbstractCaller, AbstractChild DEF ContainerNext, PlainStep
<1>3. CASE ~Plain /\ ContainerNext
  <2>1. UNCHANGED <<client, result>>
    <3>1. CASE PollStep
      BY <3>1 DEF PollStep, Execute, Read, HangUp, TimeOut, CheckProcess, Reap
    <3>2. CASE BootSteps \/ Interrupt
      BY <3>2 DEF BootSteps, EnterOther, EnterAgain, EnterNew, AwaitLogin, Booted, Body, Shutdown,
                  Drain, DrainOn, Settle, Interrupt, CallPoll, vars
    <3>3. CASE ContainerStep /\ World
      BY <3>3 DEF World
    <3> QED BY <1>3, <3>1, <3>2, <3>3 DEF ContainerNext, PlainStep
  <2> QED BY <1>3, <2>1, AbstractContainer
<1> QED BY <1>1, <1>2, <1>3

\* Whoever runs a command and is given a result is given it once, after the end,
\* with everything that was written and the command's own exit code, whatever the
\* process does between the last read, the look at the process list and waitpid()
\* (command.py, SysCommandWorker.poll).
THEOREM WorkerKeepsThePromise == ContainerSpec => Promise
BY AbstractInit, AbstractNext, SpecInv, PTL DEF ContainerSpec, Promise, Abstract!Spec
===============================================================================
