--------------------------- MODULE ScriptPipeline ---------------------------
(***************************************************************************)
(* How a script travels from the Execute button to the Lua state.          *)
(*                                                                         *)
(*   UI thread        Functions.Inject polls for the pipe, LuaPipe starts  *)
(*                    one client thread per click (NamePipes.cs)           *)
(*   client threads   connect, write the script, close                     *)
(*   listener thread  executor_main: one pipe instance, reads until the    *)
(*                    client closes, queues the text (main.cpp)            *)
(*   scheduler thread initialize_scheduler2: polls the queue, compiles and *)
(*                    resumes the front script, pops it (execution.cpp)    *)
(*                                                                         *)
(* The queue is a std::queue shared by the last two threads without a      *)
(* lock.  push() and pop() are therefore split at the points where another *)
(* thread can see, or spoil, the deque's offset and size.                  *)
(***************************************************************************)
EXTENDS Integers, Sequences, FiniteSets, SequencesExt

CONSTANTS Clicks,     \* presses of the Execute button
          Symbols,    \* what scripts consist of
          Script,     \* [Clicks -> Seq(Symbols)], the text box at each press
          NUL,        \* the symbol for a '\0' byte inside a script
          TriesLimit, \* the 10 of Functions.Inject
          MayDie      \* TRUE: executor_main may throw before it has a pipe

Nobody == "nobody"

ASSUME ScriptAssumption == /\ IsFiniteSet(Clicks) /\ Nobody \notin Clicks
                           /\ Script \in [Clicks -> Seq(Symbols)]
                           /\ NUL \in Symbols
                           /\ TriesLimit \in Nat
                           /\ MayDie \in BOOLEAN

VARIABLES
  ui,          \* the UI thread: "idle" or "polling" inside Functions.Inject
  tries,       \* local of Functions.Inject
  client,      \* [Clicks -> state of the click's thread]
  unsent,      \* [Clicks -> symbols the thread has still to write]
  pipe,        \* state of the only pipe instance
  owner,       \* the click whose thread holds the client end
  pipeData,    \* bytes written and not yet read
  listener,    \* program point of executor_main
  WholeScript, \* local of executor_main
  cells,       \* the strings in the blocks of the deque, by position
  off, size,   \* _Myoff and _Mysize of the deque
  pushTmp,     \* size as push() loaded it
  scheduler,   \* program point of initialize_scheduler2
  popTmp,      \* size as pop() loaded it
  delivered,   \* history: scripts passed to execute(), in order
  taken,       \* history: scripts the scheduler took from front()
  raced        \* history: a push() and a pop() have overlapped

uiVars    == <<ui, tries, client, unsent>>
pipeVars  == <<pipe, owner, pipeData>>
queueVars == <<cells, off, size>>
listVars  == <<listener, WholeScript, pushTmp, delivered>>
schedVars == <<scheduler, popTmp, taken>>
vars      == <<uiVars, pipeVars, queueVars, listVars, schedVars, raced>>

Destroyed == <<"destroyed">>      \* what a cell without a string reads as
Text      == Seq(Symbols \ {NUL})

TypeOK ==
  /\ ui \in {"idle", "polling"}
  /\ tries \in 0 .. TriesLimit + 1
  /\ client \in [Clicks -> {"idle", "refused", "connecting", "writing", "done", "failed"}]
  /\ unsent \in [Clicks -> Seq(Symbols)]
  /\ pipe \in {"none", "listening", "connected", "closed", "disconnected"}
  /\ owner \in Clicks \cup {Nobody} /\ pipeData \in Seq(Symbols)
  /\ listener \in {"absent", "starting", "registering", "dead", "connect", "waiting", "reading",
                   "execute", "pushLoad", "pushStore", "disconnect"}
  /\ WholeScript \in Text /\ delivered \in Seq(Text)
  /\ DOMAIN cells \subseteq Nat /\ \A p \in DOMAIN cells : cells[p] \in Text
  /\ off \in Nat /\ size \in Nat /\ pushTmp \in Nat /\ popTmp \in Nat
  /\ scheduler \in {"absent", "poll", "run", "popLoad", "popStore", "popOff"}
  /\ taken \in Seq(Text \cup {Destroyed}) /\ raced \in BOOLEAN

Init ==
  /\ ui = "idle" /\ tries = 0
  /\ client = [c \in Clicks |-> "idle"]
  /\ unsent = Script
  /\ pipe = "none" /\ owner = Nobody /\ pipeData = <<>>
  /\ listener = "absent" /\ WholeScript = <<>> /\ pushTmp = 0 /\ delivered = <<>>
  /\ cells = <<>> /\ off = 0 /\ size = 0
  /\ scheduler = "absent" /\ popTmp = 0 /\ taken = <<>>
  /\ raced = FALSE

-----------------------------------------------------------------------------
(* The UI thread. *)

\* WaitNamedPipe succeeds, or fails with another error than "not found", as
\* soon as the server has created an instance.
NamedPipeExist == pipe # "none"

\* Functions.Inject up to its polling loop: both libraries load, and
\* DllMain starts executor_main on a thread of its own.
Inject ==
  /\ ui = "idle" /\ ~NamedPipeExist /\ listener = "absent"
  /\ ui' = "polling" /\ tries' = 0
  /\ listener' = "starting"
  /\ UNCHANGED <<client, unsent, pipeVars, queueVars, WholeScript, pushTmp,
                 delivered, schedVars, raced>>

\* while (!NamedPipeExist(..) || tries > 10) { tries++; Sleep(100); }
PollAgain == ~NamedPipeExist \/ tries > TriesLimit

Poll ==
  /\ ui = "polling"
  /\ IF PollAgain
       THEN /\ tries' = IF tries > TriesLimit THEN tries ELSE tries + 1
            /\ ui' = ui
       ELSE ui' = "idle" /\ tries' = tries
  /\ UNCHANGED <<client, unsent, pipeVars, queueVars, listVars, schedVars, raced>>

\* LuaPipe on the UI thread: refuse, or start the click's thread.
LuaPipe(c) ==
  /\ ui = "idle" /\ client[c] = "idle"
  /\ client' = [client EXCEPT ![c] = IF NamedPipeExist THEN "connecting" ELSE "refused"]
  /\ UNCHANGED <<ui, tries, unsent, pipeVars, queueVars, listVars, schedVars, raced>>

-----------------------------------------------------------------------------
(* A click's thread: Connect(), Write(script), Dispose(). *)

Connect(c) ==
  /\ client[c] = "connecting" /\ pipe = "listening"
  /\ client' = [client EXCEPT ![c] = "writing"]
  /\ pipe' = "connected" /\ owner' = c
  /\ UNCHANGED <<ui, tries, unsent, pipeData, queueVars, listVars, schedVars, raced>>

\* The stream is flushed in one or more writes.
Write(c) ==
  /\ client[c] = "writing" /\ owner = c /\ pipe = "connected"
  /\ \E n \in 1 .. Len(unsent[c]) :
       /\ pipeData' = pipeData \o SubSeq(unsent[c], 1, n)
       /\ unsent' = [unsent EXCEPT ![c] = SubSeq(@, n + 1, Len(@))]
  /\ UNCHANGED <<ui, tries, client, pipe, owner, queueVars, listVars, schedVars, raced>>

Close(c) ==
  /\ client[c] = "writing" /\ owner = c /\ pipe = "connected" /\ unsent[c] = <<>>
  /\ client' = [client EXCEPT ![c] = "done"]
  /\ pipe' = "closed" /\ owner' = Nobody
  /\ UNCHANGED <<ui, tries, unsent, pipeData, queueVars, listVars, schedVars, raced>>

\* The server disconnected first: IOException and a message box, unless
\* nothing was left to write.
Broken(c) ==
  /\ client[c] = "writing" /\ owner # c
  /\ client' = [client EXCEPT ![c] = IF unsent[c] = <<>> THEN "done" ELSE "failed"]
  /\ UNCHANGED <<ui, tries, unsent, pipeVars, queueVars, listVars, schedVars, raced>>

-----------------------------------------------------------------------------
(* The listener thread: executor_main. *)

Cell(p) == IF p \in DOMAIN cells THEN cells[p] ELSE Destroyed

\* initialize_scheduler: set_state, then the scheduler thread is started.
StartScheduler ==
  /\ listener = "starting"
  /\ listener' = "registering" /\ scheduler' = "poll"
  /\ UNCHANGED <<uiVars, pipeVars, queueVars, WholeScript, pushTmp, delivered,
                 popTmp, taken, raced>>

\* set_state finds no job and throws on a detached thread: the process ends.
Die ==
  /\ MayDie /\ listener = "starting"
  /\ listener' = "dead"
  /\ UNCHANGED <<uiVars, pipeVars, queueVars, WholeScript, pushTmp, delivered,
                 schedVars, raced>>

\* push_custom_functions, then CreateNamedPipe with one instance.
CreatePipe ==
  /\ listener = "registering"
  /\ listener' = "connect" /\ pipe' = "listening"
  /\ UNCHANGED <<uiVars, owner, pipeData, queueVars, WholeScript, pushTmp,
                 delivered, schedVars, raced>>

\* ConnectNamedPipe returns FALSE when a client came first, and the code then
\* goes straight to DisconnectNamedPipe.
ConnectNamedPipe ==
  /\ listener = "connect"
  /\ IF pipe \in {"listening", "disconnected"}
       THEN pipe' = "listening" /\ listener' = "waiting"
       ELSE pipe' = pipe /\ listener' = "disconnect"
  /\ UNCHANGED <<uiVars, owner, pipeData, queueVars, WholeScript, pushTmp,
                 delivered, schedVars, raced>>

ClientArrived ==
  /\ listener = "waiting" /\ pipe \in {"connected", "closed"}
  /\ listener' = "reading"
  /\ UNCHANGED <<uiVars, pipeVars, queueVars, WholeScript, pushTmp, delivered,
                 schedVars, raced>>

\* What `WholeScript + buffer` appends: buffer is a char*, so a '\0' read
\* from the pipe ends the chunk.
CString(chunk) ==
  IF NUL \in Range(chunk) THEN SubSeq(chunk, 1, SelectInSeq(chunk, LAMBDA x : x = NUL) - 1)
                          ELSE chunk

\* ReadFile returns any part of what is in the pipe.
ReadFile ==
  /\ listener = "reading"
  /\ \E n \in 1 .. Len(pipeData) :
       /\ WholeScript' = WholeScript \o CString(SubSeq(pipeData, 1, n))
       /\ pipeData' = SubSeq(pipeData, n + 1, Len(pipeData))
  /\ UNCHANGED <<uiVars, pipe, owner, queueVars, listener, pushTmp, delivered,
                 schedVars, raced>>

\* ReadFile fails once the client has closed and the pipe is drained.
EndOfScript ==
  /\ listener = "reading" /\ pipe = "closed" /\ pipeData = <<>>
  /\ listener' = IF WholeScript = <<>> THEN "disconnect" ELSE "execute"
  /\ UNCHANGED <<uiVars, pipeVars, queueVars, WholeScript, pushTmp, delivered,
                 schedVars, raced>>

\* execute(WholeScript): push() constructs the string at _Myoff + _Mysize ...
Execute ==
  /\ listener = "execute"
  /\ cells' = [p \in DOMAIN cells \cup {off + size} |->
                 IF p = off + size THEN WholeScript ELSE cells[p]]
  /\ delivered' = Append(delivered, WholeScript)
  /\ raced' = (raced \/ scheduler \in {"popStore", "popOff"})
  /\ listener' = "pushLoad"
  /\ UNCHANGED <<uiVars, pipeVars, off, size, WholeScript, pushTmp, schedVars>>

\* ... and then increments _Mysize, a load and a store.
PushLoad ==
  /\ listener = "pushLoad"
  /\ pushTmp' = size /\ listener' = "pushStore"
  /\ UNCHANGED <<uiVars, pipeVars, queueVars, WholeScript, delivered, schedVars, raced>>

\* Mutant: WholeScript keeps the last script.
PushStoreKeeps ==
  /\ listener = "pushStore"
  /\ size' = pushTmp + 1 /\ listener' = "disconnect"
  /\ UNCHANGED <<uiVars, pipeVars, cells, off, WholeScript, pushTmp, delivered,
                 schedVars, raced>>

PushStore ==
  /\ listener = "pushStore"
  /\ size' = pushTmp + 1
  /\ WholeScript' = <<>> /\ listener' = "disconnect"
  /\ UNCHANGED <<uiVars, pipeVars, cells, off, pushTmp, delivered, schedVars, raced>>

\* Mutant: the pipe instance is not given back.
DisconnectSkipped ==
  /\ listener = "disconnect" /\ listener' = "connect"
  /\ UNCHANGED <<uiVars, pipeVars, queueVars, WholeScript, pushTmp, delivered,
                 schedVars, raced>>

\* Mutant: a new instance replaces the old one, and takes a client at once.
DisconnectRecreates ==
  /\ listener = "disconnect"
  /\ pipe' = "listening" /\ owner' = Nobody /\ pipeData' = <<>>
  /\ listener' = "connect"
  /\ UNCHANGED <<uiVars, queueVars, WholeScript, pushTmp, delivered, schedVars, raced>>

\* Unread bytes are discarded with the connection.
DisconnectNamedPipe ==
  /\ listener = "disconnect"
  /\ pipe' = "disconnected" /\ owner' = Nobody /\ pipeData' = <<>>
  /\ listener' = "connect"
  /\ UNCHANGED <<uiVars, queueVars, WholeScript, pushTmp, delivered, schedVars, raced>>

-----------------------------------------------------------------------------
(* The scheduler thread: initialize_scheduler2. *)

\* Mutant: the test of empty() is missing.
PollQueueUnchecked ==
  /\ scheduler = "poll" /\ scheduler' = "run"
  /\ UNCHANGED <<uiVars, pipeVars, queueVars, listVars, popTmp, taken, raced>>

PollQueue ==
  /\ scheduler = "poll" /\ size > 0
  /\ scheduler' = "run"
  /\ UNCHANGED <<uiVars, pipeVars, queueVars, listVars, popTmp, taken, raced>>

\* Mutant: back() in the place of front().
RunBack ==
  /\ scheduler = "run"
  /\ taken' = Append(taken, Cell(off + size - 1))
  /\ scheduler' = "popLoad"
  /\ UNCHANGED <<uiVars, pipeVars, queueVars, listVars, popTmp, raced>>

\* Mutant: an exception leaves the loop.
RunAndStop ==
  /\ scheduler = "run"
  /\ taken' = Append(taken, Cell(off))
  /\ scheduler' \in {"popLoad", "absent"}
  /\ UNCHANGED <<uiVars, pipeVars, queueVars, listVars, popTmp, raced>>

\* front(): new thread, pin, compile, resume; a failure of any of them is
\* swallowed and leads to the same pop().
RunFront ==
  /\ scheduler = "run"
  /\ taken' = Append(taken, Cell(off))
  /\ scheduler' = "popLoad"
  /\ UNCHANGED <<uiVars, pipeVars, queueVars, listVars, popTmp, raced>>

\* pop(): destroy the string, decrement _Mysize, advance or reset _Myoff.
PopLoad ==
  /\ scheduler = "popLoad"
  /\ cells' = [p \in DOMAIN cells \ {off} |-> cells[p]]
  /\ popTmp' = size
  /\ raced' = (raced \/ listener \in {"pushLoad", "pushStore"})
  /\ scheduler' = "popStore"
  /\ UNCHANGED <<uiVars, pipeVars, off, size, listVars, taken>>

PopStore ==
  /\ scheduler = "popStore"
  /\ size' = popTmp - 1 /\ scheduler' = "popOff"
  /\ UNCHANGED <<uiVars, pipeVars, cells, off, listVars, popTmp, taken, raced>>

PopOff ==
  /\ scheduler = "popOff"
  /\ off' = IF popTmp = 1 THEN 0 ELSE off + 1
  /\ scheduler' = "poll"
  /\ UNCHANGED <<uiVars, pipeVars, cells, size, listVars, popTmp, taken, raced>>

-----------------------------------------------------------------------------
UI        == Inject \/ Poll \/ \E c \in Clicks : LuaPipe(c)
Client(c) == Connect(c) \/ Write(c) \/ Close(c) \/ Broken(c)
Listener  == \/ StartScheduler \/ Die \/ CreatePipe \/ ConnectNamedPipe
             \/ ClientArrived \/ ReadFile \/ EndOfScript \/ Execute
             \/ PushLoad \/ PushStore \/ DisconnectNamedPipe
Scheduler == \/ PollQueue \/ RunFront \/ PopLoad \/ PopStore \/ PopOff

Next == UI \/ (\E c \in Clicks : Client(c)) \/ Listener \/ Scheduler

Spec == Init /\ [][Next]_vars

\* Every thread keeps running: they are operating-system threads, none waits
\* for a lock, and the user may or may not click.
Fairness == /\ WF_vars(Poll) /\ WF_vars(Listener) /\ WF_vars(Scheduler)
            /\ \A c \in Clicks : WF_vars(Client(c))

FairSpec == Spec /\ Fairness

-----------------------------------------------------------------------------
(* Properties. *)

NulFree(c) == NUL \notin Range(Script[c])

\* The listener never mixes bytes of two clients and never queues part of a
\* script: with a single pipe instance and the reset of WholeScript, each
\* queued text without '\0' is one click's whole script, and no click's script
\* is queued twice (which shows when all scripts differ).
WholeScriptsOnly ==
  (\A c \in Clicks : NulFree(c)) =>
     /\ \A i \in DOMAIN delivered : \E c \in Clicks : delivered[i] = Script[c]
     /\ IsInjective(Script) => IsInjective(delivered)

\* What may arrive of a click's script: all of it, or, with a '\0' inside, at
\* least what precedes the first one and nothing that is not in the script.
MayArrive(c, text) ==
  IF NulFree(c) THEN text = Script[c]
  ELSE /\ IsPrefix(CString(Script[c]), text)
       /\ Range(text) \subseteq Range(Script[c]) \ {NUL}

\* Whatever the chunks that ReadFile returned, each queued text is what may
\* arrive of one click's script, never of two, a '\0' in one script costs no
\* other script anything, and no click's script is queued twice.
ScriptsArrive ==
  /\ \A i \in DOMAIN delivered : \E c \in Clicks : MayArrive(c, delivered[i])
  /\ Len(delivered) <= Cardinality({c \in Clicks : client[c] = "done"})

\* The scripts in the deque, front first.
Queued == [i \in 1 .. size |-> Cell(off + i - 1)]

\* As long as no push() has overlapped a pop(), the scheduler takes the queued
\* scripts in order, each once, and the deque holds exactly the rest.
FifoUnlessRaced ==
  ~raced /\ listener # "pushLoad" /\ listener # "pushStore"
         /\ scheduler \notin {"popStore", "popOff"}
     => LET finished == IF scheduler = "popLoad" THEN Front(taken) ELSE taken
        IN  delivered = finished \o Queued

\* A script that its client thread wrote and closed without an error, and that
\* is neither queued nor on its way through pipe and WholeScript.
Lost(c) == /\ client[c] = "done" /\ Script[c] # <<>> /\ NulFree(c)
           /\ Script[c] \notin Range(delivered)
           /\ WholeScript \o pipeData # Script[c]

\* At most one script is lost between a client and the queue, and only one
\* whose client connected between CreateNamedPipe and the first
\* ConnectNamedPipe: every later connection finds the listener waiting.
OneLossAtMost == Cardinality({c \in Clicks : Lost(c)}) <= 1

\* No script reaches the Lua state before the custom functions are registered,
\* although the scheduler thread is started first.
FunctionsFirst == listener \in {"absent", "starting", "registering"} => taken = <<>>

\* A script that was queued is taken by the scheduler, unless a push() and a
\* pop() overlapped.
QueuedScriptsRun ==
  \A c \in Clicks : Script[c] \in Range(delivered) ~> (Script[c] \in Range(taken) \/ raced)

\* A click's thread always comes to an end: the single pipe instance is offered
\* again after every client.
ClientsFinish ==
  \A c \in Clicks : client[c] = "connecting" ~> client[c] \in {"done", "failed"}

\* "Injection Failed! ... or took more time to check if was ready": the attach
\* handler comes back and tells the user, whether the pipe appears or not.
InjectReturns == ui = "polling" ~> ui = "idle"
=============================================================================
