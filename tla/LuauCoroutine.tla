---------------------------- MODULE LuauCoroutine ----------------------------
(***************************************************************************)
(* Calls, protected calls and coroutines as ldo.cpp, lbaselib.cpp and      *)
(* lcorolib.cpp run them: each thread has its CallInfo array and the       *)
(* counters nCcalls and baseCcalls, while luaD_call, luaD_pcall and        *)
(* lua_resume are C++ calls on the one native stack, `native', whose       *)
(* try blocks catch errors.  A yield leaves that stack and keeps CallInfo, *)
(* so a pcall that was yielded across lives on only as the flag            *)
(* LUA_CALLINFO_HANDLE of its frame and as a continuation.                 *)
(***************************************************************************)
EXTENDS Integers, Sequences, FiniteSets, SequencesExt

CONSTANTS Threads,
          MaxC,        \* LUAI_MAXCCALLS
          HardC,       \* the limit while a stack error is being handled
          MaxFrames    \* bound: frames of one thread that an operation pushes

ASSUME LimitsAssumption == MaxC \in Nat \ {0} /\ HardC \in Nat /\ MaxC < HardC

VARIABLES th, native, signal
vars == <<th, native, signal>>

Top(s) == s[Len(s)]
Frame(f) == [f |-> f, handle |-> FALSE]
Flagged(f) == [f |-> f, handle |-> TRUE]
NoThread == [ci |-> <<>>, status |-> "ok", nC |-> 0, baseC |-> 0,
             active |-> FALSE, fresh |-> FALSE]

\* Records of the native stack.  A luaD_call ends when the frame it flagged with
\* LUA_CALLINFO_RETURN, the top one of x, does.  A pcall keeps what luaD_pcall
\* saved, and once its handler runs (errh), where that handler's frame is.
ResumeRec(co, from) == [k |-> "resume", t |-> co, from |-> from]
CallRec(t, x) == [k |-> "call", t |-> t, at |-> Len(x.ci)]
PcallRec(t, x) == [k |-> "pcall", t |-> t, ci |-> Len(x.ci), nC |-> x.nC,
                   at |-> Len(x.ci), active |-> x.active, errf |-> Top(x.ci).f]
ErrhRec(t, x) == [k |-> "errh", t |-> t, ci |-> Len(x.ci)]
ContRec(t, x, at) == [PcallRec(t, x) EXCEPT !.k = "cont", !.at = at]

Running == Top(native).t
Self == th[Running]
Calm == native # <<>> /\ signal = "none"
Room(x, n) == Len(x.ci) + n <= MaxFrames
Set(t, x) == th' = [th EXCEPT ![t] = x]
Push(x, frames) == [x EXCEPT !.ci = @ \o frames]

-----------------------------------------------------------------------------
(* luaD_call: the counter is raised, then checked. *)

\* Mutant: past the soft limit nothing stops the calls of a handler.
LimitErrorOnce(x) == IF x.nC = MaxC THEN "run" ELSE "none"
LimitError(x) == IF x.nC = MaxC THEN "run"
                 ELSE IF x.nC > MaxC /\ x.nC >= HardC THEN "err" ELSE "none"
Counted(x) == [x EXCEPT !.nC = @ + 1]

\* A Lua function called from Lua bytecode runs in the same luau_execute.
CallLua == /\ Calm /\ Room(Self, 1)
           /\ Set(Running, Push(Self, <<Frame("lua")>>))
           /\ UNCHANGED <<native, signal>>

\* A metamethod is a new luau_execute on the native stack.
CallMeta == /\ Calm /\ Room(Self, 1)
            /\ LET x == Counted(Self) IN
               /\ signal' = LimitError(x)
               /\ IF signal' = "none"
                  THEN /\ Set(Running, Push(x, <<Frame("tm")>>))
                       /\ native' = Append(native, CallRec(Running, Push(x, <<Frame("tm")>>)))
                  ELSE Set(Running, x) /\ UNCHANGED native

-----------------------------------------------------------------------------
(* pcall and xpcall. *)

\* luaB_pcally up to luaD_pcall: the frame is flagged and the thread may
\* yield below the new native call.
Entered(x, f) == [Push(x, <<Flagged(f)>>) EXCEPT !.baseC = @ + 1]

Pcall(f) ==
  /\ Calm /\ Room(Self, 2)
  /\ LET x == Entered(Self, f)
         y == Counted(x)
         z == Push(y, <<Frame("body")>>)
     IN IF LimitError(y) = "none"
        THEN /\ Set(Running, z)
             /\ native' = native \o <<PcallRec(Running, x), CallRec(Running, z)>>
             /\ UNCHANGED signal
        ELSE \* the call fails inside the new try block
             /\ Set(Running, y) /\ signal' = LimitError(y)
             /\ native' = Append(native, PcallRec(Running, x))

\* Mutant: nCcalls is left where the error found it.
PcallFailedKeepsCalls(x, p) ==
  [x EXCEPT !.ci = SubSeq(@, 1, p.at - 1), !.baseC = @ - 1,
            !.active = p.active]
\* luaD_pcall after an error: the counters and the CallInfo as they were, and
\* luaB_pcally returns false.
PcallFailed(x, p) ==
  [x EXCEPT !.nC = p.nC, !.ci = SubSeq(@, 1, p.at - 1), !.baseC = @ - 1,
            !.active = p.active]

\* The same for luaB_xpcallcont, which has no native luaB_xpcally around it.
ContFailed(x, p) ==
  [x EXCEPT !.nC = p.nC, !.ci = SubSeq(@, 1, p.at - 1), !.active = p.active]

-----------------------------------------------------------------------------
(* lua_resume. *)

\* resume_continue: the frames of C functions on top are finished by their
\* continuations, down to a Lua frame.
Continued(x) ==
  [x EXCEPT !.ci = SubSeq(@, 1, SelectLastInSeq(@, LAMBDA fr : fr.f \notin {"pcall", "xpcall"}))]

\* Mutant: the active bit is only cleared for a thread that failed.
FinishedStaysActive(x, status) ==
  [x EXCEPT !.nC = x.baseC - 1, !.active = @ /\ status = "none",
            !.status = IF status = "none" THEN @ ELSE status]
\* resume_finish, and lua_resume's last decrement.
Finished(x, status) ==
  [x EXCEPT !.nC = x.baseC - 1, !.active = FALSE,
            !.status = IF status = "none" THEN @ ELSE status]

\* Control goes back to who resumed: lua_resume returned 0 or yielded, or with
\* an error, which wrap raises again and resume reports.
HandBack(depth, x, status) ==
  LET r == native[depth]
      from == r.from
      again == status # "none" /\ from # r.t /\ Top(th[from].ci).f = "wrap"
      done == Finished(x, status)
  IN /\ native' = SubSeq(native, 1, depth - 1)
     /\ signal' = IF again THEN "run" ELSE "none"
     /\ th' = [t \in Threads |->
                 IF t = r.t THEN done
                 ELSE IF t = from /\ ~again
                 THEN [th[t] EXCEPT !.ci = Front(@)] ELSE th[t]]

\* Mutant: a thread without frames is always in its initial state.
CoStatusNoStack(co) ==
  LET x == th[co]
  IN  IF co = Running THEN "running"
      ELSE IF x.status = "yield" THEN "suspended"
      ELSE IF x.status # "ok" THEN "dead"
      ELSE IF x.ci # <<>> THEN "normal" ELSE "suspended"
\* auxstatus of a thread other than the running one.
CoStatus(co) ==
  LET x == th[co]
  IN  IF co = Running THEN "running"
      ELSE IF x.status = "yield" THEN "suspended"
      ELSE IF x.status # "ok" THEN "dead"
      ELSE IF x.ci # <<>> THEN "normal"
      ELSE IF x.fresh THEN "suspended" ELSE "dead"

\* resume: the body is called, or the frame of yield is popped and the rest
\* goes on.
Started(x, count) ==
  LET y == [x EXCEPT !.nC = count, !.baseC = count, !.active = TRUE,
                     !.status = "ok", !.fresh = FALSE]
  IN  IF x.status = "ok" THEN Push(y, <<Frame("body")>>)
      ELSE Continued([y EXCEPT !.ci = Front(@)])

\* The program enters through a thread it resumes itself (from = NULL).
HostResume ==
  /\ native = <<>>
  /\ \E co \in Threads :
       /\ th[co].status = "yield" \/ (th[co].status = "ok" /\ th[co].fresh)
       /\ Set(co, Started(th[co], 1))
       /\ native' = <<ResumeRec(co, co)>>
  /\ UNCHANGED signal

\* coroutine.resume and a function made by coroutine.wrap.
Refused(co, how, y) ==
  /\ th' = [th EXCEPT ![co] = y,
                      ![Running] = IF how = "wrap"
                                   THEN Push(@, <<Frame(how)>>) ELSE @]
  /\ signal' = IF how = "wrap" THEN "run" ELSE "none"
  /\ UNCHANGED native
Resume(co, how) ==
  /\ Calm /\ Room(Self, 1)
  /\ LET x == th[co] IN
     IF CoStatus(co) # "suspended" THEN Refused(co, how, x)
     ELSE IF Self.nC >= MaxC
     THEN Refused(co, how, [x EXCEPT !.nC = Self.nC, !.fresh = FALSE])
     ELSE /\ th' = [th EXCEPT ![co] = Started(x, Self.nC + 1),
                              ![Running] = Push(@, <<Frame(how)>>)]
          /\ native' = Append(native, ResumeRec(co, Running))
          /\ UNCHANGED signal

\* coroutine.create; a dead thread's place is taken by the new thread.
Create(co) == /\ Calm /\ CoStatus(co) = "dead"
              /\ Set(co, [NoThread EXCEPT !.fresh = TRUE])
              /\ UNCHANGED <<native, signal>>

\* execution.cpp makes a thread for a script while nothing runs.
Load == /\ native = <<>>
        /\ \E t \in Threads :
             /\ th[t].status \in {"run", "err"}
                  \/ (th[t].status = "ok" /\ ~th[t].fresh)
             /\ Set(t, [NoThread EXCEPT !.fresh = TRUE])
        /\ UNCHANGED <<native, signal>>

\* coroutine.close resets a thread that is dead or suspended.
Close(co) == /\ Calm
             /\ IF CoStatus(co) \in {"dead", "suspended"}
                THEN Set(co, NoThread) /\ UNCHANGED signal
                ELSE signal' = "run" /\ UNCHANGED th
             /\ UNCHANGED native

-----------------------------------------------------------------------------
(* Yield, return and error. *)

\* The native calls between the running coroutine and its lua_resume.
Base == CHOOSE i \in DOMAIN native :
          /\ native[i].k = "resume"
          /\ \A j \in DOMAIN native : native[j].k = "resume" => j <= i
OpenPcalls == Cardinality({i \in DOMAIN native :
                             i > Base /\ native[i].k = "pcall"})

\* lua_yield: the mark is -1 and every native call of this coroutine returns,
\* each luaB_pcally lowering baseCcalls.  lua_yield checks the counters with
\* the frame of yield pushed; pcall(coroutine.yield) has both counters raised
\* by one, and lowers them on the way.
Yieldable(x) == x.nC <= x.baseC
Suspended(x) == [x EXCEPT !.status = "yield", !.baseC = @ - OpenPcalls]
Yield ==
  /\ Calm
  /\ \E kind \in {<<>>, <<Flagged("pcall")>>} :
       LET x == Push(Self, kind \o <<Frame("yield")>>) IN
       /\ Room(Self, Len(kind) + 1)
       /\ kind # <<>> => LimitError(Counted(Self)) = "none" /\ Yieldable(Self)
       /\ IF Yieldable(Self)
          THEN HandBack(Base, Suspended(x), "none")
          ELSE Set(Running, x) /\ signal' = "run" /\ UNCHANGED native

\* A Lua frame without LUA_CALLINFO_RETURN goes on in its caller; with it,
\* luau_execute returns to the native call below, or to resume_continue.
Return ==
  /\ Calm
  /\ LET x == [Self EXCEPT !.ci = Front(@)]
         one == [x EXCEPT !.nC = @ - 1]
         n == Len(native)
         k(i) == native[n - i].k
     IN
     \/ /\ Top(Self.ci).f = "lua"
        /\ Set(Running, x) /\ UNCHANGED <<native, signal>>
     \/ /\ Top(Self.ci).f # "lua" /\ k(0) = "call" /\ k(1) \in {"call", "resume"}
        /\ Set(Running, one) /\ native' = Front(native) /\ UNCHANGED signal
     \/ /\ Top(Self.ci).f # "lua" /\ k(0) = "call" /\ k(1) = "pcall"
        /\ Set(Running, [one EXCEPT !.ci = Front(@), !.baseC = @ - 1])
        /\ native' = SubSeq(native, 1, n - 2) /\ UNCHANGED signal
     \/ /\ Top(Self.ci).f # "lua" /\ k(0) = "call" /\ k(1) = "errh"
        /\ Set(Running, PcallFailed(x, native[n - 2]))
        /\ native' = SubSeq(native, 1, n - 3) /\ UNCHANGED signal
     \/ /\ Top(Self.ci).f # "lua" /\ k(0) = "call" /\ k(1) = "cont"
        /\ Set(Running, Continued([one EXCEPT !.ci =
                                     SubSeq(@, 1, native[n - 1].at - 1)]))
        /\ native' = SubSeq(native, 1, n - 2) /\ UNCHANGED signal
     \/ /\ Top(Self.ci).f # "lua" /\ k(0) = "resume"
        /\ LET y == Continued(x)
           IN IF y.ci = <<>> THEN HandBack(n, y, "none")
              ELSE Set(Running, y) /\ UNCHANGED <<native, signal>>

\* error(), or any operation that fails.
Error == Calm /\ signal' = "run" /\ UNCHANGED <<th, native>>

\* The try block that catches: that of luaD_pcall, of its error function, or
\* of lua_resume.
Catcher == CHOOSE i \in DOMAIN native :
             /\ native[i].k # "call"
             /\ \A j \in DOMAIN native : native[j].k # "call" => j <= i

\* luaD_pcall calls the error function of xpcall on top of the stack where the
\* error happened; that call may itself meet the limit.
InPcall(c) ==
  LET p == native[c]
      y == Counted(Self)
      z == Push(y, <<Frame("handler")>>)
  IN /\ signal' = "none"
     /\ IF p.errf = "xpcall" /\ LimitError(y) = "none"
        THEN /\ Set(Running, z)
             /\ native' = SubSeq(native, 1, c) \o <<ErrhRec(Running, Self), CallRec(Running, z)>>
        ELSE /\ Set(Running, PcallFailed(Self, p))
             /\ native' = SubSeq(native, 1, c - 1)

\* The error function failed: error in error handling.
InErrh(c) == /\ signal' = "none"
             /\ Set(Running, PcallFailed(Self, native[c - 1]))
             /\ native' = SubSeq(native, 1, c - 2)
InCont(c) == /\ signal' = "none"
             /\ Set(Running, Continued(ContFailed(Self, native[c])))
             /\ native' = SubSeq(native, 1, c - 1)

\* resume_findhandler and resume_handle.
Handlers(x) == {i \in DOMAIN x.ci : x.ci[i].handle}
\* Mutant: the frame stays flagged while its handler runs.
HandlingKeepsFlag(x, i) == [x EXCEPT !.nC = x.baseC, !.status = "ok"]
Handling(x, i) == [x EXCEPT !.nC = x.baseC, !.status = "ok",
                            !.ci[i].handle = FALSE]
InResume(c) ==
  LET i == CHOOSE i \in Handlers(Self) : \A j \in Handlers(Self) : j <= i
      x == Handling(Self, i)
      y == Counted(x)
      z == Push(y, <<Frame("handler")>>)
  IN IF Handlers(Self) = {} THEN HandBack(c, Self, signal)
     ELSE /\ signal' = "none"
          /\ IF x.ci[i].f = "xpcall" /\ LimitError(y) = "none"
             THEN /\ Set(Running, z)
                  /\ native' = SubSeq(native, 1, c)
                                \o <<ContRec(Running, x, i), CallRec(Running, z)>>
             ELSE /\ Set(Running, Continued([x EXCEPT !.ci =
                                               SubSeq(@, 1, i - 1)]))
                  /\ native' = SubSeq(native, 1, c)

Unwind ==
  /\ native # <<>> /\ signal # "none"
  /\ LET c == Catcher IN
     CASE native[c].k = "pcall"  -> InPcall(c)
       [] native[c].k = "errh"   -> InErrh(c)
       [] native[c].k = "cont"   -> InCont(c)
       [] native[c].k = "resume" -> InResume(c)

Init == th = [t \in Threads |-> NoThread] /\ native = <<>> /\ signal = "none"

Next ==
  \/ Load \/ HostResume \/ CallLua \/ CallMeta
  \/ Pcall("pcall") \/ Pcall("xpcall")
  \/ Yield \/ Return \/ Error \/ Unwind
  \/ \E co \in Threads : \/ Resume(co, "resume") \/ Resume(co, "wrap")
                         \/ Create(co) \/ Close(co)

Spec == Init /\ [][Next]_vars

-----------------------------------------------------------------------------
(* Properties. *)

FrameKinds == {"lua", "body", "tm", "handler", "pcall", "xpcall", "yield", "resume", "wrap"}
FrameType == [f : FrameKinds, handle : BOOLEAN]
ThreadType == [ci : Seq(FrameType), status : {"ok", "yield", "run", "err"},
               nC : 0 .. HardC, baseC : 0 .. HardC, active : BOOLEAN, fresh : BOOLEAN]
RecordType == [k : {"resume"}, t : Threads, from : Threads]
              \cup [k : {"call"}, t : Threads, at : Nat]
              \cup [k : {"pcall", "cont"}, t : Threads, ci : Nat, nC : 0 .. HardC, at : Nat,
                    active : BOOLEAN, errf : FrameKinds]
              \cup [k : {"errh"}, t : Threads, ci : Nat]

\* The parts have their types.
TypeOK ==
  /\ th \in [Threads -> ThreadType]
  /\ native \in Seq(RecordType)
  /\ signal \in {"none", "run", "err"}

Native(t) == {i \in DOMAIN native : native[i].t = t}
LastOf(t) == CHOOSE i \in Native(t) : \A j \in Native(t) : j <= i
Count(n, kinds) == Cardinality({i \in 1 .. n : native[i].k \in kinds})

\* nCcalls is the depth of the native stack where no error is being handled:
\* LUAI_MAXCCALLS bounds the C stack across coroutines, and a limit error or
\* a caught one, a yield or a death leaves no call counted that is gone, and
\* none uncounted.
CountsNativeCalls ==
  \A t \in Threads : Native(t) # {} =>
    LET n == LastOf(t)
        real == Count(n, {"resume", "call"})
    IN /\ th[t].nC >= real
       /\ signal = "none" /\ Count(n, {"errh"}) = 0 => th[t].nC = real

\* The C++ stack never gets deeper than the hard limit.
NativeStackBounded == Count(Len(native), {"resume", "call"}) < HardC

\* The active bit, which tells the collector that a thread may change, is set
\* just for the threads that have a call on the native stack.
ActiveIffOnStack == \A t \in Threads : th[t].active <=> Native(t) # {}

\* What each thread is to a script.
KindsOf(x) == IF x.status \in {"run", "err"} THEN <<>>
              ELSE [i \in 1 .. Len(x.ci) |-> x.ci[i].f]
Life(s, x, t) ==
  IF s # <<>> /\ t = Top(s).t THEN "running"
  ELSE IF x.status = "yield" THEN "suspended"
  ELSE IF x.status # "ok" THEN "dead"
  ELSE IF x.ci # <<>> THEN "normal"
  ELSE IF x.fresh THEN "fresh" ELSE "dead"
Resumer(s, t) ==
  LET starts == {i \in 1 .. Len(s) : s[i].k = "resume" /\ s[i].t = t}
  IN  IF starts = {} THEN t ELSE s[CHOOSE i \in starts : TRUE].from
StackOf(T) == [t \in Threads |-> KindsOf(T[t])]
LifeOf(s, T) == [t \in Threads |-> Life(s, T[t], t)]
ResumerOf(s) == [t \in Threads |-> Resumer(s, t)]

\* The implementation gives scripts the coroutines and protected calls of the
\* abstract module: counters, flags, continuations and unwinding amount to an
\* error that reaches the innermost handler and a yield that only a metamethod
\* or a handler stops.
Abstract == INSTANCE Coroutines WITH
  stack   <- StackOf(th),
  life    <- LifeOf(native, th),
  resumer <- ResumerOf(native),
  raising <- signal # "none"
ImplementsCoroutines == Abstract!Spec
=============================================================================
