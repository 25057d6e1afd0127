------------------------ MODULE ScriptPipelineProofs ------------------------
(***************************************************************************)
(* Theorems about ScriptPipeline, for any number of clicks and any scripts:*)
(* first what holds whatever they are, then what becomes of a script that  *)
(* may hold '\0' bytes, for any cutting of the pipe's bytes into chunks.   *)
(***************************************************************************)
EXTENDS ScriptPipeline, LeastNumber, SequenceTheorems, FiniteSetTheorems

-----------------------------------------------------------------------------
(* Sequences. *)

\* A part of a sequence is a sequence.
LEMMA Part ==
  ASSUME NEW S, NEW s \in Seq(S), NEW m \in 1 .. Len(s) + 1, NEW n \in m - 1 .. Len(s)
  PROVE  /\ SubSeq(s, m, n) \in Seq(S)
         /\ Len(SubSeq(s, m, n)) = n - m + 1
         /\ \A i \in 1 .. n - m + 1 : SubSeq(s, m, n)[i] = s[m + i - 1]
<1>1. \A i \in m .. n : s[i] \in S
  BY ElementOfSeq
<1> QED BY <1>1, SubSeqProperties, LenProperties

\* All but the last element of a sequence.
LEMMA FrontPart ==
  ASSUME NEW S, NEW s \in Seq(S), Len(s) # 0
  PROVE  /\ Front(s) \in Seq(S) /\ Len(Front(s)) = Len(s) - 1
         /\ \A i \in 1 .. Len(s) - 1 : Front(s)[i] = s[i]
<1>1. 1 \in 1 .. Len(s) + 1 /\ Len(s) - 1 \in 1 - 1 .. Len(s) /\ Len(s) \in Nat
  BY LenProperties
<1>2. /\ Front(s) \in Seq(S) /\ Len(Front(s)) = Len(s) - 1 - 1 + 1
      /\ \A i \in 1 .. Len(s) - 1 - 1 + 1 : Front(s)[i] = s[1 + i - 1]
  BY <1>1, Part, Zenon DEF Front
<1> QED BY <1>1, <1>2

\* A sequence cut in two and put together again is itself.
LEMMA CutAndJoin ==
  ASSUME NEW S, NEW s \in Seq(S), NEW n \in 0 .. Len(s)
  PROVE  SubSeq(s, 1, n) \o SubSeq(s, n + 1, Len(s)) = s
<1>1. Len(s) \in Nat
  BY LenProperties
<1>2. 1 \in 1 .. Len(s) + 1 /\ n \in 1 - 1 .. Len(s) /\ Len(s) \in n .. Len(s)
  BY <1>1
<1>3. SubSeq(s, 1, n) \o SubSeq(s, n + 1, Len(s)) = SubSeq(s, 1, Len(s))
  BY <1>2, ConcatAdjacentSubSeq, Zenon
<1> QED BY <1>3, SubSeqFull

\* What a ReadFile contributes to WholeScript has no '\0' in it; without a '\0'
\* in the chunk it is the whole chunk.
LEMMA CStringText ==
  ASSUME NEW chunk \in Seq(Symbols)
  PROVE  /\ CString(chunk) \in Text
         /\ chunk \in Text => CString(chunk) = chunk
<1> DEFINE I == {i \in 1 .. Len(chunk) : chunk[i] = NUL}
<1>0. Len(chunk) \in Nat /\ DOMAIN chunk = 1 .. Len(chunk)
  BY LenProperties
<1>1. CASE NUL \in Range(chunk)
  <2>1. I # {} /\ I \subseteq Nat
    BY <1>0, <1>1 DEF Range
  <2>2. PICK n \in I : \A m \in I : n <= m
    BY <2>1, Least
  <2>3. PICK first \in I : first = Min(I) /\ \A m \in I : first <= m
    <3> HIDE DEF I
    <3> QED BY <2>2 DEF Min
  <2>4. CString(chunk) = SubSeq(chunk, 1, first - 1)
    BY <1>1, <2>1, <2>3 DEF CString, SelectInSeq
  <2>5. first \in 1 .. Len(chunk) /\ chunk[first] = NUL
        /\ \A m \in 1 .. Len(chunk) : chunk[m] = NUL => first <= m
    BY <2>3, Zenon
  <2> DEFINE k == first - 1
  <2>6. k \in 0 .. Len(chunk) /\ \A i \in 1 .. k : i \in 1 .. Len(chunk) /\ chunk[i] # NUL
    <3>1. k \in 0 .. Len(chunk) /\ \A i \in 1 .. k : i \in 1 .. Len(chunk) /\ ~(first <= i)
      BY <2>5, <1>0
    <3> QED BY <3>1, <2>5
  <2>7. \A i \in 1 .. k : chunk[i] \in Symbols \ {NUL}
    BY <2>6, <1>0, ElementOfSeq
  <2>8. SubSeq(chunk, 1, k) \in Seq(Symbols \ {NUL})
    BY <2>6, <2>7, SubSeqProperties
  <2>9. chunk \notin Text
    BY <2>3, ElementOfSeq DEF Text
  <2> QED BY <2>4, <2>8, <2>9 DEF Text
<1>2. CASE NUL \notin Range(chunk)
  <2>1. \A i \in 1 .. Len(chunk) : chunk[i] \in Symbols \ {NUL}
    BY <1>0, <1>2, ElementOfSeq DEF Range
  <2>2. chunk \in Seq(Symbols \ {NUL})
    BY <2>1, <1>0, SubSeqProperties, SubSeqFull
  <2> QED BY <1>2, <2>2 DEF CString, Text
<1> QED BY <1>1, <1>2
-----------------------------------------------------------------------------
(* The invariants. *)

Early    == {"absent", "starting", "registering", "dead"}
AllPlain == \A c \in Clicks : NulFree(c)

\* Where the listener is tells what the pipe and WholeScript can be.
Stages ==
  /\ listener \in Early <=> pipe = "none"
  /\ pipe \in {"none", "listening", "disconnected"} => pipeData = <<>>
  /\ pipe = "disconnected" => listener = "connect"
  /\ listener = "waiting" => pipe # "disconnected"
  /\ pipe = "listening" => listener \in {"connect", "waiting"}
  /\ listener \in {"execute", "pushLoad", "pushStore"} => pipe = "closed" /\ pipeData = <<>>
  /\ listener \notin {"reading", "execute", "pushLoad", "pushStore"} => WholeScript = <<>>

\* Who is at the client end of the pipe.
Ends ==
  /\ pipe = "connected" <=> owner \in Clicks
  /\ owner \in Clicks => client[owner] = "writing"
  /\ \A c \in Clicks : client[c] \in {"idle", "refused", "connecting"} => unsent[c] = Script[c]

\* What the current client has sent, and has still to send, is its script.
Content == WholeScript \o pipeData
Whole ==
  /\ pipeData \in Text /\ \A c \in Clicks : unsent[c] \in Text
  /\ owner \in Clicks => Content \o unsent[owner] = Script[owner]
  /\ pipe = "closed" /\ listener \notin {"pushLoad", "pushStore", "disconnect"} =>
       \E c \in Clicks : /\ client[c] = "done" /\ Content = Script[c]
                         /\ IsInjective(Script) => Script[c] \notin Range(delivered)

\* What was queued comes from clients that are done, once from each.
Queuing ==
  /\ \A i \in DOMAIN delivered :
       \E c \in Clicks : client[c] = "done" /\ delivered[i] = Script[c]
  /\ IsInjective(Script) => IsInjective(delivered)

\* The pops never find the deque empty.
Popping ==
  /\ scheduler \in {"run", "popLoad"} => size > 0
  /\ scheduler = "popStore" => popTmp > 0

\* Nothing is queued while the custom functions are missing.
NothingEarly ==
  listener \in Early => scheduler \in {"absent", "poll"} /\ size = 0 /\ taken = <<>>

\* The deque between the steps of push() and pop(): its first string, how many
\* there are, and how many were taken and destroyed.
Pushing  == listener \in {"pushLoad", "pushStore"}
InPop    == scheduler \in {"popStore", "popOff"}
First    == IF InPop THEN off + 1 ELSE off
Count    == size + (IF Pushing THEN 1 ELSE 0) - (IF scheduler = "popStore" THEN 1 ELSE 0)
Finished == IF scheduler = "popLoad" THEN Len(taken) - 1 ELSE Len(taken)

Fifo ==
  ~raced =>
    /\ ~(Pushing /\ InPop)
    /\ listener = "pushStore" => pushTmp = size
    /\ scheduler = "popStore" => popTmp = size
    /\ scheduler = "popOff" => popTmp = size + 1
    /\ scheduler = "popLoad" => taken # <<>> /\ taken[Len(taken)] = Cell(off)
    /\ Len(delivered) = Finished + Count
    /\ \A i \in 1 .. Finished : taken[i] = delivered[i]
    /\ \A i \in 1 .. Count : Cell(First + i - 1) = delivered[Finished + i]

PipelineInv == /\ TypeOK /\ Popping /\ NothingEarly /\ Stages /\ Ends
               /\ (AllPlain => Whole /\ Queuing)
               /\ Fifo

-----------------------------------------------------------------------------
(* Types. *)

\* The initial state is typed.
LEMMA InitTypes == Init => TypeOK
<1> SUFFICES ASSUME Init PROVE TypeOK
  OBVIOUS
<1>1. <<>> \in Seq(Symbols) /\ <<>> \in Text /\ <<>> \in Seq(Text)
      /\ <<>> \in Seq(Text \cup {Destroyed})
  BY EmptySeq DEF Text
<1>2. DOMAIN cells \subseteq Nat /\ \A p \in DOMAIN cells : cells[p] \in Text
  <2>1. DOMAIN cells = {}
    BY DEF Init
  <2> QED BY <2>1
<1>3. /\ WholeScript \in Text /\ delivered \in Seq(Text) /\ pipeData \in Seq(Symbols)
      /\ taken \in Seq(Text \cup {Destroyed})
  BY <1>1, Zenon DEF Init
<1>4. /\ ui \in {"idle", "polling"} /\ tries \in 0 .. TriesLimit + 1
      /\ client \in [Clicks -> {"idle", "refused", "connecting", "writing", "done", "failed"}]
      /\ unsent \in [Clicks -> Seq(Symbols)]
  BY ScriptAssumption DEF Init
<1>5. off \in Nat /\ size \in Nat /\ pushTmp \in Nat /\ popTmp \in Nat
  BY DEF Init
<1> QED BY <1>2, <1>3, <1>4, <1>5, Zenon DEF Init, TypeOK

\* The UI thread and the clients keep the types.
LEMMA ClientTypes ==
  ASSUME TypeOK, UI \/ \E c \in Clicks : Client(c)
  PROVE  TypeOK'
<1> USE DEF TypeOK, uiVars, pipeVars, queueVars, listVars, schedVars
<1>1. CASE Inject
  BY <1>1, ScriptAssumption DEF Inject
<1>2. CASE Poll
  BY <1>2, ScriptAssumption DEF Poll
<1>3. ASSUME NEW c \in Clicks, LuaPipe(c) PROVE TypeOK'
  BY <1>3 DEF LuaPipe
<1>4. ASSUME NEW c \in Clicks, Connect(c) PROVE TypeOK'
  BY <1>4 DEF Connect
<1>5. ASSUME NEW c \in Clicks, Write(c) PROVE TypeOK'
  <2>1. PICK n \in 1 .. Len(unsent[c]) :
           /\ pipeData' = pipeData \o SubSeq(unsent[c], 1, n)
           /\ unsent' = [unsent EXCEPT ![c] = SubSeq(@, n + 1, Len(@))]
    BY <1>5 DEF Write
  <2>2. unsent[c] \in Seq(Symbols) /\ Len(unsent[c]) \in Nat
    BY LenProperties
  <2>3. SubSeq(unsent[c], 1, n) \in Seq(Symbols)
    BY <2>2, Part
  <2>4. SubSeq(unsent[c], n + 1, Len(unsent[c])) \in Seq(Symbols)
    BY <2>2, Part
  <2>5. pipeData' \in Seq(Symbols)
    BY <2>1, <2>3, ConcatProperties
  <2> QED BY <1>5, <2>1, <2>4, <2>5, SMTT(30) DEF Write
<1>6. ASSUME NEW c \in Clicks, Close(c) PROVE TypeOK'
  BY <1>6 DEF Close
<1>7. ASSUME NEW c \in Clicks, Broken(c) PROVE TypeOK'
  BY <1>7 DEF Broken
<1> QED BY <1>1, <1>2, <1>3, <1>4, <1>5, <1>6, <1>7 DEF UI, Client

\* The listener keeps the types.
LEMMA ListenerTypes ==
  ASSUME TypeOK, Listener
  PROVE  TypeOK'
<1> USE DEF TypeOK, uiVars, pipeVars, queueVars, listVars, schedVars
<1>0. <<>> \in Seq(Symbols) /\ <<>> \in Text
  BY EmptySeq DEF Text
<1>1. CASE StartScheduler
  BY <1>1 DEF StartScheduler
<1>2. CASE Die
  BY <1>2 DEF Die
<1>3. CASE CreatePipe
  BY <1>3 DEF CreatePipe
<1>4. CASE ConnectNamedPipe
  BY <1>4 DEF ConnectNamedPipe
<1>5. CASE ClientArrived
  BY <1>5 DEF ClientArrived
<1>6. CASE ReadFile
  <2>1. PICK n \in 1 .. Len(pipeData) :
           /\ WholeScript' = WholeScript \o CString(SubSeq(pipeData, 1, n))
           /\ pipeData' = SubSeq(pipeData, n + 1, Len(pipeData))
    BY <1>6 DEF ReadFile
  <2>2. Len(pipeData) \in Nat
    BY LenProperties
  <2>3. SubSeq(pipeData, 1, n) \in Seq(Symbols)
    BY <2>2, Part
  <2>4. CString(SubSeq(pipeData, 1, n)) \in Text
    BY <2>3, CStringText
  <2>5. WholeScript' \in Text
    BY <2>1, <2>4, ConcatProperties DEF Text
  <2>6. pipeData' \in Seq(Symbols)
    BY <2>1, <2>2, Part
  <2> QED BY <1>6, <2>5, <2>6 DEF ReadFile
<1>7. CASE EndOfScript
  BY <1>7 DEF EndOfScript
<1>8. CASE Execute
  <2>1. delivered' \in Seq(Text)
    BY <1>8, AppendProperties DEF Execute
  <2>2. DOMAIN cells' \subseteq Nat /\ \A p \in DOMAIN cells' : cells'[p] \in Text
    BY <1>8 DEF Execute
  <2> QED BY <1>8, <2>1, <2>2 DEF Execute
<1>9. CASE PushLoad
  BY <1>9 DEF PushLoad
<1>10. CASE PushStore
  BY <1>0, <1>10 DEF PushStore
<1>11. CASE DisconnectNamedPipe
  BY <1>0, <1>11 DEF DisconnectNamedPipe
<1> QED BY <1>1, <1>2, <1>3, <1>4, <1>5, <1>6, <1>7, <1>8, <1>9, <1>10, <1>11 DEF Listener

\* The scheduler keeps the types: it never pops from an empty deque.
LEMMA SchedulerTypes ==
  ASSUME TypeOK, Popping, Scheduler
  PROVE  TypeOK'
<1> USE DEF TypeOK, uiVars, pipeVars, queueVars, listVars, schedVars
<1>1. CASE PollQueue
  BY <1>1 DEF PollQueue
<1>2. CASE RunFront
  <2>1. Cell(off) \in Text \cup {Destroyed}
    BY DEF Cell
  <2>2. taken' \in Seq(Text \cup {Destroyed})
    BY <1>2, <2>1, AppendProperties DEF RunFront
  <2> QED BY <1>2, <2>2 DEF RunFront
<1>3. CASE PopLoad
  <2>1. DOMAIN cells' \subseteq Nat /\ \A p \in DOMAIN cells' : cells'[p] \in Text
    BY <1>3 DEF PopLoad
  <2> QED BY <1>3, <2>1 DEF PopLoad
<1>4. CASE PopStore
  BY <1>4 DEF PopStore, Popping
<1>5. CASE PopOff
  BY <1>5 DEF PopOff
<1> QED BY <1>1, <1>2, <1>3, <1>4, <1>5 DEF Scheduler

-----------------------------------------------------------------------------
(* The threads' program points. *)

\* Only a pop() that found a string decrements the size.
LEMMA PoppingStep ==
  ASSUME TypeOK, Popping, Next
  PROVE  Popping'
<1> USE DEF TypeOK, Popping, uiVars, pipeVars, queueVars, listVars, schedVars
<1>1. CASE UI \/ \E c \in Clicks : Client(c)
  BY <1>1 DEF UI, Client, Inject, Poll, LuaPipe, Connect, Write, Close, Broken
<1>2. CASE Listener
  BY <1>2 DEF Listener, StartScheduler, Die, CreatePipe, ConnectNamedPipe, ClientArrived,
              ReadFile, EndOfScript, Execute, PushLoad, PushStore, DisconnectNamedPipe
<1>3. CASE Scheduler
  BY <1>3 DEF Scheduler, PollQueue, RunFront, PopLoad, PopStore, PopOff
<1> QED BY <1>1, <1>2, <1>3 DEF Next

\* The scheduler starts first, but finds nothing before the listener has a pipe.
LEMMA EarlyStep ==
  ASSUME TypeOK, NothingEarly, Next
  PROVE  NothingEarly'
<1> USE DEF TypeOK, NothingEarly, Early, uiVars, pipeVars, queueVars, listVars, schedVars
<1>1. CASE UI \/ \E c \in Clicks : Client(c)
  BY <1>1 DEF UI, Client, Inject, Poll, LuaPipe, Connect, Write, Close, Broken
<1>2. CASE Listener
  BY <1>2 DEF Listener, StartScheduler, Die, CreatePipe, ConnectNamedPipe, ClientArrived,
              ReadFile, EndOfScript, Execute, PushLoad, PushStore, DisconnectNamedPipe
<1>3. CASE Scheduler
  BY <1>3 DEF Scheduler, PollQueue, RunFront, PopLoad, PopStore, PopOff
<1> QED BY <1>1, <1>2, <1>3 DEF Next

\* The listener and the pipe stay in step.
LEMMA StagesStep ==
  ASSUME TypeOK, Stages, Ends, Next
  PROVE  Stages'
<1> USE DEF TypeOK, Stages, Ends, Early, uiVars, pipeVars, queueVars, listVars, schedVars
<1>1. CASE UI
  BY <1>1 DEF UI, Inject, Poll, LuaPipe, NamedPipeExist
<1>2. ASSUME NEW c \in Clicks, Client(c) PROVE Stages'
  BY <1>2 DEF Client, Connect, Write, Close, Broken
<1>3. CASE StartScheduler \/ Die \/ CreatePipe \/ ConnectNamedPipe \/ ClientArrived
  BY <1>3 DEF StartScheduler, Die, CreatePipe, ConnectNamedPipe, ClientArrived
<1>4. CASE ReadFile
  <2>1. pipeData # <<>>
    BY <1>4 DEF ReadFile
  <2> QED BY <1>4, <2>1 DEF ReadFile
<1>5. CASE EndOfScript \/ Execute \/ PushLoad \/ PushStore \/ DisconnectNamedPipe
  BY <1>5 DEF EndOfScript, Execute, PushLoad, PushStore, DisconnectNamedPipe
<1>6. CASE Scheduler
  BY <1>6 DEF Scheduler, PollQueue, RunFront, PopLoad, PopStore, PopOff
<1> QED BY <1>1, <1>2, <1>3, <1>4, <1>5, <1>6 DEF Next, Listener

\* One client at a time is connected.
LEMMA EndsStep ==
  ASSUME TypeOK, Stages, Ends, Next
  PROVE  Ends'
<1> USE ScriptAssumption DEF TypeOK, Stages, Ends, Early, uiVars, pipeVars, queueVars, listVars,
                             schedVars
<1>1. CASE UI
  BY <1>1 DEF UI, Inject, Poll, LuaPipe
<1>2. ASSUME NEW c \in Clicks, Client(c) PROVE Ends'
  BY <1>2, ZenonT(60) DEF Client, Connect, Write, Close, Broken
<1>3. CASE Listener
  BY <1>3 DEF Listener, StartScheduler, Die, CreatePipe, ConnectNamedPipe, ClientArrived,
              ReadFile, EndOfScript, Execute, PushLoad, PushStore, DisconnectNamedPipe
<1>4. CASE Scheduler
  BY <1>4 DEF Scheduler, PollQueue, RunFront, PopLoad, PopStore, PopOff
<1> QED BY <1>1, <1>2, <1>3, <1>4 DEF Next

-----------------------------------------------------------------------------
(* Whole scripts. *)

\* Concatenation of texts is associative.
LEMMA TextAssociative ==
  ASSUME NEW a \in Text, NEW b \in Text, NEW c \in Text
  PROVE  (a \o b) \o c = a \o (b \o c)
BY SMT DEF Text

\* The clients keep scripts whole.
LEMMA ClientWhole ==
  ASSUME TypeOK, Stages, Ends, Whole, Queuing, NEW c \in Clicks, Client(c)
  PROVE  Whole'
<1> USE DEF uiVars, pipeVars, queueVars, listVars, schedVars
<1>0. WholeScript \in Text /\ pipeData \in Text /\ unsent[c] \in Text /\ Len(unsent[c]) \in Nat
  BY LenProperties DEF TypeOK, Whole, Text
<1>1. CASE Connect(c)
  <2>1. WholeScript = <<>> /\ pipeData = <<>> /\ unsent[c] = Script[c]
    BY <1>1 DEF Connect, Stages, Ends
  <2>2. Content' \o unsent'[c] = Script[c]
    <3>1. Content' = <<>> \o <<>>
      BY <1>1, <2>1 DEF Connect, Content
    <3>2. <<>> \o <<>> = <<>> /\ <<>> \o Script[c] = Script[c]
      BY EmptySeq, ConcatEmptySeq, ScriptAssumption
    <3> QED BY <1>1, <2>1, <3>1, <3>2 DEF Connect
  <2> QED BY <1>1, <2>2 DEF Connect, Whole
<1>2. CASE Write(c)
  <2>1. PICK n \in 1 .. Len(unsent[c]) :
           /\ pipeData' = pipeData \o SubSeq(unsent[c], 1, n)
           /\ unsent' = [unsent EXCEPT ![c] = SubSeq(@, n + 1, Len(@))]
    BY <1>2 DEF Write
  <2> DEFINE sent == SubSeq(unsent[c], 1, n)
             rest == SubSeq(unsent[c], n + 1, Len(unsent[c]))
  <2>2. sent \in Text /\ rest \in Text
    BY <1>0, Part DEF Text
  <2>3. sent \o rest = unsent[c]
    BY <1>0, CutAndJoin DEF Text
  <2>4. unsent' = [unsent EXCEPT ![c] = rest] /\ unsent \in [Clicks -> Seq(Symbols)]
    BY <2>1 DEF TypeOK
  <2> HIDE DEF sent, rest
  <2>5. pipeData' = pipeData \o sent /\ pipeData' \in Text
    BY <1>0, <2>1, <2>2, ConcatProperties DEF Text, sent
  <2>6. Content' \o unsent'[c] = Content \o unsent[c]
    <3>1. Content' = WholeScript \o (pipeData \o sent)
      BY <1>2, <2>5 DEF Write, Content
    <3>2. Content' = Content \o sent
      BY <1>0, <2>2, <3>1, TextAssociative, Zenon DEF Content
    <3>3. Content \in Text
      BY <1>0, ConcatProperties DEF Content, Text
    <3>4. (Content \o sent) \o rest = Content \o (sent \o rest)
      BY <2>2, <3>3, TextAssociative, Zenon
    <3> QED BY <2>3, <2>4, <3>2, <3>4
  <2>7. owner = c /\ owner' = c /\ pipe' = "connected"
    BY <1>2 DEF Write
  <2> QED BY <2>2, <2>4, <2>5, <2>6, <2>7 DEF Whole
<1>3. CASE Close(c)
  <2>1. owner = c /\ client[c] = "writing" /\ unsent[c] = <<>>
        /\ client' = [client EXCEPT ![c] = "done"]
        /\ UNCHANGED <<unsent, pipeData, WholeScript, delivered>> /\ owner' = Nobody
    BY <1>3 DEF Close
  <2>2. Content = Script[c]
    <3>1. Content \in Text
      BY <1>0, ConcatProperties DEF Content, Text
    <3>2. Content \o <<>> = Content
      BY <3>1, ConcatEmptySeq DEF Text
    <3> QED BY <2>1, <3>2 DEF Whole
  <2>3. IsInjective(Script) => Script[c] \notin Range(delivered)
    <3> SUFFICES ASSUME IsInjective(Script), NEW i \in DOMAIN delivered, delivered[i] = Script[c]
                 PROVE  FALSE
      BY DEF Range
    <3>1. PICK d \in Clicks : client[d] = "done" /\ delivered[i] = Script[d]
      BY DEF Queuing
    <3>2. d = c
      BY <3>1, ScriptAssumption DEF IsInjective
    <3> QED BY <2>1, <3>1, <3>2
  <2>4. client'[c] = "done" /\ Content' = Script[c]
    BY <2>1, <2>2 DEF Content, TypeOK
  <2> QED BY <2>1, <2>3, <2>4, ScriptAssumption DEF Whole
<1>4. CASE Broken(c)
  <2>1. \A d \in Clicks : client[d] = "done" => client'[d] = "done"
    BY <1>4 DEF Broken, TypeOK
  <2> QED BY <1>4, <2>1 DEF Broken, Whole, Content
<1> QED BY <1>1, <1>2, <1>3, <1>4 DEF Client

\* The listener keeps scripts whole.
LEMMA ListenerWhole ==
  ASSUME TypeOK, Stages, Ends, Whole, Listener
  PROVE  Whole'
<1> USE DEF uiVars, pipeVars, queueVars, listVars, schedVars
<1>1. CASE StartScheduler \/ Die \/ CreatePipe
  BY <1>1 DEF StartScheduler, Die, CreatePipe, Whole, Content, Stages, Early
<1>2. CASE ConnectNamedPipe \/ ClientArrived
  BY <1>2 DEF ConnectNamedPipe, ClientArrived, Whole, Content, Stages
<1>3. CASE ReadFile
  <2>1. PICK n \in 1 .. Len(pipeData) :
           /\ WholeScript' = WholeScript \o CString(SubSeq(pipeData, 1, n))
           /\ pipeData' = SubSeq(pipeData, n + 1, Len(pipeData))
    BY <1>3 DEF ReadFile
  <2>2. WholeScript \in Text /\ pipeData \in Text /\ Len(pipeData) \in Nat
    BY LenProperties DEF TypeOK, Whole, Text
  <2> DEFINE chunk == SubSeq(pipeData, 1, n)
             rest  == SubSeq(pipeData, n + 1, Len(pipeData))
  <2>3. chunk \in Text /\ rest \in Text /\ chunk \in Seq(Symbols)
    BY <2>2, Part DEF Text, TypeOK
  <2>4. chunk \o rest = pipeData
    BY <2>2, CutAndJoin DEF Text
  <2>5. WholeScript' = WholeScript \o chunk /\ pipeData' = rest
    BY <2>1, <2>3, CStringText
  <2> HIDE DEF chunk, rest
  <2>6. Content' = Content
    <3>1. Content' = (WholeScript \o chunk) \o rest
      BY <2>5 DEF Content
    <3> QED BY <2>2, <2>3, <2>4, <3>1, TextAssociative, Zenon DEF Content
  <2>7. UNCHANGED <<client, unsent, pipe, owner, delivered>> /\ listener = "reading"
    BY <1>3 DEF ReadFile
  <2> QED BY <2>3, <2>5, <2>6, <2>7 DEF Whole
<1>4. CASE EndOfScript
  BY <1>4 DEF EndOfScript, Whole, Content
<1>5. CASE Execute \/ PushLoad \/ PushStore
  BY <1>5 DEF Execute, PushLoad, PushStore, Whole, Content, Stages, Ends
<1>6. CASE DisconnectNamedPipe
  BY <1>6, EmptySeq, ScriptAssumption DEF DisconnectNamedPipe, Whole, Text
<1> QED BY <1>1, <1>2, <1>3, <1>4, <1>5, <1>6 DEF Listener

\* Scripts are whole at each step.
LEMMA WholeStep ==
  ASSUME TypeOK, Stages, Ends, Whole, Queuing, Next
  PROVE  Whole'
<1> USE DEF uiVars, pipeVars, queueVars, listVars, schedVars
<1>1. CASE UI
  <2>1. \A d \in Clicks : client[d] = "done" => client'[d] = "done"
    BY <1>1 DEF UI, Inject, Poll, LuaPipe, TypeOK
  <2>2. UNCHANGED <<unsent, pipeVars, WholeScript, delivered>>
        /\ (listener' = listener \/ pipe = "none")
    BY <1>1 DEF UI, Inject, Poll, LuaPipe, NamedPipeExist
  <2> QED BY <2>1, <2>2 DEF Whole, Content
<1>2. CASE Scheduler
  BY <1>2 DEF Scheduler, PollQueue, RunFront, PopLoad, PopStore, PopOff, Whole, Content
<1> QED BY <1>1, <1>2, ClientWhole, ListenerWhole DEF Next

\* A script is queued once.
LEMMA QueuingStep ==
  ASSUME TypeOK, Stages, Whole, Queuing, Next
  PROVE  Queuing'
<1> USE DEF uiVars, pipeVars, queueVars, listVars, schedVars
<1>1. CASE ~Execute
  <2>1. delivered' = delivered
    BY <1>1 DEF Next, UI, Inject, Poll, LuaPipe, Client, Connect, Write, Close, Broken, Listener,
         StartScheduler, Die, CreatePipe, ConnectNamedPipe, ClientArrived, ReadFile, EndOfScript,
         PushLoad, PushStore, DisconnectNamedPipe, Scheduler, PollQueue, RunFront, PopLoad,
         PopStore, PopOff
  <2>2. \A d \in Clicks : client[d] = "done" => client'[d] = "done"
    BY <1>1 DEF TypeOK, Next, UI, Inject, Poll, LuaPipe, Client, Connect, Write, Close, Broken,
         Listener, StartScheduler, Die, CreatePipe, ConnectNamedPipe, ClientArrived, ReadFile,
         EndOfScript, PushLoad, PushStore, DisconnectNamedPipe, Scheduler, PollQueue, RunFront,
         PopLoad, PopStore, PopOff
  <2> QED BY <2>1, <2>2 DEF Queuing
<1>2. CASE Execute
  <2>1. Content = WholeScript
    <3>1. pipeData = <<>> /\ WholeScript \in Text
      BY <1>2 DEF Execute, Stages, TypeOK
    <3> QED BY <3>1, ConcatEmptySeq DEF Content, Text
  <2>2. PICK c \in Clicks : /\ client[c] = "done" /\ WholeScript = Script[c]
                            /\ IsInjective(Script) => Script[c] \notin Range(delivered)
    BY <1>2, <2>1 DEF Execute, Stages, Whole
  <2>3. delivered' = Append(delivered, Script[c]) /\ client' = client
    BY <1>2, <2>2 DEF Execute
  <2>4. delivered \in Seq(Text) /\ Script[c] \in Text /\ Len(delivered) \in Nat
    BY <2>2, LenProperties DEF TypeOK
  <2>5. /\ DOMAIN delivered = 1 .. Len(delivered)
        /\ DOMAIN delivered' = 1 .. Len(delivered) + 1
        /\ \A i \in 1 .. Len(delivered) : delivered'[i] = delivered[i]
        /\ delivered'[Len(delivered) + 1] = Script[c]
    BY <2>3, <2>4, AppendProperties, LenProperties
  <2>6. \A i \in DOMAIN delivered' :
           \E d \in Clicks : client'[d] = "done" /\ delivered'[i] = Script[d]
    <3> TAKE i \in DOMAIN delivered'
    <3>1. CASE i \in DOMAIN delivered
      BY <2>3, <2>5, <3>1 DEF Queuing
    <3>2. CASE i = Len(delivered) + 1
      BY <2>2, <2>3, <2>5, <3>2
    <3> QED BY <2>4, <2>5, <3>1, <3>2
  <2>7. ASSUME IsInjective(Script) PROVE IsInjective(delivered')
    <3>1. \A i \in DOMAIN delivered : delivered[i] # Script[c]
      BY <2>2, <2>7 DEF Range
    <3>2. \A i, j \in DOMAIN delivered : delivered[i] = delivered[j] => i = j
      BY <2>7 DEF Queuing, IsInjective
    <3> QED BY <2>4, <2>5, <3>1, <3>2 DEF IsInjective
  <2> QED BY <2>6, <2>7 DEF Queuing
<1> QED BY <1>1, <1>2

-----------------------------------------------------------------------------
(* The unsynchronised deque. *)

\* What a step must leave alone for the deque to be the same.
LEMMA SameDeque ==
  ASSUME Fifo, UNCHANGED <<queueVars, pushTmp, delivered, schedVars, raced>>,
         listener' = listener \/ (listener \notin {"execute", "pushLoad", "pushStore"}
                                  /\ listener' \notin {"pushLoad", "pushStore"})
  PROVE  Fifo'
BY DEF Fifo, Pushing, InPop, First, Count, Finished, Cell, queueVars, schedVars

\* push() appends: no pop() has moved the front or the size in between.
LEMMA PushFifo ==
  ASSUME TypeOK, Popping, Fifo, Execute \/ PushLoad \/ PushStore
  PROVE  Fifo'
<1> USE DEF uiVars, pipeVars, queueVars, listVars, schedVars
<1>1. CASE Execute
  <2> SUFFICES ASSUME ~raced' PROVE Fifo'
    BY DEF Fifo
  <2>1. /\ ~raced /\ ~InPop /\ ~Pushing /\ Pushing' /\ listener' = "pushLoad"
        /\ UNCHANGED <<off, size, taken, scheduler, popTmp>>
        /\ delivered' = Append(delivered, WholeScript)
        /\ off \in Nat /\ size \in Nat
    BY <1>1 DEF Execute, InPop, Pushing, TypeOK
  <2>2. /\ delivered \in Seq(Text) /\ WholeScript \in Text /\ Len(delivered) \in Nat
        /\ taken \in Seq(Text \cup {Destroyed}) /\ Len(taken) \in Nat
    BY LenProperties DEF TypeOK
  <2>3. /\ Len(delivered') = Len(delivered) + 1
        /\ \A i \in 1 .. Len(delivered) : delivered'[i] = delivered[i]
        /\ delivered'[Len(delivered) + 1] = WholeScript
    BY <2>1, <2>2, AppendProperties
  <2>4. \A p \in Nat : Cell(p)' = IF p = off + size THEN WholeScript ELSE Cell(p)
    BY <1>1 DEF Execute, Cell
  <2>5. First = off /\ First' = off /\ Count = size /\ Count' = size + 1 /\ Finished' = Finished
    BY <2>1 DEF First, Count, Finished, InPop, Pushing
  <2>6. /\ Len(delivered) = Finished + size
        /\ \A i \in 1 .. Finished : taken[i] = delivered[i]
        /\ \A i \in 1 .. size : Cell(off + i - 1) = delivered[Finished + i]
        /\ scheduler = "popLoad" => taken # <<>> /\ taken[Len(taken)] = Cell(off)
    BY <2>1, <2>5 DEF Fifo
  <2>7. Finished \in Nat
    BY <2>2, <2>6, EmptySeq DEF Finished
  <2>8. \A i \in 1 .. size + 1 : Cell(off + i - 1)' = delivered'[Finished + i]
    <3> TAKE i \in 1 .. size + 1
    <3>1. CASE i \in 1 .. size
      <4>1. off + i - 1 \in Nat /\ off + i - 1 # off + size /\ Finished + i \in 1 .. Len(delivered)
        BY <2>1, <2>6, <2>7, <3>1
      <4> QED BY <2>1, <2>3, <2>4, <2>6, <3>1, <4>1 DEF Cell
    <3>2. CASE i = size + 1
      <4>1. off + i - 1 = off + size /\ off + size \in Nat /\ Finished + i = Len(delivered) + 1
        BY <2>1, <2>6, <2>7, <3>2
      <4> QED BY <2>1, <2>3, <2>4, <4>1 DEF Cell
    <3>3. i \in 1 .. size \/ i = size + 1
      BY <2>1
    <3> QED BY <3>1, <3>2, <3>3, Zenon
  <2>9. \A i \in 1 .. Finished : taken[i] = delivered'[i]
    BY <2>1, <2>3, <2>6, <2>7
  <2>10. scheduler = "popLoad" => Cell(off)' = Cell(off)
    BY <2>1, <2>4 DEF Popping
  <2>11. Len(delivered') = Finished + (size + 1)
    BY <2>1, <2>3, <2>6, <2>7
  <2>12. off' = off /\ scheduler' = scheduler /\ taken' = taken /\ ~InPop'
    BY <2>1 DEF InPop
  <2>13. \A i \in 1 .. Count' : Cell(First + i - 1)' = delivered'[Finished' + i]
    BY <2>5, <2>8, <2>12
  <2>14. \A i \in 1 .. Finished' : taken'[i] = delivered'[i]
    BY <2>5, <2>9, <2>12
  <2>15. scheduler' = "popLoad" => taken' # <<>> /\ taken'[Len(taken')] = Cell(off)'
    BY <2>6, <2>10, <2>12
  <2>16. Len(delivered') = Finished' + Count'
    BY <2>5, <2>11
  <2> QED BY <2>1, <2>12, <2>13, <2>14, <2>15, <2>16 DEF Fifo, InPop
<1>2. CASE PushLoad
  BY <1>2 DEF PushLoad, Fifo, Pushing, InPop, First, Count, Finished, Cell
<1>3. CASE PushStore
  <2>1. ~raced => size' = size + 1 /\ scheduler # "popStore" /\ Count' = Count /\ size \in Nat
    BY <1>3 DEF PushStore, Fifo, Pushing, InPop, Count, TypeOK
  <2> QED BY <1>3, <2>1 DEF PushStore, Fifo, Pushing, InPop, First, Finished, Cell
<1> QED BY <1>1, <1>2, <1>3

\* pop() removes the front: no push() has moved the size in between.
LEMMA PopFifo ==
  ASSUME TypeOK, Popping, Fifo, Scheduler
  PROVE  Fifo'
<1> USE DEF uiVars, pipeVars, queueVars, listVars, schedVars
<1>0. /\ taken \in Seq(Text \cup {Destroyed}) /\ Len(taken) \in Nat /\ Len(delivered) \in Nat
      /\ off \in Nat /\ size \in Nat /\ popTmp \in Nat
  BY LenProperties DEF TypeOK
<1>1. CASE PollQueue
  BY <1>1 DEF PollQueue, Fifo, Pushing, InPop, First, Count, Finished, Cell
<1>2. CASE RunFront
  <2> SUFFICES ASSUME ~raced PROVE Fifo'
    BY <1>2 DEF RunFront, Fifo
  <2>1. Cell(off) \in Text \cup {Destroyed}
    BY DEF Cell, TypeOK
  <2>2. /\ taken' # <<>> /\ Len(taken') = Len(taken) + 1 /\ taken'[Len(taken')] = Cell(off)
        /\ \A i \in 1 .. Len(taken) : taken'[i] = taken[i]
    BY <1>0, <1>2, <2>1, AppendProperties DEF RunFront
  <2>3. Finished = Len(taken) /\ Finished' = Finished /\ Count' = Count /\ First' = First
        /\ UNCHANGED <<listVars, queueVars>> /\ scheduler' = "popLoad" /\ ~InPop'
    BY <1>0, <1>2, <2>2 DEF RunFront, Finished, Count, First, Pushing, InPop
  <2>4. \A p : Cell(p)' = Cell(p)
    BY <2>3 DEF Cell
  <2>5. Cell(off)' = Cell(off) /\ Pushing' = Pushing
    BY <2>3 DEF Cell, Pushing
  <2>6. \A i \in 1 .. Count' : Cell(First + i - 1)' = delivered'[Finished' + i]
    BY <2>3, <2>4 DEF Fifo, Cell
  <2>7. \A i \in 1 .. Finished' : taken'[i] = delivered'[i]
    BY <2>2, <2>3 DEF Fifo
  <2> QED BY <2>2, <2>3, <2>5, <2>6, <2>7 DEF Fifo, InPop
<1>3. CASE PopLoad
  <2> SUFFICES ASSUME ~raced' PROVE Fifo'
    BY DEF Fifo
  <2>1. /\ ~raced /\ ~Pushing /\ ~InPop /\ scheduler = "popLoad" /\ scheduler' = "popStore"
        /\ popTmp' = size /\ UNCHANGED <<off, size, taken, listVars>> /\ size > 0
        /\ ~Pushing' /\ InPop'
    BY <1>3 DEF PopLoad, Pushing, InPop, Popping
  <2>2. /\ First = off /\ First' = off + 1 /\ Count = size /\ Count' = size - 1
        /\ Finished = Len(taken) - 1 /\ Finished' = Len(taken)
    BY <1>0, <2>1 DEF First, Count, Finished, InPop
  <2>3. /\ taken # <<>> /\ taken[Len(taken)] = Cell(off)
        /\ Len(delivered) = Len(taken) - 1 + size
        /\ \A i \in 1 .. Len(taken) - 1 : taken[i] = delivered[i]
        /\ \A i \in 1 .. size : Cell(off + i - 1) = delivered[Len(taken) - 1 + i]
    BY <2>1, <2>2 DEF Fifo
  <2>4. \A p \in Nat : p # off => Cell(p)' = Cell(p)
    BY <1>3 DEF PopLoad, Cell
  <2>5. taken[Len(taken)] = delivered[Len(taken)]
    <3>1. 1 \in 1 .. size /\ off + 1 - 1 = off /\ Len(taken) - 1 + 1 = Len(taken)
      BY <1>0, <2>1
    <3> QED BY <2>3, <3>1 DEF Cell
  <2>6. \A i \in 1 .. Len(taken) : taken[i] = delivered[i]
    BY <1>0, <2>3, <2>5
  <2>7. \A i \in 1 .. size - 1 : Cell(off + 1 + i - 1)' = delivered[Len(taken) + i]
    <3> TAKE i \in 1 .. size - 1
    <3>1. /\ off + 1 + i - 1 \in Nat /\ off + 1 + i - 1 # off /\ i + 1 \in 1 .. size
          /\ off + 1 + i - 1 = off + (i + 1) - 1 /\ Len(taken) - 1 + (i + 1) = Len(taken) + i
      BY <1>0
    <3> QED BY <2>1, <2>3, <2>4, <3>1 DEF Cell
  <2>8. Len(delivered) = Len(taken) + (size - 1)
    BY <1>0, <2>3
  <2> QED BY <2>1, <2>2, <2>6, <2>7, <2>8 DEF Fifo, listVars
<1>4. CASE PopStore
  <2>1. ~raced => size' = size - 1 /\ popTmp = size /\ ~Pushing /\ Count' = Count /\ First' = First
                  /\ Finished' = Finished
    BY <1>0, <1>4 DEF PopStore, Fifo, Pushing, InPop, Count, First, Finished
  <2> QED BY <1>0, <1>4, <2>1 DEF PopStore, Fifo, Pushing, InPop, Cell
<1>5. CASE PopOff
  <2> SUFFICES ASSUME ~raced PROVE Fifo'
    BY <1>5 DEF PopOff, Fifo
  <2>1. /\ popTmp = size + 1 /\ ~Pushing /\ scheduler = "popOff" /\ scheduler' = "poll"
        /\ UNCHANGED <<cells, size, listVars, taken, popTmp>>
        /\ off' = IF popTmp = 1 THEN 0 ELSE off + 1
    BY <1>5 DEF PopOff, Fifo, InPop
  <2>2. /\ Count = size /\ Count' = size /\ First = off + 1 /\ First' = off'
        /\ Finished' = Finished /\ ~Pushing'
    BY <1>0, <2>1 DEF Count, First, Finished, InPop, Pushing
  <2>3. \A i \in 1 .. size : First' = First
    BY <1>0, <2>1, <2>2
  <2>4. \A p : Cell(p)' = Cell(p)
    BY <2>1 DEF Cell
  <2>5. \A i \in 1 .. Count' : Cell(First + i - 1)' = delivered'[Finished' + i]
    BY <2>1, <2>2, <2>3, <2>4 DEF Fifo, Cell, listVars
  <2> QED BY <1>5, <2>1, <2>2, <2>5 DEF PopOff, Fifo, InPop, listVars
<1> QED BY <1>1, <1>2, <1>3, <1>4, <1>5 DEF Scheduler

\* The deque is a FIFO queue at each step, as long as nothing overlaps.
LEMMA FifoStep ==
  ASSUME TypeOK, Popping, NothingEarly, Fifo, Next
  PROVE  Fifo'
<1>1. CASE UI
  BY <1>1, SameDeque DEF UI, Inject, Poll, LuaPipe, pipeVars, listVars
<1>2. CASE \E c \in Clicks : Client(c)
  BY <1>2, SameDeque DEF Client, Connect, Write, Close, Broken, listVars
<1>3. CASE StartScheduler
  BY <1>3 DEF StartScheduler, NothingEarly, Early, Fifo, Pushing, InPop, First, Count, Finished,
              Cell, queueVars
<1>4. CASE Die \/ CreatePipe \/ ConnectNamedPipe \/ ClientArrived \/ ReadFile \/ EndOfScript
           \/ DisconnectNamedPipe
  BY <1>4, SameDeque DEF Die, CreatePipe, ConnectNamedPipe, ClientArrived, ReadFile, EndOfScript,
                         DisconnectNamedPipe
<1> QED BY <1>1, <1>2, <1>3, <1>4, PushFifo, PopFifo DEF Next, Listener

-----------------------------------------------------------------------------
(* The theorems. *)

\* The initial state satisfies the invariant.
LEMMA InitInv == Init => PipelineInv
<1> SUFFICES ASSUME Init PROVE PipelineInv
  OBVIOUS
<1>1. Popping /\ NothingEarly /\ Stages /\ Ends
  BY ScriptAssumption DEF Init, Popping, NothingEarly, Early, Stages, Ends
<1>2. ASSUME AllPlain PROVE Whole /\ Queuing
  <2>1. \A c \in Clicks : Script[c] \in Text
    <3> SUFFICES ASSUME NEW c \in Clicks PROVE Script[c] \in Text
      OBVIOUS
    <3>1. Script[c] \in Seq(Symbols) /\ NUL \notin Range(Script[c])
      BY <1>2, ScriptAssumption DEF AllPlain, NulFree
    <3>2. Script[c] \in Seq(Range(Script[c])) /\ Range(Script[c]) \subseteq Symbols \ {NUL}
      BY <3>1, SeqOfRange, RangeOfSeq
    <3> QED BY <3>2, SeqMonotonic DEF Text
  <2>2. <<>> \in Text /\ DOMAIN delivered = {}
    BY EmptySeq DEF Text, Init
  <2> QED BY <2>1, <2>2, ScriptAssumption DEF Init, Whole, Queuing, IsInjective
<1>3. Fifo
  <2>1. Len(taken) = 0 /\ Len(delivered) = 0
    BY EmptySeq DEF Init
  <2> QED BY <2>1 DEF Init, Fifo, Pushing, InPop, First, Count, Finished
<1> QED BY <1>1, <1>2, <1>3, InitTypes DEF PipelineInv

\* Every step preserves it.
LEMMA StepInv == PipelineInv /\ [Next]_vars => PipelineInv'
<1> SUFFICES ASSUME PipelineInv, [Next]_vars PROVE PipelineInv'
  OBVIOUS
<1> USE DEF PipelineInv
<1>1. CASE Next
  <2>1. TypeOK'
    BY <1>1, ClientTypes, ListenerTypes, SchedulerTypes DEF Next
  <2>2. Popping' /\ NothingEarly'
    BY <1>1, PoppingStep, EarlyStep
  <2>3. Stages' /\ Ends'
    BY <1>1, StagesStep, EndsStep
  <2>4. AllPlain => Whole' /\ Queuing'
    BY <1>1, WholeStep, QueuingStep
  <2>5. Fifo'
    BY <1>1, FifoStep
  <2>6. AllPlain' <=> AllPlain
    BY DEF AllPlain, NulFree
  <2> QED BY <2>1, <2>2, <2>3, <2>4, <2>5, <2>6
<1>2. CASE UNCHANGED vars
  <2>1. TypeOK' /\ Popping' /\ NothingEarly' /\ Stages' /\ Ends'
    BY <1>2 DEF vars, uiVars, pipeVars, queueVars, listVars, schedVars, TypeOK, Popping,
                NothingEarly, Stages, Ends
  <2>2. AllPlain' => Whole' /\ Queuing'
    BY <1>2 DEF vars, uiVars, pipeVars, queueVars, listVars, schedVars, Whole, Queuing, Content,
                AllPlain, NulFree
  <2>3. Fifo'
    BY <1>2, SameDeque DEF vars, listVars
  <2> QED BY <2>1, <2>2, <2>3
<1> QED BY <1>1, <1>2

\* The inductive invariant holds in every reachable state.
THEOREM PipelineInvariant == Spec => []PipelineInv
BY InitInv, StepInv, PTL DEF Spec

\* Every variable has its type; in particular the deque's size, which two threads
\* write without a lock, never becomes negative.
THEOREM TypeCorrect == Spec => []TypeOK
<1>1. PipelineInv => TypeOK
  BY DEF PipelineInv
<1> QED BY <1>1, PipelineInvariant, PTL

\* Whatever the interleaving of clients and listener, what is queued are whole
\* scripts, each at most once.
THEOREM ScriptsStayWhole == Spec => []WholeScriptsOnly
<1>1. PipelineInv => WholeScriptsOnly
  BY DEF PipelineInv, WholeScriptsOnly, Queuing, AllPlain
<1> QED BY <1>1, PipelineInvariant, PTL

\* No script is taken before the custom functions are registered.
THEOREM FunctionsAreFirst == Spec => []FunctionsFirst
<1>1. PipelineInv => FunctionsFirst
  BY DEF PipelineInv, FunctionsFirst, NothingEarly, Early
<1> QED BY <1>1, PipelineInvariant, PTL

\* The invariant's view of the deque, index by index, is the sequence equation of
\* FifoUnlessRaced.
LEMMA FifoMeaning == PipelineInv => FifoUnlessRaced
<1> SUFFICES ASSUME PipelineInv, ~raced, ~Pushing, ~InPop
             PROVE  delivered = (IF scheduler = "popLoad" THEN Front(taken) ELSE taken) \o Queued
  BY DEF FifoUnlessRaced, Pushing, InPop
<1> DEFINE S == Text \cup {Destroyed}
           finished == IF scheduler = "popLoad" THEN Front(taken) ELSE taken
<1>1. /\ taken \in Seq(S) /\ Len(taken) \in Nat /\ delivered \in Seq(S) /\ Len(delivered) \in Nat
      /\ size \in Nat /\ off \in Nat
  <2>1. taken \in Seq(S) /\ delivered \in Seq(Text) /\ size \in Nat /\ off \in Nat
    BY DEF PipelineInv, TypeOK
  <2>2. delivered \in Seq(S)
    BY <2>1, SeqMonotonic
  <2> QED BY <2>1, <2>2, LenProperties
<1>2. /\ Len(delivered) = Finished + size
      /\ \A i \in 1 .. Finished : taken[i] = delivered[i]
      /\ \A i \in 1 .. size : Cell(off + i - 1) = delivered[Finished + i]
      /\ scheduler = "popLoad" => taken # <<>>
  <2>1. Count = size /\ First = off
    BY <1>1 DEF Count, First, Pushing, InPop
  <2> QED BY <2>1 DEF PipelineInv, Fifo
<1>3. /\ finished \in Seq(S) /\ Len(finished) = Finished
      /\ \A i \in 1 .. Finished : finished[i] = taken[i]
  <2>1. CASE scheduler = "popLoad"
    <3>1. Len(taken) # 0
      BY <1>1, <1>2, <2>1, EmptySeq
    <3>2. /\ Front(taken) \in Seq(S) /\ Len(Front(taken)) = Len(taken) - 1
          /\ \A i \in 1 .. Len(taken) - 1 : Front(taken)[i] = taken[i]
      <4> HIDE DEF S
      <4> QED BY <1>1, <3>1, FrontPart
    <3> QED BY <2>1, <3>2 DEF Finished
  <2>2. CASE scheduler # "popLoad"
    BY <1>1, <2>2 DEF Finished
  <2> QED BY <2>1, <2>2
<1>4. Queued \in Seq(S) /\ Len(Queued) = size /\ \A i \in 1 .. size : Queued[i] = Cell(off + i - 1)
  <2>1. \A p : Cell(p) \in S
    BY DEF Cell, PipelineInv, TypeOK
  <2>2. Queued \in [1 .. size -> S]
    BY <2>1 DEF Queued
  <2>3. Queued \in Seq(S) /\ Len(Queued) = size
    BY <1>1, <2>2 
  <2> QED BY <2>3 DEF Queued
<1> HIDE DEF finished, S
<1>5. /\ finished \o Queued \in Seq(S) /\ Len(finished \o Queued) = Finished + size
      /\ \A i \in 1 .. Finished + size :
            (finished \o Queued)[i] = IF i <= Finished THEN finished[i] ELSE Queued[i - Finished]
  BY <1>3, <1>4, ConcatProperties, ZenonT(60)
<1>6. \A i \in 1 .. Len(delivered) : delivered[i] = (finished \o Queued)[i]
  <2> SUFFICES ASSUME NEW i \in 1 .. Finished + size PROVE delivered[i] = (finished \o Queued)[i]
    BY <1>2
  <2>0. Finished \in Nat
    BY <1>3, LenProperties
  <2>1. CASE i <= Finished
    BY <1>2, <1>3, <1>5, <2>0, <2>1
  <2>2. CASE ~(i <= Finished)
    <3>1. i - Finished \in 1 .. size /\ Finished + (i - Finished) = i
      BY <1>1, <2>0, <2>2
    <3>2. Queued[i - Finished] = delivered[i]
      BY <1>2, <1>4, <3>1 DEF Cell
    <3> QED BY <1>5, <2>2, <3>2
  <2> QED BY <2>1, <2>2
<1> QED BY <1>1, <1>2, <1>5, <1>6, SeqEqual DEF finished

\* The two threads use the deque without a lock; as long as no push() overlaps a
\* pop(), the scripts come out as they went in.
THEOREM QueueIsFifo == Spec => []FifoUnlessRaced
BY FifoMeaning, PipelineInvariant, PTL

-----------------------------------------------------------------------------
(* What becomes of a script on its way: the invariants. *)

\* w may be what executor_main has gathered after it read the bytes s: the text
\* that MayArrive allows of a script, for a part of one.
Arrives(s, w) == /\ IsPrefix(CString(s), w)
                 /\ Range(w) \subseteq Range(s) \ {NUL}
                 /\ NUL \notin Range(s) => w = s

\* The parts of a script that can have been read.
Heads(s) == {SubSeq(s, 1, n) : n \in 0 .. Len(s)}

\* w comes from the bytes of script s that precede rest.
ReadUpTo(s, rest, w) == \E consumed \in Heads(s) : s = consumed \o rest /\ Arrives(consumed, w)

\* A script whose client has gone, and that is still to be queued.
Underway == pipe = "closed" /\ listener \notin {"pushLoad", "pushStore", "disconnect"}

\* The bytes that are read, in the pipe and unsent are those of one script, in
\* order.
Carried ==
  /\ owner \in Clicks => ReadUpTo(Script[owner], pipeData \o unsent[owner], WholeScript)
  /\ Underway => \E c \in Clicks : ReadUpTo(Script[c], pipeData, WholeScript)

\* Each queued text is what may arrive of a script.
Arrived == \A i \in DOMAIN delivered : \E c \in Clicks : MayArrive(c, delivered[i])

\* Each queued text, and the one underway, has used up a client.
Done == {c \in Clicks : client[c] = "done"}
Budget == Len(delivered) + (IF Underway THEN 1 ELSE 0) <= Cardinality(Done)

\* Click c is safe: its thread writes to a listener that will read all of it,
\* and once it is done its script is queued or underway.
Secure(c) ==
  /\ client[c] = "writing" => owner = c /\ listener \in {"waiting", "reading"}
  /\ client[c] = "done" /\ Script[c] # <<>> /\ NulFree(c) =>
       \/ Script[c] \in Range(delivered)
       \/ Underway /\ listener # "connect" /\ Content = Script[c]

\* All clicks are safe but the one that connected before ConnectNamedPipe was
\* called for the first time.
Unserved == listener \in Early \/ (listener = "connect" /\ pipe = "listening")
Losses == \E early \in Clicks \cup {Nobody} :
             /\ \A c \in Clicks \ {early} : Secure(c)
             /\ Unserved => early = Nobody

ArrivalInv == Carried /\ Arrived /\ Budget /\ Losses
-----------------------------------------------------------------------------
(* What ReadFile contributes. *)

\* A sequence of symbols has a longest part without '\0'.
LEMMA FirstNul ==
  ASSUME NEW s \in Seq(Symbols)
  PROVE  \E k \in 0 .. Len(s) : /\ \A i \in 1 .. k : s[i] # NUL
                                /\ k < Len(s) => s[k + 1] = NUL
<1> DEFINE I == {i \in 1 .. Len(s) : s[i] = NUL}
<1>0. Len(s) \in Nat
  BY LenProperties
<1>1. CASE I = {}
  <2>1. \A i \in 1 .. Len(s) : s[i] # NUL
    BY <1>1
  <2>2. Len(s) \in 0 .. Len(s) /\ ~(Len(s) < Len(s))
    BY <1>0
  <2> QED BY <2>1, <2>2
<1>2. CASE I # {}
  <2>1. I \subseteq Nat
    BY <1>0
  <2>2. PICK first \in I : \A m \in I : first <= m
    BY <1>2, <2>1, Least
  <2>3. first \in 1 .. Len(s) /\ s[first] = NUL
        /\ \A m \in 1 .. Len(s) : s[m] = NUL => first <= m
    BY <2>2
  <2>4. first - 1 \in 0 .. Len(s) /\ (first - 1) + 1 = first
    BY <1>0, <2>3
  <2>5. \A i \in 1 .. first - 1 : s[i] # NUL
    BY <1>0, <2>3
  <2> QED BY <2>3, <2>4, <2>5
<1> QED BY <1>1, <1>2

\* CString(s) is that part.
LEMMA CStringIs ==
  ASSUME NEW s \in Seq(Symbols), NEW k \in 0 .. Len(s), \A i \in 1 .. k : s[i] # NUL,
         k < Len(s) => s[k + 1] = NUL
  PROVE  CString(s) = SubSeq(s, 1, k)
<1>0. Len(s) \in Nat /\ DOMAIN s = 1 .. Len(s)
  BY LenProperties
<1>1. CASE k < Len(s)
  <2> DEFINE I == {i \in 1 .. Len(s) : s[i] = NUL}
  <2>1. k + 1 \in I /\ \A m \in I : k + 1 <= m
    BY <1>0, <1>1
  <2>2. Min(I) = k + 1
    <3>1. I \subseteq Int
      BY <1>0
    <3> HIDE DEF I
    <3>2. \A x \in I : (\A y \in I : x <= y) => x = k + 1
      BY <2>1, <3>1
    <3>3. Min(I) \in I /\ \A y \in I : Min(I) <= y
      BY <2>1 DEF Min
    <3> QED BY <3>2, <3>3
  <2>3. NUL \in Range(s) /\ SelectInSeq(s, LAMBDA x : x = NUL) = k + 1
    BY <1>0, <2>1, <2>2 DEF Range, SelectInSeq
  <2>4. (k + 1) - 1 = k
    OBVIOUS
  <2> QED BY <2>3, <2>4 DEF CString
<1>2. CASE k = Len(s)
  <2>1. NUL \notin Range(s)
    BY <1>0, <1>2 DEF Range
  <2>2. CString(s) = s
    BY <2>1 DEF CString
  <2>3. SubSeq(s, 1, Len(s)) = s
    BY SubSeqFull
  <2> QED BY <1>2, <2>2, <2>3
<1>3. k < Len(s) \/ k = Len(s)
  <2>1. Len(s) \in Nat
    BY <1>0
  <2> QED BY <2>1
<1> QED BY <1>1, <1>2, <1>3

\* Without a '\0' in s, what is read after s is appended to s; with one, nothing
\* of it is left.
LEMMA CStringOfConcat ==
  ASSUME NEW s \in Seq(Symbols), NEW t \in Seq(Symbols)
  PROVE  CString(s \o t) = IF NUL \in Range(s) THEN CString(s) ELSE s \o CString(t)
<1>0. /\ Len(s) \in Nat /\ Len(t) \in Nat /\ DOMAIN s = 1 .. Len(s)
      /\ s \o t \in Seq(Symbols) /\ Len(s \o t) = Len(s) + Len(t)
      /\ \A i \in 1 .. Len(s) : (s \o t)[i] = s[i]
      /\ \A i \in 1 .. Len(t) : (s \o t)[Len(s) + i] = t[i]
  <2>1. Len(s) \in Nat /\ Len(t) \in Nat /\ DOMAIN s = 1 .. Len(s)
    BY LenProperties
  <2>2. /\ s \o t \in Seq(Symbols) /\ Len(s \o t) = Len(s) + Len(t)
        /\ \A i \in 1 .. Len(s) + Len(t) : (s \o t)[i] = IF i <= Len(s) THEN s[i] ELSE t[i - Len(s)]
    BY ConcatProperties
  <2>3. \A i \in 1 .. Len(s) : (s \o t)[i] = s[i]
    BY <2>1, <2>2
  <2>4. \A i \in 1 .. Len(t) : Len(s) + i \in 1 .. Len(s) + Len(t) /\ ~(Len(s) + i <= Len(s))
                               /\ (Len(s) + i) - Len(s) = i
    BY <2>1
  <2>5. \A i \in 1 .. Len(t) : (s \o t)[Len(s) + i] = t[i]
    BY <2>2, <2>4
  <2> QED BY <2>1, <2>2, <2>3, <2>5
<1>1. CASE NUL \in Range(s)
  <2>1. PICK k \in 0 .. Len(s) : /\ \A i \in 1 .. k : s[i] # NUL
                                 /\ k < Len(s) => s[k + 1] = NUL
    BY FirstNul
  <2>2. PICK j \in 1 .. Len(s) : s[j] = NUL
    BY <1>0, <1>1 DEF Range
  <2>3. k < Len(s)
    BY <1>0, <2>1, <2>2
  <2>4. CString(s) = SubSeq(s, 1, k)
    BY <2>1, CStringIs
  <2>5. /\ k \in 0 .. Len(s \o t) /\ k < Len(s \o t)
        /\ \A i \in 1 .. k : (s \o t)[i] # NUL
        /\ (s \o t)[k + 1] = NUL
    BY <1>0, <2>1, <2>3
  <2>6. CString(s \o t) = SubSeq(s \o t, 1, k)
    BY <1>0, <2>5, CStringIs
  <2>7. SubSeq(s \o t, 1, k) = SubSeq(s, 1, k)
    <3>1. CASE k = 0
      BY <3>1, SubSeqEmpty
    <3>2. CASE k # 0
      <4>1. 1 \in 1 .. Len(s) /\ k \in 1 .. Len(s)
        BY <1>0, <3>2
      <4> QED BY <4>1, SubSeqOfConcat1
    <3> QED BY <3>1, <3>2
  <2> QED BY <1>1, <2>4, <2>6, <2>7
<1>2. CASE NUL \notin Range(s)
  <2>1. PICK k \in 0 .. Len(t) : /\ \A i \in 1 .. k : t[i] # NUL
                                 /\ k < Len(t) => t[k + 1] = NUL
    BY FirstNul
  <2> DEFINE n == Len(s) + k
  <2>2. \A i \in 1 .. Len(s) : s[i] # NUL
    BY <1>0, <1>2 DEF Range
  <2>3. n \in 0 .. Len(s \o t) /\ k \in Nat
    BY <1>0
  <2>4. \A i \in 1 .. n : (s \o t)[i] # NUL
    <3> TAKE i \in 1 .. n
    <3>1. CASE i <= Len(s)
      <4>1. i \in 1 .. Len(s)
        BY <1>0, <3>1
      <4> QED BY <1>0, <2>2, <4>1
    <3>2. CASE ~(i <= Len(s))
      <4>1. i - Len(s) \in 1 .. k /\ i - Len(s) \in 1 .. Len(t) /\ Len(s) + (i - Len(s)) = i
        BY <1>0, <2>3, <3>2
      <4> QED BY <1>0, <2>1, <4>1
    <3> QED BY <3>1, <3>2
  <2>5. n < Len(s \o t) => (s \o t)[n + 1] = NUL
    <3> SUFFICES ASSUME n < Len(s \o t) PROVE (s \o t)[n + 1] = NUL
      OBVIOUS
    <3>1. k < Len(t) /\ k + 1 \in 1 .. Len(t) /\ Len(s) + (k + 1) = n + 1
      BY <1>0, <2>3
    <3> QED BY <1>0, <2>1, <3>1
  <2>6. CString(s \o t) = SubSeq(s \o t, 1, n)
    <3> HIDE DEF n
    <3> QED BY <1>0, <2>3, <2>4, <2>5, CStringIs
  <2>7. CString(t) = SubSeq(t, 1, k)
    BY <2>1, CStringIs
  <2>8. /\ SubSeq(t, 1, k) \in Seq(Symbols) /\ Len(SubSeq(t, 1, k)) = k
        /\ \A i \in 1 .. k : SubSeq(t, 1, k)[i] = t[i]
    <3>1. 1 \in 1 .. Len(t) + 1 /\ k \in 1 - 1 .. Len(t) /\ k - 1 + 1 = k
          /\ \A i \in 1 .. k : 1 + i - 1 = i
      BY <1>0
    <3> QED BY <3>1, Part
  <2>9. /\ SubSeq(s \o t, 1, n) \in Seq(Symbols) /\ Len(SubSeq(s \o t, 1, n)) = n
        /\ \A i \in 1 .. n : SubSeq(s \o t, 1, n)[i] = (s \o t)[i]
    <3>1. 1 \in 1 .. Len(s \o t) + 1 /\ n \in 1 - 1 .. Len(s \o t) /\ n - 1 + 1 = n
          /\ \A i \in 1 .. n : 1 + i - 1 = i
      BY <1>0, <2>3
    <3> HIDE DEF n
    <3> QED BY <1>0, <3>1, Part
  <2>10. /\ s \o SubSeq(t, 1, k) \in Seq(Symbols) /\ Len(s \o SubSeq(t, 1, k)) = n
         /\ \A i \in 1 .. n : (s \o SubSeq(t, 1, k))[i] =
                                 IF i <= Len(s) THEN s[i] ELSE SubSeq(t, 1, k)[i - Len(s)]
    BY <2>8, ConcatProperties
  <2>11. \A i \in 1 .. n : SubSeq(s \o t, 1, n)[i] = (s \o SubSeq(t, 1, k))[i]
    <3> TAKE i \in 1 .. n
    <3>1. CASE i <= Len(s)
      <4>1. i \in 1 .. Len(s)
        BY <1>0, <3>1
      <4> QED BY <1>0, <2>9, <2>10, <3>1, <4>1
    <3>2. CASE ~(i <= Len(s))
      <4>1. i - Len(s) \in 1 .. k /\ i - Len(s) \in 1 .. Len(t) /\ Len(s) + (i - Len(s)) = i
        BY <1>0, <2>3, <3>2
      <4> HIDE DEF n
      <4> QED BY <1>0, <2>8, <2>9, <2>10, <3>2, <4>1
    <3> QED BY <3>1, <3>2
  <2>12. SubSeq(s \o t, 1, n) = s \o SubSeq(t, 1, k)
    <3> HIDE DEF n
    <3> QED BY <2>9, <2>10, <2>11, SeqEqual
  <2> QED BY <1>2, <2>6, <2>7, <2>12
<1> QED BY <1>1, <1>2

\* Concatenation of sequences of symbols is associative.
LEMMA SymbolsAssociative ==
  ASSUME NEW a \in Seq(Symbols), NEW b \in Seq(Symbols), NEW c \in Seq(Symbols)
  PROVE  (a \o b) \o c = a \o (b \o c)
BY SMT

\* A prefix of a sequence is one of every longer sequence.
LEMMA PrefixOfConcat ==
  ASSUME NEW S, NEW p \in Seq(S), NEW w \in Seq(S), NEW x \in Seq(S), IsPrefix(p, w)
  PROVE  IsPrefix(p, w \o x)
<1>0. Len(p) \in Nat /\ Len(w) \in Nat /\ Len(x) \in Nat
  BY LenProperties
<1>1. Len(p) <= Len(w) /\ SubSeq(p, 1, Len(p)) = SubSeq(w, 1, Len(p))
  BY DEF IsPrefix
<1>2. Len(p) <= Len(w \o x)
  BY <1>0, <1>1, ConcatProperties
<1>3. SubSeq(w \o x, 1, Len(p)) = SubSeq(w, 1, Len(p))
  <2>1. CASE Len(p) = 0
    BY <2>1, SubSeqEmpty
  <2>2. CASE Len(p) # 0
    <3>1. 1 \in 1 .. Len(w) /\ Len(p) \in 1 .. Len(w)
      BY <1>0, <1>1, <2>2
    <3> QED BY <3>1, SubSeqOfConcat1
  <2> QED BY <2>1, <2>2
<1> QED BY <1>1, <1>2, <1>3 DEF IsPrefix

\* What a chunk adds to WholeScript is of the chunk, without a '\0'; all of it
\* when the chunk has none.
LEMMA ChunkText ==
  ASSUME NEW t \in Seq(Symbols)
  PROVE  /\ CString(t) \in Seq(Symbols)
         /\ Range(CString(t)) \subseteq Range(t) \ {NUL}
         /\ NUL \notin Range(t) => CString(t) = t
<1>1. PICK k \in 0 .. Len(t) : /\ \A i \in 1 .. k : t[i] # NUL
                               /\ k < Len(t) => t[k + 1] = NUL
  BY FirstNul
<1>2. CString(t) = SubSeq(t, 1, k)
  BY <1>1, CStringIs
<1>3. Len(t) \in Nat /\ DOMAIN t = 1 .. Len(t)
  BY LenProperties
<1>4. /\ SubSeq(t, 1, k) \in Seq(Symbols) /\ Len(SubSeq(t, 1, k)) = k
      /\ \A i \in 1 .. k : SubSeq(t, 1, k)[i] = t[i]
  <2>1. 1 \in 1 .. Len(t) + 1 /\ k \in 1 - 1 .. Len(t) /\ k - 1 + 1 = k
        /\ \A i \in 1 .. k : 1 + i - 1 = i
    BY <1>3
  <2> QED BY <2>1, Part
<1>5. DOMAIN SubSeq(t, 1, k) = 1 .. k
  BY <1>4, LenProperties
<1>6. Range(SubSeq(t, 1, k)) \subseteq Range(t) \ {NUL}
  BY <1>1, <1>3, <1>4, <1>5 DEF Range
<1>7. NUL \notin Range(t) => CString(t) = t
  BY DEF CString
<1> QED BY <1>2, <1>4, <1>6, <1>7

\* Before anything is read, the empty WholeScript is right.
LEMMA NothingArrives == Arrives(<<>>, <<>>)
<1>1. <<>> \in Seq(Symbols) /\ Len(<<>>) = 0 /\ DOMAIN <<>> = {}
  BY EmptySeq
<1>2. Range(<<>>) = {}
  BY <1>1 DEF Range
<1>3. CString(<<>>) = <<>>
  BY <1>1, <1>2, ChunkText
<1>4. IsPrefix(<<>>, <<>>)
  BY <1>1 DEF IsPrefix
<1> QED BY <1>2, <1>3, <1>4 DEF Arrives

\* A ReadFile keeps WholeScript right, whatever chunk it returned.
LEMMA ChunkArrives ==
  ASSUME NEW s \in Seq(Symbols), NEW w \in Seq(Symbols), NEW t \in Seq(Symbols), Arrives(s, w)
  PROVE  Arrives(s \o t, w \o CString(t))
<1>1. /\ IsPrefix(CString(s), w) /\ Range(w) \subseteq Range(s) \ {NUL}
      /\ NUL \notin Range(s) => w = s
  BY DEF Arrives
<1>2. /\ CString(t) \in Seq(Symbols) /\ Range(CString(t)) \subseteq Range(t) \ {NUL}
      /\ NUL \notin Range(t) => CString(t) = t
      /\ CString(s) \in Seq(Symbols) /\ s \o t \in Seq(Symbols) /\ w \o CString(t) \in Seq(Symbols)
  BY ChunkText, ConcatProperties
<1>3. /\ Range(s \o t) = Range(s) \cup Range(t)
      /\ Range(w \o CString(t)) = Range(w) \cup Range(CString(t))
  BY <1>2, RangeConcatenation
<1>4. IsPrefix(CString(s \o t), w \o CString(t))
  <2>1. CASE NUL \in Range(s)
    <3>1. CString(s \o t) = CString(s)
      BY <2>1, CStringOfConcat
    <3> QED BY <1>1, <1>2, <3>1, PrefixOfConcat
  <2>2. CASE NUL \notin Range(s)
    <3>1. CString(s \o t) = w \o CString(t)
      BY <1>1, <2>2, CStringOfConcat
    <3>2. Len(w \o CString(t)) \in Nat
      BY <1>2, LenProperties, SMTT(30)
    <3> QED BY <3>1, <3>2 DEF IsPrefix
  <2> QED BY <2>1, <2>2
<1> QED BY <1>1, <1>2, <1>3, <1>4 DEF Arrives

\* The first part of a sequence is one of its heads.
LEMMA HeadPart ==
  ASSUME NEW S, NEW a \in Seq(S), NEW b \in Seq(S)
  PROVE  a \in Heads(a \o b)
<1>0. Len(a) \in Nat /\ Len(b) \in Nat /\ Len(a \o b) = Len(a) + Len(b)
  BY LenProperties, ConcatProperties
<1>1. SubSeq(a \o b, 1, Len(a)) = a
  <2>1. CASE Len(a) = 0
    <3>1. a = <<>>
      BY <2>1, EmptySeq
    <3> QED BY <2>1, <3>1, SubSeqEmpty
  <2>2. CASE Len(a) # 0
    <3>1. 1 \in 1 .. Len(a) /\ Len(a) \in 1 .. Len(a)
      BY <1>0, <2>2
    <3> QED BY <3>1, SubSeqOfConcat1, SubSeqFull
  <2> QED BY <2>1, <2>2
<1>2. Len(a) \in 0 .. Len(a \o b)
  BY <1>0
<1> QED BY <1>1, <1>2 DEF Heads

\* Before anything is read, all of a script is to come.
LEMMA NothingRead ==
  ASSUME NEW s \in Seq(Symbols)
  PROVE  ReadUpTo(s, s, <<>>)
<1>1. <<>> \in Seq(Symbols) /\ <<>> \o s = s
  BY EmptySeq, ConcatEmptySeq
<1>2. <<>> \in Heads(s)
  BY <1>1, HeadPart
<1> QED BY <1>1, <1>2, NothingArrives DEF ReadUpTo

\* Reading a chunk moves the place in the script on by the chunk.
LEMMA ReadMore ==
  ASSUME NEW s \in Seq(Symbols), NEW w \in Seq(Symbols), NEW chunk \in Seq(Symbols),
         NEW rest \in Seq(Symbols), ReadUpTo(s, chunk \o rest, w)
  PROVE  ReadUpTo(s, rest, w \o CString(chunk))
<1>1. PICK consumed \in Heads(s) : s = consumed \o (chunk \o rest) /\ Arrives(consumed, w)
  BY DEF ReadUpTo
<1>2. consumed \in Seq(Symbols)
  <2>1. PICK n \in 0 .. Len(s) : consumed = SubSeq(s, 1, n)
    BY DEF Heads
  <2>2. Len(s) \in Nat
    BY LenProperties
  <2>3. 1 \in 1 .. Len(s) + 1 /\ n \in 1 - 1 .. Len(s)
    BY <2>2
  <2> QED BY <2>1, <2>3, Part
<1>3. consumed \o chunk \in Seq(Symbols)
  BY <1>2, ConcatProperties
<1>4. s = (consumed \o chunk) \o rest
  <2>1. (consumed \o chunk) \o rest = consumed \o (chunk \o rest)
    BY <1>2, SymbolsAssociative, Zenon
  <2> QED BY <1>1, <2>1
<1>5. consumed \o chunk \in Heads(s)
  BY <1>3, <1>4, HeadPart
<1>6. Arrives(consumed \o chunk, w \o CString(chunk))
  BY <1>1, <1>2, ChunkArrives
<1> QED BY <1>4, <1>5, <1>6 DEF ReadUpTo

\* A text whose script is read to the end is one that may arrive.
LEMMA ReadToTheEnd ==
  ASSUME NEW c \in Clicks, NEW w, ReadUpTo(Script[c], <<>>, w)
  PROVE  MayArrive(c, w)
<1>1. PICK consumed \in Heads(Script[c]) : Script[c] = consumed \o <<>> /\ Arrives(consumed, w)
  BY DEF ReadUpTo
<1>2. Script[c] \in Seq(Symbols)
  BY ScriptAssumption
<1>3. PICK n \in 0 .. Len(Script[c]) : consumed = SubSeq(Script[c], 1, n)
  BY DEF Heads
<1>4. Len(Script[c]) \in Nat
  BY <1>2, LenProperties
<1>5. 1 \in 1 .. Len(Script[c]) + 1 /\ n \in 1 - 1 .. Len(Script[c])
  BY <1>4
<1>6. consumed \in Seq(Symbols)
  BY <1>2, <1>3, <1>5, Part
<1>7. consumed = Script[c]
  BY <1>1, <1>6, ConcatEmptySeq
<1> QED BY <1>1, <1>7 DEF Arrives, MayArrive, NulFree

-----------------------------------------------------------------------------
(* One script at a time. *)

\* WholeScript and the bytes in the pipe are sequences of symbols.
LEMMA OfSymbols ==
  ASSUME TypeOK
  PROVE  WholeScript \in Seq(Symbols) /\ pipeData \in Seq(Symbols) /\ Len(pipeData) \in Nat
<1>1. WholeScript \in Seq(Symbols \ {NUL}) /\ Symbols \ {NUL} \subseteq Symbols
  BY DEF TypeOK, Text
<1>2. WholeScript \in Seq(Symbols)
  BY <1>1, SeqMonotonic
<1> QED BY <1>2, LenProperties DEF TypeOK

\* The clients keep the bytes of a script together.
LEMMA ClientCarries ==
  ASSUME TypeOK, Stages, Ends, Carried, NEW c \in Clicks, Client(c)
  PROVE  Carried'
<1> USE DEF uiVars, pipeVars, queueVars, listVars, schedVars
<1>0. /\ WholeScript \in Seq(Symbols) /\ pipeData \in Seq(Symbols) /\ unsent[c] \in Seq(Symbols)
      /\ Len(unsent[c]) \in Nat /\ Script[c] \in Seq(Symbols)
  <2>1. unsent[c] \in Seq(Symbols)
    BY DEF TypeOK
  <2> QED BY <2>1, OfSymbols, ScriptAssumption, LenProperties
<1>1. CASE Connect(c)
  <2>1. WholeScript = <<>> /\ pipeData = <<>> /\ unsent[c] = Script[c]
    BY <1>1 DEF Connect, Stages, Ends
  <2>2. UNCHANGED <<WholeScript, pipeData, unsent>> /\ owner' = c /\ pipe' = "connected"
    BY <1>1 DEF Connect
  <2>3. pipeData \o unsent[c] = Script[c]
    BY <1>0, <2>1, ConcatEmptySeq
  <2>4. ReadUpTo(Script[c], pipeData \o unsent[c], WholeScript)
    BY <1>0, <2>1, <2>3, NothingRead
  <2> QED BY <2>2, <2>4 DEF Carried, Underway
<1>2. CASE Write(c)
  <2>1. PICK n \in 1 .. Len(unsent[c]) :
           /\ pipeData' = pipeData \o SubSeq(unsent[c], 1, n)
           /\ unsent' = [unsent EXCEPT ![c] = SubSeq(@, n + 1, Len(@))]
    BY <1>2 DEF Write
  <2> DEFINE sent == SubSeq(unsent[c], 1, n)
             rest == SubSeq(unsent[c], n + 1, Len(unsent[c]))
  <2>2. sent \in Seq(Symbols) /\ rest \in Seq(Symbols)
    BY <1>0, Part
  <2>3. sent \o rest = unsent[c]
    BY <1>0, CutAndJoin
  <2>4. unsent'[c] = rest
    BY <2>1 DEF TypeOK
  <2>5. pipeData' = pipeData \o sent
    BY <2>1
  <2> HIDE DEF sent, rest
  <2>6. pipeData' \o unsent'[c] = pipeData \o unsent[c]
    <3>1. (pipeData \o sent) \o rest = pipeData \o (sent \o rest)
      BY <1>0, <2>2, SymbolsAssociative, ZenonT(60)
    <3> QED BY <2>3, <2>4, <2>5, <3>1
  <2>7. owner = c /\ owner' = c /\ pipe' = "connected" /\ WholeScript' = WholeScript
    BY <1>2 DEF Write
  <2> QED BY <2>6, <2>7 DEF Carried, Underway
<1>3. CASE Close(c)
  <2>1. owner = c /\ unsent[c] = <<>> /\ UNCHANGED <<pipeData, WholeScript>> /\ owner' = Nobody
    BY <1>3 DEF Close
  <2>2. pipeData \o unsent[c] = pipeData
    BY <1>0, <2>1, ConcatEmptySeq
  <2> QED BY <2>1, <2>2, ScriptAssumption DEF Carried
<1>4. CASE Broken(c)
  BY <1>4 DEF Broken, Carried, Underway
<1> QED BY <1>1, <1>2, <1>3, <1>4 DEF Client

\* So does the listener.
LEMMA ListenerCarries ==
  ASSUME TypeOK, Stages, Ends, Carried, Listener
  PROVE  Carried'
<1> USE DEF uiVars, pipeVars, queueVars, listVars, schedVars
<1>1. CASE StartScheduler \/ Die \/ CreatePipe
  BY <1>1 DEF StartScheduler, Die, CreatePipe, Carried, Underway, Stages, Early
<1>2. CASE ConnectNamedPipe \/ ClientArrived
  BY <1>2 DEF ConnectNamedPipe, ClientArrived, Carried, Underway, Stages
<1>3. CASE ReadFile
  <2>1. PICK n \in 1 .. Len(pipeData) :
           /\ WholeScript' = WholeScript \o CString(SubSeq(pipeData, 1, n))
           /\ pipeData' = SubSeq(pipeData, n + 1, Len(pipeData))
    BY <1>3 DEF ReadFile
  <2>2. WholeScript \in Seq(Symbols) /\ pipeData \in Seq(Symbols) /\ Len(pipeData) \in Nat
    BY OfSymbols
  <2> DEFINE chunk == SubSeq(pipeData, 1, n)
             rest  == SubSeq(pipeData, n + 1, Len(pipeData))
  <2>3. chunk \in Seq(Symbols) /\ rest \in Seq(Symbols)
    BY <2>2, Part
  <2>4. chunk \o rest = pipeData
    BY <2>2, CutAndJoin
  <2>5. WholeScript' = WholeScript \o CString(chunk) /\ pipeData' = rest
    BY <2>1
  <2>6. UNCHANGED <<client, unsent, pipe, owner, listener>> /\ listener = "reading"
    BY <1>3 DEF ReadFile
  <2> HIDE DEF chunk, rest
  <2>7. ASSUME owner \in Clicks
        PROVE  ReadUpTo(Script[owner], pipeData' \o unsent[owner], WholeScript')
    <3>1. unsent[owner] \in Seq(Symbols) /\ Script[owner] \in Seq(Symbols)
      BY <2>7, ScriptAssumption DEF TypeOK
    <3>2. pipeData \o unsent[owner] = chunk \o (rest \o unsent[owner])
      <4>1. (chunk \o rest) \o unsent[owner] = chunk \o (rest \o unsent[owner])
        BY <2>3, <3>1, SymbolsAssociative, Zenon
      <4> QED BY <2>4, <4>1
    <3>3. rest \o unsent[owner] \in Seq(Symbols)
      BY <2>3, <3>1, ConcatProperties
    <3>4. ReadUpTo(Script[owner], chunk \o (rest \o unsent[owner]), WholeScript)
      BY <2>7, <3>2 DEF Carried
    <3> QED BY <2>2, <2>3, <2>5, <3>1, <3>3, <3>4, ReadMore
  <2>8. ASSUME Underway
        PROVE  \E c \in Clicks : ReadUpTo(Script[c], pipeData', WholeScript')
    <3>1. PICK c \in Clicks : ReadUpTo(Script[c], pipeData, WholeScript)
      BY <2>8 DEF Carried
    <3>2. Script[c] \in Seq(Symbols)
      BY ScriptAssumption
    <3> QED BY <2>2, <2>3, <2>4, <2>5, <3>1, <3>2, ReadMore
  <2> QED BY <2>6, <2>7, <2>8 DEF Carried, Underway
<1>4. CASE EndOfScript \/ Execute
  BY <1>4 DEF EndOfScript, Execute, Carried, Underway
<1>5. CASE PushLoad \/ PushStore
  BY <1>5 DEF PushLoad, PushStore, Carried, Underway, Stages, Ends
<1>6. CASE DisconnectNamedPipe
  BY <1>6, ScriptAssumption DEF DisconnectNamedPipe, Carried, Underway
<1> QED BY <1>1, <1>2, <1>3, <1>4, <1>5, <1>6 DEF Listener

\* The bytes on their way are those of one script, at each step.
LEMMA CarriedStep ==
  ASSUME TypeOK, Stages, Ends, Carried, Next
  PROVE  Carried'
<1> USE DEF uiVars, pipeVars, queueVars, listVars, schedVars
<1>1. CASE UI
  <2>1. UNCHANGED <<unsent, pipeVars, WholeScript>> /\ (listener' = listener \/ pipe = "none")
    BY <1>1 DEF UI, Inject, Poll, LuaPipe, NamedPipeExist
  <2> QED BY <2>1 DEF Carried, Underway
<1>2. CASE Scheduler
  BY <1>2 DEF Scheduler, PollQueue, RunFront, PopLoad, PopStore, PopOff, Carried, Underway
<1> QED BY <1>1, <1>2, ClientCarries, ListenerCarries DEF Next

\* Only a whole script is queued, less what a '\0' has cost it.
LEMMA ArrivedStep ==
  ASSUME TypeOK, Stages, Carried, Arrived, Next
  PROVE  Arrived'
<1> USE DEF uiVars, pipeVars, queueVars, listVars, schedVars
<1>1. CASE ~Execute
  <2>1. delivered' = delivered
    BY <1>1 DEF Next, UI, Inject, Poll, LuaPipe, Client, Connect, Write, Close, Broken, Listener,
         StartScheduler, Die, CreatePipe, ConnectNamedPipe, ClientArrived, ReadFile, EndOfScript,
         PushLoad, PushStore, DisconnectNamedPipe, Scheduler, PollQueue, RunFront, PopLoad,
         PopStore, PopOff
  <2> QED BY <2>1 DEF Arrived
<1>2. CASE Execute
  <2>1. pipeData = <<>> /\ Underway /\ delivered' = Append(delivered, WholeScript)
    BY <1>2 DEF Execute, Stages, Underway
  <2>2. PICK c \in Clicks : MayArrive(c, WholeScript)
    BY <2>1, ReadToTheEnd DEF Carried
  <2>3. delivered \in Seq(Text) /\ WholeScript \in Text /\ Len(delivered) \in Nat
    BY LenProperties DEF TypeOK
  <2>4. /\ DOMAIN delivered = 1 .. Len(delivered)
        /\ DOMAIN delivered' = 1 .. Len(delivered) + 1
        /\ \A i \in 1 .. Len(delivered) : delivered'[i] = delivered[i]
        /\ delivered'[Len(delivered) + 1] = WholeScript
    BY <2>1, <2>3, AppendProperties, LenProperties
  <2> SUFFICES ASSUME NEW i \in DOMAIN delivered'
               PROVE  \E d \in Clicks : MayArrive(d, delivered'[i])
    BY DEF Arrived
  <2>5. CASE i \in 1 .. Len(delivered)
    BY <2>4, <2>5 DEF Arrived
  <2>6. CASE i = Len(delivered) + 1
    BY <2>2, <2>4, <2>6
  <2> QED BY <2>3, <2>4, <2>5, <2>6
<1> QED BY <1>1, <1>2

-----------------------------------------------------------------------------
(* Not more scripts than clients. *)

\* A client that is done stays done, and there are finitely many.
LEMMA DoneGrows ==
  ASSUME TypeOK, Next
  PROVE  /\ \A c \in Clicks : client[c] = "done" => client'[c] = "done"
         /\ IsFiniteSet(Done) /\ IsFiniteSet(Done')
         /\ Cardinality(Done) \in Nat /\ Cardinality(Done') \in Nat
         /\ Cardinality(Done) <= Cardinality(Done')
<1> USE DEF uiVars, pipeVars, queueVars, listVars, schedVars
<1>1. \A c \in Clicks : client[c] = "done" => client'[c] = "done"
  BY DEF TypeOK, Next, UI, Inject, Poll, LuaPipe, Client, Connect, Write, Close, Broken,
         Listener, StartScheduler, Die, CreatePipe, ConnectNamedPipe, ClientArrived, ReadFile,
         EndOfScript, Execute, PushLoad, PushStore, DisconnectNamedPipe, Scheduler, PollQueue,
         RunFront, PopLoad, PopStore, PopOff
<1>2. Done \subseteq Done' /\ Done \subseteq Clicks /\ Done' \subseteq Clicks
  BY <1>1 DEF Done
<1>3. IsFiniteSet(Done) /\ IsFiniteSet(Done')
  BY <1>2, ScriptAssumption, FS_Subset
<1> QED BY <1>1, <1>2, <1>3, FS_Subset, FS_CardinalityType

\* A client pays for each queued text.
LEMMA BudgetStep ==
  ASSUME TypeOK, Stages, Ends, Budget, Next
  PROVE  Budget'
<1> USE DEF uiVars, pipeVars, queueVars, listVars, schedVars
<1>0. Len(delivered) \in Nat /\ delivered \in Seq(Text) /\ WholeScript \in Text
  BY LenProperties DEF TypeOK
<1>1. ASSUME NEW c \in Clicks, Close(c) PROVE Budget'
  <2>1. c \notin Done /\ Done' = Done \cup {c}
    BY <1>1 DEF Close, Done, TypeOK
  <2>2. IsFiniteSet(Done) /\ Cardinality(Done) \in Nat
    BY DoneGrows
  <2>3. Cardinality(Done') = Cardinality(Done) + 1
    BY <2>1, <2>2, FS_AddElement
  <2>4. delivered' = delivered /\ ~Underway
    BY <1>1 DEF Close, Underway
  <2>5. Len(delivered) <= Cardinality(Done)
    BY <1>0, <2>4 DEF Budget
  <2> QED BY <1>0, <2>2, <2>3, <2>4, <2>5 DEF Budget
<1>2. CASE Execute
  <2>1. Underway /\ ~Underway' /\ delivered' = Append(delivered, WholeScript)
    BY <1>2 DEF Execute, Underway, Stages
  <2>2. Len(delivered') = Len(delivered) + 1
    BY <1>0, <2>1, AppendProperties
  <2> QED BY <1>0, <2>1, <2>2, DoneGrows DEF Budget
<1>3. CASE ~Execute /\ \A c \in Clicks : ~Close(c)
  <2>1. delivered' = delivered /\ (Underway' => Underway)
    BY <1>3 DEF Next, UI, Inject, Poll, LuaPipe, Client, Connect, Write, Broken, Listener,
         StartScheduler, Die, CreatePipe, ConnectNamedPipe, ClientArrived, ReadFile, EndOfScript,
         PushLoad, PushStore, DisconnectNamedPipe, Scheduler, PollQueue, RunFront, PopLoad,
         PopStore, PopOff, Underway, Stages, Early
  <2> QED BY <1>0, <2>1, DoneGrows DEF Budget
<1> QED BY <1>1, <1>2, <1>3

-----------------------------------------------------------------------------
(* What is lost. *)

\* Without a '\0' in a script, what is read up to its end is the script.
LEMMA PlainReadToTheEnd ==
  ASSUME NEW c \in Clicks, NulFree(c), NEW w \in Seq(Symbols), NEW rest \in Seq(Symbols),
         ReadUpTo(Script[c], rest, w)
  PROVE  w \o rest = Script[c]
<1>1. PICK consumed \in Heads(Script[c]) : Script[c] = consumed \o rest /\ Arrives(consumed, w)
  BY DEF ReadUpTo
<1>2. Script[c] \in Seq(Symbols)
  BY ScriptAssumption
<1>3. PICK n \in 0 .. Len(Script[c]) : consumed = SubSeq(Script[c], 1, n)
  BY DEF Heads
<1>4. Len(Script[c]) \in Nat
  BY <1>2, LenProperties
<1>5. 1 \in 1 .. Len(Script[c]) + 1 /\ n \in 1 - 1 .. Len(Script[c])
  BY <1>4
<1>6. consumed \in Seq(Symbols)
  BY <1>2, <1>3, <1>5, Part
<1>7. Range(Script[c]) = Range(consumed) \cup Range(rest)
  BY <1>1, <1>6, RangeConcatenation
<1>8. NUL \notin Range(consumed)
  BY <1>7 DEF NulFree
<1> QED BY <1>1, <1>8 DEF Arrives

\* A safe click stays safe as long as it does not connect to a listener that is
\* about to call ConnectNamedPipe: what the clients do.
LEMMA ClientSecure ==
  ASSUME TypeOK, Stages, Ends, Carried, NEW c \in Clicks, Client(c), NEW d \in Clicks, Secure(d),
         ~(Connect(d) /\ listener = "connect")
  PROVE  Secure(d)'
<1> USE DEF uiVars, pipeVars, queueVars, listVars, schedVars
<1>1. CASE Connect(c)
  <2>1. /\ pipe = "listening" /\ owner \notin Clicks /\ listener \in {"connect", "waiting"}
        /\ client' = [client EXCEPT ![c] = "writing"] /\ owner' = c
        /\ UNCHANGED <<listener, delivered>>
    BY <1>1 DEF Connect, Stages, Ends
  <2>2. client[d] # "writing" /\ ~Underway
    BY <2>1 DEF Secure, Underway
  <2>3. client'[d] = "writing" => d = c /\ listener = "waiting"
    BY <1>1, <2>1, <2>2 DEF TypeOK
  <2>4. client'[d] = "done" => client[d] = "done"
    BY <2>1 DEF TypeOK
  <2>5. client'[d] = "writing" => owner' = d /\ listener' \in {"waiting", "reading"}
    BY <2>1, <2>3
  <2>6. client'[d] = "done" /\ Script[d] # <<>> /\ NulFree(d) => Script[d] \in Range(delivered')
    BY <2>1, <2>2, <2>4 DEF Secure
  <2> QED BY <2>5, <2>6 DEF Secure, NulFree
<1>2. CASE Write(c)
  <2>1. pipe = "connected" /\ UNCHANGED <<client, owner, listener, delivered>>
    BY <1>2 DEF Write
  <2>2. ~Underway
    BY <2>1 DEF Underway
  <2> QED BY <2>1, <2>2 DEF Secure, NulFree
<1>3. CASE Close(c)
  <2>1. /\ pipe = "connected" /\ owner = c /\ unsent[c] = <<>> /\ client[c] = "writing"
        /\ client' = [client EXCEPT ![c] = "done"]
        /\ pipe' = "closed" /\ UNCHANGED <<pipeData, WholeScript, listener, delivered>>
    BY <1>3 DEF Close
  <2>2. ~Underway
    BY <2>1 DEF Underway
  <2>3. CASE d = c
    <3>1. listener \in {"waiting", "reading"} /\ Underway'
      BY <2>1, <2>3 DEF Secure, Underway
    <3>2. ASSUME NulFree(d) PROVE Content' = Script[d]
      <4>1. pipeData \in Seq(Symbols) /\ WholeScript \in Seq(Symbols)
        BY OfSymbols
      <4>2. pipeData \o unsent[c] = pipeData
        BY <2>1, <4>1, ConcatEmptySeq
      <4>3. ReadUpTo(Script[d], pipeData, WholeScript)
        BY <2>1, <2>3, <4>2 DEF Carried
      <4>4. WholeScript \o pipeData = Script[d]
        BY <3>2, <4>1, <4>3, PlainReadToTheEnd
      <4> QED BY <2>1, <4>4 DEF Content
    <3>3. client'[d] = "done" /\ listener' # "connect"
      BY <2>1, <2>3, <3>1 DEF TypeOK
    <3> QED BY <3>1, <3>2, <3>3 DEF Secure, NulFree
  <2>4. CASE d # c
    <3>1. client'[d] = client[d] /\ client[d] # "writing"
      BY <2>1, <2>4 DEF Secure, TypeOK
    <3> QED BY <2>1, <2>2, <3>1 DEF Secure, NulFree
  <2> QED BY <2>3, <2>4
<1>4. CASE Broken(c)
  <2>1. d # c /\ client'[d] = client[d] /\ UNCHANGED <<pipeVars, listVars>>
    BY <1>4 DEF Broken, Secure, TypeOK
  <2> QED BY <2>1 DEF Secure, NulFree, Underway, Content
<1> QED BY <1>1, <1>2, <1>3, <1>4 DEF Client

\* ... and what the listener does.
LEMMA ListenerSecure ==
  ASSUME TypeOK, Stages, Ends, Listener, NEW d \in Clicks, Secure(d)
  PROVE  Secure(d)'
<1> USE DEF uiVars, pipeVars, queueVars, listVars, schedVars
<1>1. CASE StartScheduler \/ Die \/ CreatePipe
  <2>1. /\ pipe = "none" /\ UNCHANGED <<client, owner, delivered>> /\ owner \notin Clicks
    BY <1>1 DEF StartScheduler, Die, CreatePipe, Stages, Early, Ends
  <2> QED BY <2>1 DEF Secure, Underway, NulFree
<1>2. CASE ConnectNamedPipe
  <2>1. listener = "connect" /\ UNCHANGED <<client, owner, delivered>>
    BY <1>2 DEF ConnectNamedPipe
  <2> QED BY <2>1 DEF Secure, NulFree
<1>3. CASE ClientArrived
  BY <1>3 DEF ClientArrived, Secure, Underway, Content, NulFree
<1>4. CASE ReadFile
  <2>1. UNCHANGED <<client, pipe, owner, listener, delivered>>
    BY <1>4 DEF ReadFile
  <2>2. ASSUME NulFree(d), Content = Script[d] PROVE Content' = Content
    <3>1. PICK n \in 1 .. Len(pipeData) :
             /\ WholeScript' = WholeScript \o CString(SubSeq(pipeData, 1, n))
             /\ pipeData' = SubSeq(pipeData, n + 1, Len(pipeData))
      BY <1>4 DEF ReadFile
    <3>2. WholeScript \in Seq(Symbols) /\ pipeData \in Seq(Symbols) /\ Len(pipeData) \in Nat
      BY OfSymbols
    <3> DEFINE chunk == SubSeq(pipeData, 1, n)
               rest  == SubSeq(pipeData, n + 1, Len(pipeData))
    <3>3. chunk \in Seq(Symbols) /\ rest \in Seq(Symbols)
      BY <3>2, Part
    <3>4. chunk \o rest = pipeData
      BY <3>2, CutAndJoin
    <3>5. WholeScript' = WholeScript \o CString(chunk) /\ pipeData' = rest
      BY <3>1
    <3> HIDE DEF chunk, rest
    <3>6. /\ Range(pipeData) = Range(chunk) \cup Range(rest)
          /\ Range(Content) = Range(WholeScript) \cup Range(pipeData)
      <4>1. Range(chunk \o rest) = Range(chunk) \cup Range(rest)
        BY <3>3, RangeConcatenation
      <4>2. Range(WholeScript \o pipeData) = Range(WholeScript) \cup Range(pipeData)
        BY <3>2, RangeConcatenation
      <4> QED BY <3>4, <4>1, <4>2 DEF Content
    <3>7. CString(chunk) = chunk
      BY <2>2, <3>3, <3>6, ChunkText DEF NulFree
    <3>8. (WholeScript \o chunk) \o rest = WholeScript \o (chunk \o rest)
      BY <3>2, <3>3, SymbolsAssociative, Zenon
    <3> QED BY <3>4, <3>5, <3>7, <3>8 DEF Content
  <2> QED BY <2>1, <2>2 DEF Secure, Underway, NulFree
<1>5. CASE EndOfScript
  <2>1. /\ listener = "reading" /\ pipe = "closed" /\ pipeData = <<>>
        /\ listener' = IF WholeScript = <<>> THEN "disconnect" ELSE "execute"
        /\ UNCHANGED <<client, pipeVars, WholeScript, delivered>>
    BY <1>5 DEF EndOfScript
  <2>2. client[d] # "writing"
    BY <2>1 DEF Secure, Ends
  <2>3. Content = WholeScript
    <3>1. WholeScript \in Text
      BY DEF TypeOK
    <3> QED BY <2>1, <3>1, ConcatEmptySeq DEF Content, Text
  <2> QED BY <2>1, <2>2, <2>3 DEF Secure, Underway, Content, NulFree
<1>6. CASE Execute
  <2>1. /\ pipe = "closed" /\ pipeData = <<>> /\ UNCHANGED <<client, owner>>
        /\ delivered' = Append(delivered, WholeScript)
    BY <1>6 DEF Execute, Stages
  <2>2. client[d] # "writing"
    BY <1>6, <2>1 DEF Secure, Ends
  <2>3. WholeScript \in Text /\ delivered \in Seq(Text) /\ Len(delivered) \in Nat
    BY LenProperties DEF TypeOK
  <2>4. Content = WholeScript
    BY <2>1, <2>3, ConcatEmptySeq DEF Content, Text
  <2>5. /\ DOMAIN delivered = 1 .. Len(delivered)
        /\ DOMAIN delivered' = 1 .. Len(delivered) + 1
        /\ \A i \in 1 .. Len(delivered) : delivered'[i] = delivered[i]
        /\ delivered'[Len(delivered) + 1] = WholeScript
    BY <2>1, <2>3, AppendProperties, LenProperties
  <2>6. Range(delivered) \cup {WholeScript} \subseteq Range(delivered')
    <3>1. Len(delivered) + 1 \in 1 .. Len(delivered) + 1
          /\ \A i \in 1 .. Len(delivered) : i \in 1 .. Len(delivered) + 1
      BY <2>3
    <3> QED BY <2>5, <3>1 DEF Range
  <2> QED BY <2>1, <2>2, <2>4, <2>6 DEF Secure, NulFree
<1>7. CASE PushLoad \/ PushStore
  <2>1. /\ pipe = "closed" /\ ~Underway /\ UNCHANGED <<client, owner, delivered>>
    BY <1>7 DEF PushLoad, PushStore, Stages, Underway
  <2>2. client[d] # "writing"
    BY <2>1 DEF Secure, Ends
  <2> QED BY <2>1, <2>2 DEF Secure, NulFree
<1>8. CASE DisconnectNamedPipe
  <2>1. listener = "disconnect" /\ ~Underway /\ UNCHANGED <<client, delivered>>
    BY <1>8 DEF DisconnectNamedPipe, Underway
  <2> QED BY <2>1 DEF Secure, NulFree
<1> QED BY <1>1, <1>2, <1>3, <1>4, <1>5, <1>6, <1>7, <1>8 DEF Listener

\* Only a click that connects before the first ConnectNamedPipe is not safe.
LEMMA LossesStep ==
  ASSUME TypeOK, Stages, Ends, Carried, Losses, Next
  PROVE  Losses'
<1> USE DEF uiVars, pipeVars, queueVars, listVars, schedVars
<1>1. PICK early \in Clicks \cup {Nobody} :
         (\A d \in Clicks \ {early} : Secure(d)) /\ (Unserved => early = Nobody)
  BY DEF Losses
<1>2. ASSUME NEW d \in Clicks, Secure(d), ~(Connect(d) /\ listener = "connect")
      PROVE  Secure(d)'
  <2>1. CASE UI
    <3>1. /\ UNCHANGED <<pipeVars, WholeScript, delivered>>
          /\ listener' = listener \/ pipe = "none"
          /\ client'[d] \in {"writing", "done"} => client'[d] = client[d]
      BY <2>1 DEF UI, Inject, Poll, LuaPipe, NamedPipeExist, TypeOK
    <3>2. pipe = "none" => owner \notin Clicks
      BY DEF Ends
    <3> QED BY <1>2, <3>1, <3>2 DEF Secure, Underway, Content, NulFree
  <2>2. CASE Scheduler
    BY <1>2, <2>2 DEF Scheduler, PollQueue, RunFront, PopLoad, PopStore, PopOff, Secure, Underway,
                      Content, NulFree
  <2> QED BY <1>2, <2>1, <2>2, ClientSecure, ListenerSecure DEF Next
<1>3. CASE \E c \in Clicks : Connect(c) /\ listener = "connect"
  <2>1. PICK c \in Clicks : Connect(c) /\ listener = "connect"
    BY <1>3
  <2>2. early = Nobody /\ ~Unserved'
    BY <1>1, <2>1 DEF Connect, Unserved, Early
  <2>3. \A d \in Clicks \ {c} : Secure(d) /\ ~Connect(d)
    BY <1>1, <2>1, <2>2, ScriptAssumption DEF Connect
  <2> QED BY <1>2, <2>2, <2>3 DEF Losses
<1>4. CASE ~\E c \in Clicks : Connect(c) /\ listener = "connect"
  <2>1. Unserved' => Unserved
    BY <1>4 DEF Next, UI, Inject, Poll, LuaPipe, Client, Connect, Write, Close, Broken, Listener,
         StartScheduler, Die, CreatePipe, ConnectNamedPipe, ClientArrived, ReadFile, EndOfScript,
         Execute, PushLoad, PushStore, DisconnectNamedPipe, Scheduler, PollQueue, RunFront,
         PopLoad, PopStore, PopOff, Unserved, Early
  <2> QED BY <1>1, <1>2, <1>4, <2>1 DEF Losses
<1> QED BY <1>3, <1>4

-----------------------------------------------------------------------------
(* The theorems. *)

\* The initial state satisfies the invariant: no thread but the UI's has started.
LEMMA InitArrival == Init => ArrivalInv
<1> SUFFICES ASSUME Init PROVE ArrivalInv
  OBVIOUS
<1>1. Carried
  BY ScriptAssumption DEF Init, Carried, Underway
<1>2. Len(delivered) = 0 /\ DOMAIN delivered = {}
  BY EmptySeq DEF Init
<1>3. Done = {} /\ Cardinality({}) = 0
  BY FS_EmptySet DEF Init, Done
<1>4. Budget
  BY <1>2, <1>3 DEF Budget, Init, Underway
<1>5. \A c \in Clicks \ {Nobody} : Secure(c)
  BY DEF Init, Secure
<1> QED BY <1>1, <1>2, <1>4, <1>5 DEF ArrivalInv, Arrived, Losses

\* Every step preserves it.
LEMMA StepArrival == PipelineInv /\ ArrivalInv /\ [Next]_vars => ArrivalInv'
<1> SUFFICES ASSUME PipelineInv, ArrivalInv, [Next]_vars PROVE ArrivalInv'
  OBVIOUS
<1>1. TypeOK /\ Stages /\ Ends /\ Carried /\ Arrived /\ Budget /\ Losses
  BY DEF PipelineInv, ArrivalInv
<1>2. CASE Next
  BY <1>1, <1>2, CarriedStep, ArrivedStep, BudgetStep, LossesStep DEF ArrivalInv
<1>3. CASE UNCHANGED vars
  <2> USE DEF vars, uiVars, pipeVars, listVars
  <2>1. Carried' /\ Arrived'
    BY <1>1, <1>3 DEF Carried, Underway, Arrived
  <2>2. Budget'
    BY <1>1, <1>3 DEF Budget, Underway, Done
  <2>3. \A c \in Clicks : Secure(c) => Secure(c)'
    BY <1>3 DEF Secure, Underway, Content, NulFree
  <2>4. Losses'
    BY <1>1, <1>3, <2>3 DEF Losses, Unserved, Early
  <2> QED BY <2>1, <2>2, <2>4 DEF ArrivalInv
<1> QED BY <1>2, <1>3

\* It holds in every reachable state.
THEOREM ArrivalInvariant == Spec => []ArrivalInv
BY InitArrival, StepArrival, PipelineInvariant, PTL DEF Spec

\* Whatever chunks ReadFile returns and wherever scripts hold a '\0', what is
\* queued is what may arrive of one click's script, and no more texts are queued
\* than clients have come and gone.
THEOREM EveryTextArrives == Spec => []ScriptsArrive
<1>1. PipelineInv /\ ArrivalInv => ScriptsArrive
  <2> SUFFICES ASSUME PipelineInv, ArrivalInv PROVE ScriptsArrive
    OBVIOUS
  <2>1. Len(delivered) \in Nat
    BY LenProperties DEF PipelineInv, TypeOK
  <2>2. IsFiniteSet(Done)
    BY ScriptAssumption, FS_Subset DEF Done
  <2>3. Cardinality(Done) \in Nat
    BY <2>2, FS_CardinalityType
  <2>4. Len(delivered) <= Cardinality(Done)
    BY <2>1, <2>3 DEF ArrivalInv, Budget
  <2> QED BY <2>4 DEF ArrivalInv, Arrived, ScriptsArrive, Done
<1> QED BY <1>1, PipelineInvariant, ArrivalInvariant, PTL

\* However many scripts are sent, at most one of those that were written without
\* an error never reaches the queue: the one whose client connects between
\* CreateNamedPipe and the first ConnectNamedPipe.
THEOREM AtMostOneIsLost == Spec => []OneLossAtMost
<1>1. ArrivalInv => OneLossAtMost
  <2> SUFFICES ASSUME ArrivalInv PROVE OneLossAtMost
    OBVIOUS
  <2>1. PICK early \in Clicks \cup {Nobody} : \A c \in Clicks \ {early} : Secure(c)
    BY DEF ArrivalInv, Losses
  <2> DEFINE L == {c \in Clicks : Lost(c)}
  <2>2. L \subseteq {early}
    BY <2>1 DEF Secure, Lost, Content
  <2>3. IsFiniteSet({early}) /\ Cardinality({early}) = 1
    BY FS_Singleton
  <2>4. Cardinality(L) <= 1
    BY <2>2, <2>3, FS_Subset
  <2> QED BY <2>4 DEF OneLossAtMost
<1> QED BY <1>1, ArrivalInvariant, PTL
=============================================================================
