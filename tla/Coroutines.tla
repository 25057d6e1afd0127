----------------------------- MODULE Coroutines -----------------------------
(***************************************************************************)
(* What coroutines and protected calls promise to a script: each coroutine *)
(* is a stack of activations, one runs at a time and knows who resumed it, *)
(* an error goes to the innermost protected call of its own coroutine,     *)
(* else to the resumer, and a coroutine yields from any depth except       *)
(* inside a metamethod or an error handler.  A handler runs on top of the  *)
(* activations that the error left.                                        *)
(***************************************************************************)
EXTENDS Integers, Sequences

CONSTANTS Threads, MaxFrames

VARIABLES stack, life,
          resumer,   \* who resumed a coroutine; itself where the host did
          raising

vars == <<stack, life, resumer, raising>>

Front(s) == SubSeq(s, 1, Len(s) - 1)
Top(s) == s[Len(s)]
Below(s, i) == SubSeq(s, 1, i - 1)
Idle == \A t \in Threads : life[t] # "running"
Calm(co) == life[co] = "running" /\ ~raising
Put(t, s) == stack' = [stack EXCEPT ![t] = s]
Place(co, kinds) == /\ Len(stack[co]) + Len(kinds) <= MaxFrames
                    /\ Put(co, stack[co] \o kinds)

Init == /\ stack = [t \in Threads |-> <<>>]
        /\ life = [t \in Threads |-> "dead"]
        /\ resumer = [t \in Threads |-> t]
        /\ raising = FALSE

Load == /\ Idle
        /\ \E t \in Threads : /\ life[t] = "dead"
                              /\ life' = [life EXCEPT ![t] = "fresh"]
                              /\ Put(t, <<>>)
        /\ UNCHANGED <<resumer, raising>>

\* A coroutine starts with its body, or goes on after its yield; a yield that
\* was called by pcall itself completes that pcall.
Woken(co) ==
  IF life[co] = "fresh" THEN <<"body">>
  ELSE LET s == Front(stack[co])
       IN  IF Top(s) \in {"pcall", "xpcall"} THEN Front(s) ELSE s

HostResume == /\ Idle
              /\ \E co \in Threads : /\ life[co] \in {"fresh", "suspended"}
                                     /\ life' = [life EXCEPT ![co] = "running"]
                                     /\ Put(co, Woken(co))
              /\ UNCHANGED <<resumer, raising>>

Call(co) == /\ Calm(co)
            /\ \E k \in {"lua", "tm"} : Place(co, <<k>>)
            /\ UNCHANGED <<life, resumer, raising>>
Protect(co) == /\ Calm(co)
               /\ \E k \in {"pcall", "xpcall"} : Place(co, <<k, "body">>)
               /\ UNCHANGED <<life, resumer, raising>>

\* Error and limits: any operation may instead fail, a library function too.
Raise(co) == /\ Calm(co) /\ raising' = TRUE
             /\ UNCHANGED <<life, resumer>>
             /\ \/ UNCHANGED stack
                \/ \E k \in {"yield", "pcall", "xpcall"} : Put(co, Append(stack[co], k))

\* Control goes back to the resumer, whose call of resume or wrap is over; an
\* error goes on through wrap.
HandBack(co, s, fate, failed) ==
  LET from == resumer[co]
      again == failed /\ from # co /\ Top(stack[from]) = "wrap"
  IN /\ resumer' = [resumer EXCEPT ![co] = co]
     /\ life' = [t \in Threads |-> IF t = co THEN fate
                                   ELSE IF t = from THEN "running" ELSE life[t]]
     /\ raising' = again
     /\ stack' = [t \in Threads |-> IF t = co THEN s
                                    ELSE IF t = from /\ ~again THEN Front(stack[t])
                                    ELSE stack[t]]

Mid(s) == \E i \in DOMAIN s : s[i] \in {"tm", "handler"}
Yield(co) == /\ Calm(co) /\ ~Mid(stack[co])
             /\ \E k \in {<<"yield">>, <<"pcall", "yield">>} :
                  /\ Len(stack[co]) + Len(k) <= MaxFrames
                  /\ HandBack(co, stack[co] \o k, "suspended", FALSE)

\* The innermost protected call, and what is left when it is over.
Catchers(s) == {i \in DOMAIN s : s[i] \in {"pcall", "xpcall", "handler"}}
Innermost(s, i) == i \in Catchers(s) /\ \A j \in Catchers(s) : j <= i
End(co, s) == \E i \in DOMAIN s : Innermost(s, i) /\ Put(co, Below(s, i))

\* A function returns to the function that called it, to the protected call
\* that is then over too, or from the whole coroutine.
Return(co) ==
  /\ Calm(co)
  /\ LET s == stack[co]
         below == Front(s)
     IN \/ /\ \/ Top(s) \in {"lua", "tm"} /\ Put(co, below)
              \/ Top(s) = "body" /\ below # <<>> /\ Put(co, Front(below))
              \/ Top(s) = "handler" /\ End(co, below)
           /\ UNCHANGED <<life, resumer, raising>>
        \/ s = <<"body">> /\ HandBack(co, <<>>, "dead", FALSE)

\* An error goes to the innermost pcall, xpcall or error handler.  An error
\* in a handler, or no room to run it, ends its xpcall.
Catch(co) ==
  /\ life[co] = "running" /\ raising
  /\ LET s == stack[co]
     IN \/ Catchers(s) = {} /\ HandBack(co, <<>>, "dead", TRUE)
        \/ /\ \E i \in DOMAIN s :
                /\ Innermost(s, i)
                /\ \/ s[i] # "handler" /\ Put(co, Below(s, i))
                   \/ s[i] = "handler" /\ End(co, Below(s, i))
                   \/ s[i] = "xpcall" /\ Put(co, Append(s, "handler"))
           /\ raising' = FALSE /\ UNCHANGED <<life, resumer>>

\* Only a suspended or fresh coroutine is resumed.  Where the limit of nested
\* resumes is reached a fresh one dies and a suspended one stays as it is.
Resume(co, to, how) ==
  /\ Calm(co) /\ Len(stack[co]) + 1 <= MaxFrames
  /\ life[to] \in {"fresh", "suspended"}
  /\ life' = [life EXCEPT ![to] = "running", ![co] = "normal"]
  /\ resumer' = [resumer EXCEPT ![to] = co]
  /\ stack' = [stack EXCEPT ![to] = Woken(to), ![co] = Append(@, how)]
  /\ UNCHANGED raising
Refused(co, to, how) ==
  /\ Calm(co)
  /\ life' = [life EXCEPT ![to] = IF @ = "fresh" THEN "dead" ELSE @]
  /\ raising' = (how = "wrap")
  /\ IF how = "wrap" THEN Put(co, Append(stack[co], how)) ELSE UNCHANGED stack
  /\ UNCHANGED resumer

Create(co, new) == /\ Calm(co) /\ life[new] = "dead"
                   /\ life' = [life EXCEPT ![new] = "fresh"]
                   /\ Put(new, <<>>)
                   /\ UNCHANGED <<resumer, raising>>

Close(co, old) == /\ Calm(co) /\ life[old] \in {"fresh", "suspended", "dead"}
                  /\ life' = [life EXCEPT ![old] = "dead"]
                  /\ Put(old, <<>>)
                  /\ UNCHANGED <<resumer, raising>>

Next ==
  \/ Load \/ HostResume
  \/ \E co \in Threads :
       \/ Call(co) \/ Protect(co) \/ Raise(co) \/ Yield(co) \/ Return(co) \/ Catch(co)
       \/ \E t \in Threads : \/ Create(co, t) \/ Close(co, t)
                             \/ \E how \in {"resume", "wrap"} :
                                  Resume(co, t, how) \/ Refused(co, t, how)

Spec == Init /\ [][Next]_vars
=============================================================================
