---------------------------- MODULE LoggerProofs ----------------------------
(***************************************************************************)
(* Proofs about Logger, for any log handlers, any of which may call the    *)
(* SDK, any levels, any number of messages and so calls within calls of    *)
(* any depth: whom veides_log calls, and when what it hands over is whole. *)
(***************************************************************************)
EXTENDS Logger, TLAPS

(***************************************************************************)
(* The inductive invariant                                                 *)
(***************************************************************************)

LoggerTyped ==
    /\ logHandler \in Handlers \cup {NoHandler}
    /\ message \in Halves
    /\ unlogged \in Nat /\ logged \in Nat
    /\ stack \in [Threads -> Seq(Calls)]

\* A call past the test of logHandler has seen one, and none is taken away.
HandlerInv ==
    \A t \in Threads : \A k \in DOMAIN stack[t] :
        /\ stack[t][k].pc # "test" => logHandler # NoHandler
        /\ stack[t][k].pc \in InHandler => stack[t][k].handler # NoHandler

\* Of two calls that use the buffer at once, in two threads both know it, in one
\* thread the outer one does.
SharedInv ==
    \A t, u \in Threads : \A k \in DOMAIN stack[t], j \in DOMAIN stack[u] :
        /\ t = u => k < j
        /\ stack[t][k].pc \in InBuffer /\ stack[u][j].pc \in InBuffer
        => <<t, k>> \in shared

\* How far the call c, alone in the buffer m, has written and read its message.
Progress(c, m) ==
    /\ c.pc \in {"second", "call", "read1"} => m[1] = c.number
    /\ c.pc \in {"call", "read1", "read2"}  => m[2] = c.number
    /\ c.pc \in {"read2", "act", "lock"} => c.got[1] = c.number
    /\ c.pc \in {"act", "lock"} => c.got[2] = c.number

AloneInv ==
    \A t \in Threads : \A k \in DOMAIN stack[t] :
        <<t, k>> \notin shared => Progress(stack[t][k], message)

Inv == LoggerTyped /\ HandlerInv /\ SharedInv /\ AloneInv

LEMMA InitInv == Init => Inv
<1>. SUFFICES ASSUME Init PROVE Inv
  OBVIOUS
<1>1. \A t \in Threads : stack[t] = <<>> /\ DOMAIN stack[t] = {}
  BY DEF Init
<1>2. LoggerTyped
  BY <1>1 DEF Init, LoggerTyped, Whole, Halves
<1>3. HandlerInv /\ SharedInv /\ AloneInv
  BY <1>1 DEF HandlerInv, SharedInv, AloneInv
<1>. QED
  BY <1>2, <1>3 DEF Inv

-----------------------------------------------------------------------------
(* The three things that happen to a stack                                 *)

\* The innermost call of t goes on, and every other call stays.
LEMMA GoOnStack ==
    ASSUME LoggerTyped, NEW t \in Threads, ~Idle(t), NEW c \in Calls, GoOn(t, c)
    PROVE  /\ Top(t) \in Calls /\ Depth(t) \in DOMAIN stack[t]
           /\ stack' \in [Threads -> Seq(Calls)]
           /\ \A u \in Threads : DOMAIN stack'[u] = DOMAIN stack[u]
           /\ \A u \in Threads : \A k \in DOMAIN stack[u] :
                stack'[u][k] = IF u = t /\ k = Depth(t) THEN c ELSE stack[u][k]
           /\ \A k \in DOMAIN stack[t] : k # Depth(t) => k < Depth(t)
<1>. DEFINE s == stack[t]
            d == Depth(t)
<1>1. s \in Seq(Calls) /\ s # <<>> /\ d = Len(s)
  BY DEF LoggerTyped, Idle, Depth
<1>2. d \in Nat \ {0} /\ DOMAIN s = 1..d /\ s[d] \in Calls
  BY <1>1
<1>3. stack' = [stack EXCEPT ![t] = [s EXCEPT ![d] = c]]
  BY DEF GoOn
<1>4. [s EXCEPT ![d] = c] \in Seq(Calls)
  BY <1>1, <1>2
<1>. QED
  BY <1>1, <1>2, <1>3, <1>4 DEF LoggerTyped, Top

\* t returns: no call is new.
LEMMA ReturnStack ==
    ASSUME LoggerTyped, NEW t \in Threads, ~Idle(t), Return(t)
    PROVE  /\ stack' \in [Threads -> Seq(Calls)]
           /\ \A u \in Threads : \A k \in DOMAIN stack'[u] :
                k \in DOMAIN stack[u] /\ stack'[u][k] = stack[u][k]
<1>. DEFINE s == stack[t]
            r == SubSeq(s, 1, Len(s) - 1)
<1>1. s \in Seq(Calls) /\ s # <<>>
  BY DEF LoggerTyped, Idle
<1>2. Len(s) \in Nat \ {0} /\ DOMAIN s = 1..Len(s)
  BY <1>1
<1>3. r \in Seq(Calls) /\ Len(r) = Len(s) - 1 /\ \A k \in 1..(Len(s) - 1) : r[k] = s[k]
  BY <1>1, <1>2
<1>4. DOMAIN r = 1..(Len(s) - 1)
  BY <1>3
<1>5. stack' = [stack EXCEPT ![t] = r]
  BY DEF Return
<1>6. \A k \in DOMAIN r : k \in DOMAIN s /\ r[k] = s[k]
  BY <1>2, <1>3, <1>4
<1>. QED
  BY <1>3, <1>5, <1>6 DEF LoggerTyped

\* t logs: the only new call is at the test of the handler.
LEMMA LogStack ==
    ASSUME LoggerTyped, NEW t \in Threads, NEW l, NEW number \in Nat, Log(t, l, number)
    PROVE  /\ stack' \in [Threads -> Seq(Calls)]
           /\ \A u \in Threads : \A k \in DOMAIN stack'[u] :
                \/ k \in DOMAIN stack[u] /\ stack'[u][k] = stack[u][k]
                \/ stack'[u][k].pc = "test"
<1>. DEFINE s == stack[t]
            c == Call(number)
            a == Append(s, c)
<1>1. c \in Calls /\ c.pc = "test"
  BY DEF Call, Calls, Whole, Halves
<1>2. s \in Seq(Calls) /\ DOMAIN s = 1..Len(s)
  BY DEF LoggerTyped
<1>. HIDE DEF c
<1>3. a \in Seq(Calls) /\ Len(a) = Len(s) + 1 /\ a[Len(s) + 1] = c
      /\ \A k \in 1..Len(s) : a[k] = s[k]
  BY <1>1, <1>2
<1>4. \A k \in DOMAIN a : (k \in DOMAIN s /\ a[k] = s[k]) \/ a[k].pc = "test"
  BY <1>1, <1>2, <1>3
<1>5. stack' = stack \/ stack' = [stack EXCEPT ![t] = a]
  BY DEF Log, c
<1>. QED
  BY <1>3, <1>4, <1>5 DEF LoggerTyped

-----------------------------------------------------------------------------
(* The steps                                                               *)

\* A step outside the buffer: calls begin and end, a handler is set.
LEMMA OutsideKeeps ==
    ASSUME Inv, stack' \in [Threads -> Seq(Calls)],
           \A u \in Threads : \A k \in DOMAIN stack'[u] :
                \/ k \in DOMAIN stack[u] /\ stack'[u][k] = stack[u][k]
                \/ stack'[u][k].pc = "test",
           UNCHANGED <<message, shared>>,
           logHandler' \in Handlers \/ logHandler' = logHandler,
           unlogged' \in Nat, logged' \in Nat
    PROVE  Inv'
<1>1. LoggerTyped'
  BY DEF Inv, LoggerTyped
<1>2. HandlerInv'
  BY LoggerConstants DEF Inv, HandlerInv, InHandler
<1>3. SharedInv'
  BY DEF Inv, SharedInv, InBuffer
<1>4. AloneInv'
  BY DEF Inv, AloneInv, Progress
<1>. QED
  BY <1>1, <1>2, <1>3, <1>4 DEF Inv

LEMMA LogKeeps ==
    ASSUME Inv, NEW t \in Threads, NEW l, NEW number \in Nat, Log(t, l, number),
           UNCHANGED <<message, shared>>,
           logHandler' \in Handlers \/ logHandler' = logHandler,
           unlogged' \in Nat, logged' \in Nat
    PROVE  Inv'
<1>1. LoggerTyped
  BY DEF Inv
<1>2. /\ stack' \in [Threads -> Seq(Calls)]
      /\ \A u \in Threads : \A k \in DOMAIN stack'[u] :
            \/ k \in DOMAIN stack[u] /\ stack'[u][k] = stack[u][k]
            \/ stack'[u][k].pc = "test"
  BY <1>1, LogStack
<1>. QED
  BY <1>2, OutsideKeeps

LEMMA ReturnKeeps ==
    ASSUME Inv, NEW t \in Threads, ~Idle(t), Return(t),
           UNCHANGED <<settings, message, lock, logged, shared>>
    PROVE  Inv'
<1>1. LoggerTyped /\ unlogged' \in Nat /\ logged' \in Nat /\ logHandler' = logHandler
  BY DEF Inv, LoggerTyped, lock, settings
<1>2. /\ stack' \in [Threads -> Seq(Calls)]
      /\ \A u \in Threads : \A k \in DOMAIN stack'[u] :
            k \in DOMAIN stack[u] /\ stack'[u][k] = stack[u][k]
  BY <1>1, ReturnStack
<1>. QED
  BY <1>1, <1>2, OutsideKeeps

\* The innermost call of t goes on, as c, without a trace in the buffer or in
\* what the others know of it.
LEMMA GoOnKeeps ==
    ASSUME Inv, NEW t \in Threads, ~Idle(t), NEW c \in Calls, GoOn(t, c),
           UNCHANGED <<settings, lock, logged, message, shared>>,
           c.pc # "test" => logHandler # NoHandler,
           c.pc \in InHandler => c.handler # NoHandler,
           c.pc \in InBuffer => Top(t).pc \in InBuffer,
           <<t, Depth(t)>> \notin shared /\ Progress(Top(t), message) => Progress(c, message)
    PROVE  Inv'
<1>1. /\ Depth(t) \in DOMAIN stack[t]
      /\ stack' \in [Threads -> Seq(Calls)]
      /\ \A u \in Threads : DOMAIN stack'[u] = DOMAIN stack[u]
      /\ \A u \in Threads : \A k \in DOMAIN stack[u] :
           stack'[u][k] = IF u = t /\ k = Depth(t) THEN c ELSE stack[u][k]
  BY GoOnStack DEF Inv
<1>2. Top(t) = stack[t][Depth(t)]
  BY DEF Top
<1>3. LoggerTyped'
  BY <1>1 DEF Inv, LoggerTyped, settings, lock
<1>4. HandlerInv'
  BY <1>1 DEF Inv, HandlerInv, settings
<1>5. SharedInv'
  BY <1>1, <1>2 DEF Inv, SharedInv
<1>6. AloneInv'
  <2>1. message' = message /\ shared' = shared
    OBVIOUS
  <2>. QED
    BY <1>1, <1>2, <2>1 DEF Inv, AloneInv
<1>. QED
  BY <1>3, <1>4, <1>5, <1>6 DEF Inv

LEMMA TestHandlerKeeps ==
    ASSUME Inv, NEW t \in Threads, TestHandler(t)
    PROVE  Inv'
<1>1. ~Idle(t) /\ UNCHANGED <<settings, message, lock, logged, shared>>
  BY DEF TestHandler, At
<1>2. CASE logHandler = NoHandler
  BY <1>1, <1>2, ReturnKeeps DEF TestHandler
<1>3. CASE logHandler # NoHandler
  <2>. DEFINE c == [Top(t) EXCEPT !.pc = "clear"]
  <2>1. Top(t) \in Calls
    BY <1>1 DEF Inv, LoggerTyped, Idle, Top, Depth
  <2>2. c \in Calls /\ c.pc = "clear"
    BY <2>1 DEF Calls
  <2>3. GoOn(t, c)
    BY <1>3 DEF TestHandler
  <2>. HIDE DEF c
  <2>4. Progress(c, message)
    BY <2>2 DEF Progress
  <2>. QED
    BY <1>1, <1>3, <2>2, <2>3, <2>4, GoOnKeeps DEF InHandler, InBuffer
<1>. QED
  BY <1>2, <1>3

\* The mutex taken and given back, in a handler that has read its message.
LEMMA HandlerCallsKeeps ==
    ASSUME Inv, NEW t \in Threads, HandlerCalls(t) \/ HandlerLocks(t)
    PROVE  Inv'
<1>1. PICK pc \in {"act", "lock"} : GoOn(t, [Top(t) EXCEPT !.pc = pc])
  BY DEF HandlerCalls, HandlerLocks
<1>. DEFINE c == [Top(t) EXCEPT !.pc = pc]
<1>2. /\ ~Idle(t) /\ Top(t).pc \in {"act", "lock"}
      /\ UNCHANGED <<settings, message, lock, logged, shared>>
  BY DEF HandlerCalls, HandlerLocks, At
<1>3. Top(t) \in Calls /\ Depth(t) \in DOMAIN stack[t]
  BY <1>2 DEF Inv, LoggerTyped, Idle, Top, Depth
<1>4. /\ c \in Calls /\ c.pc = pc /\ c.number = Top(t).number
      /\ c.handler = Top(t).handler /\ c.got = Top(t).got
  BY <1>3 DEF Calls, InHandler
<1>5. logHandler # NoHandler /\ Top(t).handler # NoHandler
  BY <1>2, <1>3 DEF Inv, HandlerInv, Top, InHandler
<1>. HIDE DEF c
<1>6. Progress(Top(t), message) => Progress(c, message)
  BY <1>2, <1>4 DEF Progress
<1>. QED
  BY <1>1, <1>2, <1>4, <1>5, <1>6, GoOnKeeps DEF InBuffer, c

LEMMA CallHandlerKeeps ==
    ASSUME Inv, NEW t \in Threads, CallHandler(t)
    PROVE  Inv'
<1>. DEFINE c == [Top(t) EXCEPT !.pc = "read1", !.handler = logHandler]
<1>1. /\ ~Idle(t) /\ Top(t).pc = "call" /\ GoOn(t, c)
      /\ UNCHANGED <<settings, message, lock, logged, shared>>
  BY DEF CallHandler, At
<1>2. Top(t) \in Calls /\ Depth(t) \in DOMAIN stack[t]
  BY <1>1 DEF Inv, LoggerTyped, Idle, Top, Depth
<1>3. /\ c \in Calls /\ c.pc = "read1" /\ c.handler = logHandler
      /\ c.number = Top(t).number
  BY <1>2 DEF Calls, InBuffer, Inv, LoggerTyped
<1>4. logHandler # NoHandler
  BY <1>1, <1>2 DEF Inv, HandlerInv, Top
<1>. HIDE DEF c
<1>5. Progress(Top(t), message) => Progress(c, message)
  BY <1>1, <1>3 DEF Progress
<1>. QED
  BY <1>1, <1>3, <1>4, <1>5, GoOnKeeps DEF InBuffer

LEMMA HandlerReadsKeeps ==
    ASSUME Inv, NEW t \in Threads, HandlerReads(t)
    PROVE  Inv'
<1>1. ~Idle(t) /\ UNCHANGED <<settings, message, lock, logged, shared>>
  BY DEF HandlerReads, At
<1>2. Top(t) \in Calls /\ Depth(t) \in DOMAIN stack[t] /\ message \in Halves
  BY <1>1 DEF Inv, LoggerTyped, Idle, Top, Depth
<1>3. Top(t).got \in Halves
  BY <1>2 DEF Calls
<1>4. PICK pc \in {"read2", "act"}, g \in Halves :
        /\ GoOn(t, [Top(t) EXCEPT !.pc = pc, !.got = g])
        /\ \/ /\ Top(t).pc = "read1" /\ pc = "read2"
              /\ g = [Top(t).got EXCEPT ![1] = message[1]]
           \/ /\ Top(t).pc = "read2" /\ pc = "act"
              /\ g = [Top(t).got EXCEPT ![2] = message[2]]
  <2>1. /\ [Top(t).got EXCEPT ![1] = message[1]] \in Halves
        /\ [Top(t).got EXCEPT ![2] = message[2]] \in Halves
    BY <1>2, <1>3 DEF Halves
  <2>. QED
    BY <2>1 DEF HandlerReads, At
<1>. DEFINE c == [Top(t) EXCEPT !.pc = pc, !.got = g]
<1>5. /\ c \in Calls /\ c.pc = pc /\ c.got = g
      /\ c.handler = Top(t).handler /\ c.number = Top(t).number
  BY <1>2 DEF Calls, InBuffer, InHandler
<1>6. logHandler # NoHandler /\ Top(t).handler # NoHandler
  BY <1>2, <1>4 DEF Inv, HandlerInv, Top, InHandler
<1>7. Progress(Top(t), message) => Progress(c, message)
  BY <1>3, <1>4, <1>5 DEF Progress, Halves
<1>8. c.pc \in InBuffer => Top(t).pc \in InBuffer
  BY <1>4, <1>5 DEF InBuffer
<1>. HIDE DEF c
<1>. QED
  BY <1>1, <1>4, <1>5, <1>6, <1>7, <1>8, GoOnKeeps DEF c

\* The buffer is written: whoever else is in it knows of the call that writes.
LEMMA WriteKeeps ==
    ASSUME Inv, NEW t \in Threads, Write(t)
    PROVE  Inv'
<1>1. PICK half \in 1..2, pc \in {"second", "call"} :
        /\ GoOn(t, [Top(t) EXCEPT !.pc = pc])
        /\ message' = [message EXCEPT ![half] = Top(t).number]
        /\ \/ half = 1 /\ Top(t).pc = "first" /\ pc = "second"
           \/ half = 2 /\ Top(t).pc = "second" /\ pc = "call"
  BY DEF Write, At
<1>. DEFINE c == [Top(t) EXCEPT !.pc = pc]
<1>2. ~Idle(t) /\ UNCHANGED <<settings, lock, logged, shared>>
  BY DEF Write, At
<1>3. Top(t) \in Calls /\ message \in Halves
  BY <1>2 DEF Inv, LoggerTyped, Idle, Top, Depth
<1>4. /\ c \in Calls /\ c.pc = pc /\ c.number = Top(t).number
      /\ c.number \in Nat
  BY <1>3 DEF Calls, InBuffer
<1>5. GoOn(t, c)
  BY <1>1
<1>. HIDE DEF c
<1>6. /\ Depth(t) \in DOMAIN stack[t]
      /\ stack' \in [Threads -> Seq(Calls)]
      /\ \A u \in Threads : DOMAIN stack'[u] = DOMAIN stack[u]
      /\ \A u \in Threads : \A k \in DOMAIN stack[u] :
           stack'[u][k] = IF u = t /\ k = Depth(t) THEN c ELSE stack[u][k]
      /\ \A k \in DOMAIN stack[t] : k # Depth(t) => k < Depth(t)
  BY <1>2, <1>4, <1>5, GoOnStack DEF Inv
<1>7. Top(t) = stack[t][Depth(t)]
  BY DEF Top
<1>8. message' \in Halves
  BY <1>1, <1>3, <1>4 DEF Halves
<1>9. LoggerTyped'
  BY <1>2, <1>6, <1>8 DEF Inv, LoggerTyped, settings, lock
<1>10. HandlerInv'
  <2>1. logHandler # NoHandler
    BY <1>1, <1>6, <1>7 DEF Inv, HandlerInv
  <2>2. c.pc \notin InHandler
    BY <1>4 DEF InHandler
  <2>. QED
    BY <1>2, <1>6, <2>1, <2>2 DEF Inv, HandlerInv, settings
<1>11. Top(t).pc \in InBuffer
  BY <1>1 DEF InBuffer
<1>12. SharedInv'
  BY <1>2, <1>6, <1>7, <1>11 DEF Inv, SharedInv
<1>13. AloneInv'
  <2>. SUFFICES ASSUME NEW u \in Threads, NEW k \in DOMAIN stack[u], <<u, k>> \notin shared
                PROVE  Progress(stack'[u][k], message')
    BY <1>2, <1>6 DEF AloneInv
  <2>1. CASE u = t /\ k = Depth(t)
    <3>1. Progress(Top(t), message) /\ stack'[u][k] = c
      BY <1>6, <1>7, <2>1 DEF Inv, AloneInv
    <3>. QED
      BY <1>1, <1>3, <1>4, <3>1 DEF Progress, Halves
  <2>2. CASE ~(u = t /\ k = Depth(t))
    <3>1. stack[u][k].pc \notin InBuffer
      BY <1>6, <1>7, <1>11, <2>2 DEF Inv, SharedInv
    <3>2. Progress(stack[u][k], message) /\ stack'[u][k] = stack[u][k]
      BY <1>6, <2>2 DEF Inv, AloneInv
    <3>. QED
      BY <3>1, <3>2 DEF Progress, InBuffer
  <2>. QED
    BY <2>1, <2>2
<1>. QED
  BY <1>9, <1>10, <1>12, <1>13 DEF Inv

\* The buffer is cleared: whoever else is in it is told, and of the other
\* thread's calls the one that clears is told too.
LEMMA ClearKeeps ==
    ASSUME Inv, NEW t \in Threads, Clear(t)
    PROVE  Inv'
<1>. DEFINE c == [Top(t) EXCEPT !.pc = "first"]
            d == Depth(t)
<1>1. /\ ~Idle(t) /\ Top(t).pc = "clear" /\ GoOn(t, c)
      /\ message' = Whole(0)
      /\ shared' = (shared \ {<<t, d>>}) \cup Using
                       \cup {<<t, d>> : o \in {o \in Using : o[1] # t}}
      /\ UNCHANGED <<settings, lock, logged>>
  BY DEF Clear, Take, At
<1>2. Top(t) \in Calls
  BY <1>1 DEF Inv, LoggerTyped, Idle, Top, Depth
<1>3. c \in Calls /\ c.pc = "first"
  BY <1>2 DEF Calls, InBuffer
<1>. HIDE DEF c
<1>4. /\ d \in DOMAIN stack[t]
      /\ stack' \in [Threads -> Seq(Calls)]
      /\ \A u \in Threads : DOMAIN stack'[u] = DOMAIN stack[u]
      /\ \A u \in Threads : \A k \in DOMAIN stack[u] :
           stack'[u][k] = IF u = t /\ k = d THEN c ELSE stack[u][k]
      /\ \A k \in DOMAIN stack[t] : k # d => k < d
      /\ \A k \in DOMAIN stack[t] : k \in Nat
  <2>1. \A k \in DOMAIN stack[t] : k \in Nat
    BY DEF Inv, LoggerTyped
  <2>. QED
    BY <1>1, <1>3, <2>1, GoOnStack DEF Inv
<1>5. Top(t) = stack[t][d]
  BY DEF Top
<1>6. \A u \in Threads : \A k \in DOMAIN stack[u] :
        ~(u = t /\ k = d) /\ stack[u][k].pc \in InBuffer => <<u, k>> \in shared'
  <2>. SUFFICES ASSUME NEW u \in Threads, NEW k \in DOMAIN stack[u], ~(u = t /\ k = d),
                       stack[u][k].pc \in InBuffer
                PROVE  <<u, k>> \in Using
    BY <1>1
  <2>1. <<u, k>> \in UNION {{v} \X (DOMAIN stack[v]) : v \in Threads}
    OBVIOUS
  <2>. QED
    BY <2>1 DEF Using
<1>7. \A u \in Threads : \A k \in DOMAIN stack[u] :
        u # t /\ stack[u][k].pc \in InBuffer => <<t, d>> \in shared'
  <2>. SUFFICES ASSUME NEW u \in Threads, NEW k \in DOMAIN stack[u], u # t,
                       stack[u][k].pc \in InBuffer
                PROVE  <<t, d>> \in shared'
    OBVIOUS
  <2>1. <<u, k>> \in UNION {{v} \X (DOMAIN stack[v]) : v \in Threads}
    OBVIOUS
  <2>2. <<u, k>> \in {o \in Using : o[1] # t}
    BY <2>1 DEF Using
  <2>. QED
    BY <1>1, <2>2
<1>8. LoggerTyped'
  BY <1>1, <1>4 DEF Inv, LoggerTyped, Whole, Halves, settings, lock
<1>9. HandlerInv'
  <2>1. logHandler # NoHandler
    BY <1>1, <1>4, <1>5 DEF Inv, HandlerInv
  <2>. QED
    BY <1>1, <1>3, <1>4, <2>1 DEF Inv, HandlerInv, InHandler, settings
<1>10. SharedInv'
  <2>. SUFFICES ASSUME NEW v \in Threads, NEW u \in Threads,
                       NEW k \in DOMAIN stack[v], NEW j \in DOMAIN stack[u],
                       v = u => k < j,
                       stack'[v][k].pc \in InBuffer, stack'[u][j].pc \in InBuffer
                PROVE  <<v, k>> \in shared'
    BY <1>4 DEF SharedInv
  <2>1. CASE ~(v = t /\ k = d)
    BY <1>4, <1>6, <2>1
  <2>2. CASE v = t /\ k = d
    <3>1. u # t
      BY <1>4, <2>2
    <3>. QED
      BY <1>4, <1>7, <2>2, <3>1
  <2>. QED
    BY <2>1, <2>2
<1>11. AloneInv'
  <2>. SUFFICES ASSUME NEW u \in Threads, NEW k \in DOMAIN stack[u], <<u, k>> \notin shared'
                PROVE  Progress(stack'[u][k], message')
    BY <1>4 DEF AloneInv
  <2>1. CASE u = t /\ k = d
    BY <1>3, <1>4, <2>1 DEF Progress
  <2>2. CASE ~(u = t /\ k = d)
    <3>1. stack[u][k].pc \notin InBuffer /\ <<u, k>> \notin shared
      BY <1>1, <1>6, <2>2
    <3>2. Progress(stack[u][k], message) /\ stack'[u][k] = stack[u][k]
      BY <1>4, <2>2, <3>1 DEF Inv, AloneInv
    <3>. QED
      BY <3>1, <3>2 DEF Progress, InBuffer
  <2>. QED
    BY <2>1, <2>2
<1>. QED
  BY <1>8, <1>9, <1>10, <1>11 DEF Inv

LEMMA StepInv == Inv /\ [Next]_vars => Inv'
<1>. SUFFICES ASSUME Inv, [Next]_vars PROVE Inv'
  OBVIOUS
<1>1. App \in Threads /\ Paho \in Threads
  BY DEF Threads
<1>2. logged \in Nat /\ unlogged \in Nat
  BY DEF Inv, LoggerTyped
<1>3. ASSUME NEW t \in Threads, Continue(t) PROVE Inv'
  <2>1. CASE HandlerReturns(t)
    BY <2>1, ReturnKeeps DEF HandlerReturns, At
  <2>. QED
    BY <1>3, <2>1, TestHandlerKeeps, ClearKeeps, WriteKeeps, CallHandlerKeeps,
       HandlerReadsKeeps, HandlerCallsKeeps DEF Continue
<1>4. ASSUME NEW t \in Threads, HandlerCalls(t) PROVE Inv'
  BY <1>4, HandlerCallsKeeps
<1>5. ASSUME NEW t \in Threads, NEW l \in Levels, LogMessage(t, l) \/ HandlerLogs(t, l)
      PROVE  Inv'
  <2>1. /\ logged' \in Nat /\ unlogged' \in Nat /\ Log(t, l, logged')
        /\ UNCHANGED <<message, shared, logHandler>>
    BY <1>2, <1>5 DEF LogMessage, HandlerLogs, NextMessage, settings, lock
  <2>. QED
    BY <2>1, LogKeeps
<1>6. ASSUME NEW h \in Handlers \cup {NoHandler}, SetHandler(h) PROVE Inv'
  <2>1. /\ logged' \in Nat /\ unlogged' \in Nat /\ UNCHANGED <<message, shared>>
        /\ logHandler' \in Handlers \/ logHandler' = logHandler
        /\ \E l \in {VEIDES_LOG_WARNING, VEIDES_LOG_INFO} : Log(App, l, logged')
    BY <1>2, <1>6 DEF SetHandler, NextMessage, lock
  <2>. QED
    BY <1>1, <2>1, LogKeeps
<1>7. ASSUME NEW l \in Levels, SetLevel(l) PROVE Inv'
  <2>1. /\ logged' \in Nat /\ unlogged' \in Nat /\ UNCHANGED <<message, shared, logHandler>>
        /\ Log(App, VEIDES_LOG_INFO, logged')
    BY <1>2, <1>7 DEF SetLevel, NextMessage, lock
  <2>. QED
    BY <1>1, <2>1, LogKeeps
<1>8. CASE CallbackLogs
  <2>1. /\ logged' \in Nat /\ unlogged' \in Nat /\ UNCHANGED <<message, shared, logHandler>>
        /\ \E l \in {VEIDES_LOG_INFO, VEIDES_LOG_WARNING} : Log(Paho, l, unlogged)
    BY <1>2, <1>8 DEF CallbackLogs, settings
  <2>. QED
    BY <1>1, <1>2, <2>1, LogKeeps
<1>9. CASE StoreLevel \/ CallbackLocks \/ CallbackUnlocks \/ UNCHANGED vars
  <2>1. /\ UNCHANGED <<stack, message, shared, logHandler>>
        /\ logged' \in Nat /\ unlogged' \in Nat
    BY <1>2, <1>9 DEF StoreLevel, CallbackLocks, CallbackUnlocks, NextMessage, vars, settings, lock
  <2>2. stack' \in [Threads -> Seq(Calls)]
    BY <2>1 DEF Inv, LoggerTyped
  <2>. QED
    BY <2>1, <2>2, OutsideKeeps
<1>. QED
  BY <1>3, <1>4, <1>5, <1>6, <1>7, <1>8, <1>9 DEF Next

LEMMA Invariant == Spec => []Inv
BY InitInv, StepInv, PTL DEF Spec

-----------------------------------------------------------------------------
(* The theorems                                                            *)

\* Levels, mutex and history, which the buffer does not depend on.
LEMMA RestTyped ==
    LET Rest == /\ logLevel \in AllLevels
                /\ newLevel \in Levels \cup {NoLevel}
                /\ mutex \in {Nobody, Paho}
                /\ shared \subseteq Threads \X Nat
    IN  Rest /\ LoggerTyped /\ [Next]_vars => Rest'
<1>. SUFFICES ASSUME logLevel \in AllLevels, newLevel \in Levels \cup {NoLevel},
                     mutex \in {Nobody, Paho}, shared \subseteq Threads \X Nat,
                     LoggerTyped, [Next]_vars
              PROVE  /\ logLevel' \in AllLevels
                     /\ newLevel' \in Levels \cup {NoLevel}
                     /\ mutex' \in {Nobody, Paho}
                     /\ shared' \subseteq Threads \X Nat
  OBVIOUS
<1>1. CASE \E t \in Threads : Clear(t)
  <2>1. PICK t \in Threads : Clear(t)
    BY <1>1
  <2>2. ~Idle(t) /\ UNCHANGED <<settings, lock>>
        /\ shared' = (shared \ {<<t, Depth(t)>>}) \cup Using
                         \cup {<<t, Depth(t)>> : c \in {c \in Using : c[1] # t}}
    BY <2>1 DEF Clear, Take, At
  <2>3. Depth(t) \in Nat
    BY DEF LoggerTyped, Depth
  <2>4. Using \subseteq Threads \X Nat
    <3>1. \A u \in Threads : DOMAIN stack[u] \subseteq Nat
      BY DEF LoggerTyped
    <3>. QED
      BY <3>1 DEF Using
  <2>. QED
    BY <2>2, <2>3, <2>4 DEF settings, lock
<1>2. CASE \E l \in Levels : SetLevel(l)
  <2>1. newLevel' \in Levels /\ UNCHANGED <<logLevel, mutex, shared>>
    BY <1>2 DEF SetLevel, lock
  <2>. QED
    BY <2>1
<1>3. CASE StoreLevel \/ CallbackLocks \/ CallbackUnlocks
  <2>1. /\ logLevel' \in {logLevel, newLevel} /\ newLevel' \in {newLevel, NoLevel}
        /\ mutex' \in {Nobody, Paho, mutex} /\ shared' = shared
        /\ newLevel = NoLevel => logLevel' = logLevel
    BY <1>3 DEF StoreLevel, CallbackLocks, CallbackUnlocks, settings, lock
  <2>. QED
    BY <2>1 DEF AllLevels
<1>4. CASE \/ UNCHANGED vars \/ CallbackLogs
           \/ \E h \in Handlers \cup {NoHandler} : SetHandler(h)
           \/ \E t \in Threads :
                \/ TestHandler(t) \/ Write(t) \/ CallHandler(t) \/ HandlerReads(t)
                \/ HandlerLocks(t) \/ HandlerReturns(t) \/ HandlerCalls(t)
                \/ \E l \in Levels : LogMessage(t, l) \/ HandlerLogs(t, l)
  <2>1. UNCHANGED <<logLevel, newLevel, mutex, shared>>
    BY <1>4 DEF vars, CallbackLogs, SetHandler, TestHandler, Write, CallHandler, HandlerReads,
       HandlerLocks, HandlerReturns, HandlerCalls, LogMessage, HandlerLogs, settings, lock
  <2>. QED
    BY <2>1
<1>. QED
  BY <1>1, <1>2, <1>3, <1>4 DEF Next, Continue

\* Every variable of the logger keeps its type, whatever handlers call; a thread's
\* calls are always in a place of veides_log.
THEOREM TypeCorrect == Spec => []TypeOK
<1>. DEFINE Rest == /\ logLevel \in AllLevels
                    /\ newLevel \in Levels \cup {NoLevel}
                    /\ mutex \in {Nobody, Paho}
                    /\ shared \subseteq Threads \X Nat
<1>1. Init => Rest
  BY DEF Init, AllLevels
<1>2. Rest /\ LoggerTyped /\ [Next]_vars => Rest'
  BY RestTyped
<1>3. Inv => LoggerTyped
  BY DEF Inv
<1>4. Rest /\ LoggerTyped => TypeOK
  BY DEF LoggerTyped, TypeOK
<1>. HIDE DEF Rest
<1>. QED
  BY <1>1, <1>2, <1>3, <1>4, Invariant, PTL DEF Spec

\* veides_log reads logHandler twice, and calls a handler both times it finds
\* one: whatever the other thread sets in between, and however often handlers
\* that call the SDK are called again, it never calls NULL.
THEOREM NeverCallsNull == Spec => []CallsAHandler
<1>1. Inv => CallsAHandler
  BY DEF Inv, HandlerInv, CallsAHandler
<1>. QED
  BY <1>1, Invariant, PTL

\* What a log handler reads is its message, whole, unless another call of
\* veides_log was in the buffer meanwhile, of the other thread or of the handler
\* itself before it had read: no other interleaving of the two threads, the
\* setters, the callbacks and the handlers' own calls damages it.
THEOREM TornOnlyByOverlap == Spec => []TornOnlyIfShared
<1>1. Inv => TornOnlyIfShared
  <2>. SUFFICES ASSUME Inv, NEW t \in Threads, NEW k \in DOMAIN stack[t],
                       stack[t][k].pc \in {"act", "lock"}, <<t, k>> \notin shared
                PROVE  stack[t][k].got = Whole(stack[t][k].number)
    BY DEF TornOnlyIfShared
  <2>. DEFINE c == stack[t][k]
  <2>1. c.got \in Halves
    <3>1. stack[t] \in Seq(Calls) /\ k \in 1..Len(stack[t])
      BY DEF Inv, LoggerTyped
    <3>2. c \in Calls
      BY <3>1
    <3>. QED
      BY <3>2 DEF Calls
  <2>2. c.got[1] = c.number /\ c.got[2] = c.number
    BY DEF Inv, AloneInv, Progress
  <2>. QED
    BY <2>1, <2>2 DEF Whole, Halves
<1>. QED
  BY <1>1, Invariant, PTL
=============================================================================
