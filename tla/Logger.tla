------------------------------- MODULE Logger -------------------------------
(***************************************************************************)
(* The logger (veides_logger.c).  Every part of the SDK logs, in the       *)
(* application thread and in the Paho thread, and the latter also while an *)
(* outcome callback holds the client mutex.  A message meant for the       *)
(* application's log handler is put together in one global buffer.  A      *)
(* handler that calls the SDK, connect for instance, waits there for the   *)
(* mutex, and is called again for what the SDK logs meanwhile: each thread *)
(* has a stack of calls of veides_log.                                     *)
(*                                                                         *)
(* The buffer has two halves here, so that it can be seen half-written,    *)
(* and messages are numbered.                                              *)
(***************************************************************************)
EXTENDS Integers, Sequences

CONSTANTS
    App, Paho,      \* the threads
    Handlers,       \* log handlers the application may set
    NoHandler,      \* logHandler before one is set
    Nobody,         \* the mutex is free
    Calling,        \* the handlers that call the SDK
    Levels,         \* levels logged at, of 0 (DEBUG) to 3 (ERROR)
    MaxMessages     \* bound: messages logged

ASSUME LoggerConstants ==
    /\ App # Paho /\ Nobody \notin {App, Paho}
    /\ NoHandler \notin Handlers
    /\ Calling \subseteq Handlers
    /\ Levels \subseteq 0..3
    /\ MaxMessages \in Nat

Threads == {App, Paho}

VEIDES_LOG_INFO    == 1
VEIDES_LOG_WARNING == 2
AllLevels == Levels \cup {VEIDES_LOG_INFO, VEIDES_LOG_WARNING}
NoLevel   == -1

VARIABLES
    logLevel,
    logHandler,
    newLevel,   \* the level a running setLevel will store, or NoLevel
    message,    \* the buffer: the number of the message in each half, or 0
    mutex,      \* veides_client_mutex
    unlogged,   \* the message that the callback with the mutex has yet to log, or 0
    stack,      \* the calls of veides_log each thread is in, the innermost last
    logged,     \* messages so far
    shared      \* history: calls, by thread and depth, that had to share the buffer

settings == <<logLevel, logHandler, newLevel>>
lock     == <<mutex, unlogged>>
vars     == <<settings, message, lock, stack, logged, shared>>

Whole(number) == [half \in 1..2 |-> number]

\* A call of veides_log: where it is, the number of its message, the handler it
\* has called, and what that reads in the buffer.
Call(number) == [pc |-> "test", number |-> number, handler |-> NoHandler, got |-> Whole(0)]

Idle(t)  == stack[t] = <<>>
Depth(t) == Len(stack[t])
Top(t)   == stack[t][Depth(t)]
At(t, pc) == ~Idle(t) /\ Top(t).pc = pc

InBuffer  == {"first", "second", "call", "read1", "read2"}
InHandler == {"read1", "read2", "act", "lock"}

Init ==
    /\ logLevel = VEIDES_LOG_INFO
    /\ newLevel = NoLevel
    /\ logHandler = NoHandler
    /\ message = Whole(0)
    /\ mutex = Nobody /\ unlogged = 0
    /\ stack = [t \in Threads |-> <<>>]
    /\ logged = 0
    /\ shared = {}

-----------------------------------------------------------------------------
(* veides_log                                                              *)

\* A message is there to be logged.
NextMessage == logged < MaxMessages /\ logged' = logged + 1

\* The test of the level, and the message put together on the stack.
Log(t, l, number) ==
    stack' = IF l < logLevel THEN stack ELSE [stack EXCEPT ![t] = Append(@, Call(number))]

\* The innermost call of t goes on, as the call c.
GoOn(t, c) == stack' = [stack EXCEPT ![t][Depth(t)] = c]

Return(t) == stack' = [stack EXCEPT ![t] = SubSeq(@, 1, Len(@) - 1)]

\* The SDK logs, outside the mutex.
LogMessage(t, l) ==
    /\ Idle(t)
    /\ t = App => newLevel = NoLevel
    /\ t = Paho => mutex # Paho
    /\ NextMessage /\ Log(t, l, logged')
    /\ UNCHANGED <<settings, message, lock, shared>>

\* Without a handler it is printed from the stack.
TestHandler(t) ==
    /\ At(t, "test")
    /\ IF logHandler = NoHandler THEN Return(t) ELSE GoOn(t, [Top(t) EXCEPT !.pc = "clear"])
    /\ UNCHANGED <<settings, message, lock, logged, shared>>

\* The calls, by thread and depth, that have something in the buffer.
Using == {c \in UNION {{t} \X (DOMAIN stack[t]) : t \in Threads} :
              stack[c[1]][c[2]].pc \in InBuffer}

\* A call of t takes the buffer, and is alone in it or knows that it is not.
\* Whoever else had something in it, a handler of t included that has called the
\* SDK, has lost it.
Take(t) ==
    /\ GoOn(t, [Top(t) EXCEPT !.pc = "first"])
    /\ message' = Whole(0)
    /\ shared' = (shared \ {<<t, Depth(t)>>}) \cup Using
                     \cup {<<t, Depth(t)>> : c \in {c \in Using : c[1] # t}}

\* Mutant: the buffer is protected with the mutex there is.
ClearWithMutex(t) ==
    /\ At(t, "clear") /\ mutex = Nobody
    /\ Take(t)
    /\ UNCHANGED <<settings, lock, logged>>

\* memset.  From here until its handler has read it the buffer is this call's,
\* unless the other thread is in the same part of the code.
Clear(t) ==
    /\ At(t, "clear")
    /\ Take(t)
    /\ UNCHANGED <<settings, lock, logged>>

\* Mutant: the message stops short of the handler's copy.
WriteShort(t) ==
    /\ At(t, "first")
    /\ message' = [message EXCEPT ![1] = Top(t).number]
    /\ GoOn(t, [Top(t) EXCEPT !.pc = "call"])
    /\ UNCHANGED <<settings, lock, logged, shared>>

\* snprintf.
Write(t) ==
    /\ \/ /\ At(t, "first")
          /\ message' = [message EXCEPT ![1] = Top(t).number]
          /\ GoOn(t, [Top(t) EXCEPT !.pc = "second"])
       \/ /\ At(t, "second")
          /\ message' = [message EXCEPT ![2] = Top(t).number]
          /\ GoOn(t, [Top(t) EXCEPT !.pc = "call"])
    /\ UNCHANGED <<settings, lock, logged, shared>>

\* logHandler is read again for the call.
CallHandler(t) ==
    /\ At(t, "call")
    /\ GoOn(t, [Top(t) EXCEPT !.pc = "read1", !.handler = logHandler])
    /\ UNCHANGED <<settings, message, lock, logged, shared>>

-----------------------------------------------------------------------------
(* The application's log handler                                           *)

HandlerReads(t) ==
    /\ \/ /\ At(t, "read1")
          /\ GoOn(t, [Top(t) EXCEPT !.pc = "read2", !.got[1] = message[1]])
       \/ /\ At(t, "read2")
          /\ GoOn(t, [Top(t) EXCEPT !.pc = "act", !.got[2] = message[2]])
    /\ UNCHANGED <<settings, message, lock, logged, shared>>

InCallingHandler(t) == ~Idle(t) /\ Top(t).pc \in InHandler /\ Top(t).handler \in Calling

\* The handler calls the SDK, which logs, and so calls the handler ...
HandlerLogs(t, l) ==
    /\ InCallingHandler(t) /\ Top(t).pc # "lock"
    /\ NextMessage /\ Log(t, l, logged')
    /\ UNCHANGED <<settings, message, lock, shared>>

\* ... and locks the mutex for a moment: not while it is held, though it may be
\* held by the very thread that waits.
HandlerCalls(t) ==
    /\ InCallingHandler(t) /\ At(t, "act")
    /\ GoOn(t, [Top(t) EXCEPT !.pc = "lock"])
    /\ UNCHANGED <<settings, message, lock, logged, shared>>

HandlerLocks(t) ==
    /\ At(t, "lock")
    /\ mutex = Nobody
    /\ GoOn(t, [Top(t) EXCEPT !.pc = "act"])
    /\ UNCHANGED <<settings, message, lock, logged, shared>>

\* The handler is done, and with it the call of veides_log.
HandlerReturns(t) ==
    /\ At(t, "act")
    /\ Return(t)
    /\ UNCHANGED <<settings, message, lock, logged, shared>>

-----------------------------------------------------------------------------
(* The rest of the SDK                                                     *)

\* Mutant: NULL takes the handler away.
SetHandlerUnchecked(h) ==
    /\ Idle(App) /\ newLevel = NoLevel
    /\ logHandler' = h
    /\ NextMessage /\ Log(App, VEIDES_LOG_INFO, logged')
    /\ UNCHANGED <<logLevel, newLevel, message, lock, shared>>

\* veides_log_setHandler by the application thread.  NULL is refused.
SetHandler(h) ==
    /\ Idle(App) /\ newLevel = NoLevel
    /\ NextMessage
    /\ IF h = NoHandler
       THEN Log(App, VEIDES_LOG_WARNING, logged') /\ UNCHANGED logHandler
       ELSE Log(App, VEIDES_LOG_INFO, logged') /\ logHandler' = h
    /\ UNCHANGED <<logLevel, newLevel, message, lock, shared>>

\* veides_log_setLevel logs, at the level still in force, and then stores.
SetLevel(l) ==
    /\ Idle(App) /\ newLevel = NoLevel
    /\ newLevel' = l
    /\ NextMessage /\ Log(App, VEIDES_LOG_INFO, logged')
    /\ UNCHANGED <<logLevel, logHandler, message, lock, shared>>

StoreLevel ==
    /\ newLevel # NoLevel /\ Idle(App)
    /\ logLevel' = newLevel
    /\ newLevel' = NoLevel
    /\ UNCHANGED <<logHandler, message, lock, stack, logged, shared>>

\* onConnect and the other outcomes lock the mutex, log once, and unlock it.
CallbackLocks ==
    /\ mutex = Nobody /\ Idle(Paho)
    /\ NextMessage
    /\ mutex' = Paho /\ unlogged' = logged'
    /\ UNCHANGED <<settings, message, stack, shared>>

CallbackLogs ==
    /\ unlogged # 0
    /\ \E l \in {VEIDES_LOG_INFO, VEIDES_LOG_WARNING} : Log(Paho, l, unlogged)
    /\ unlogged' = 0
    /\ UNCHANGED <<settings, message, mutex, logged, shared>>

CallbackUnlocks ==
    /\ mutex = Paho /\ unlogged = 0 /\ Idle(Paho)
    /\ mutex' = Nobody
    /\ UNCHANGED <<settings, message, unlogged, stack, logged, shared>>

-----------------------------------------------------------------------------

Continue(t) ==
    \/ TestHandler(t) \/ Clear(t) \/ Write(t) \/ CallHandler(t)
    \/ HandlerReads(t) \/ HandlerLocks(t) \/ HandlerReturns(t)

Next ==
    \/ \E t \in Threads :
          \/ Continue(t) \/ HandlerCalls(t)
          \/ \E l \in Levels : LogMessage(t, l) \/ HandlerLogs(t, l)
    \/ \E h \in Handlers \cup {NoHandler} : SetHandler(h)
    \/ \E l \in Levels : SetLevel(l)
    \/ StoreLevel \/ CallbackLocks \/ CallbackLogs \/ CallbackUnlocks

Spec == Init /\ [][Next]_vars

\* The Paho thread runs, and a handler comes to its end.  Nothing is said of who
\* gets a mutex that several threads wait for.
FairSpec == Spec /\ WF_vars(Continue(Paho)) /\ WF_vars(CallbackLogs) /\ WF_vars(CallbackUnlocks)

-----------------------------------------------------------------------------
(* Properties                                                              *)

Halves == [1..2 -> Nat]
Calls  == [pc : {"test", "clear"} \cup InBuffer \cup InHandler, number : Nat,
           handler : Handlers \cup {NoHandler}, got : Halves]

TypeOK ==
    /\ logLevel \in AllLevels
    /\ newLevel \in Levels \cup {NoLevel}
    /\ logHandler \in Handlers \cup {NoHandler}
    /\ message \in Halves
    /\ mutex \in {Nobody, Paho} /\ unlogged \in Nat
    /\ stack \in [Threads -> Seq(Calls)]
    /\ logged \in Nat
    /\ shared \subseteq Threads \X Nat

\* The handler is tested in one step and called in a later one, and may have
\* been replaced in between; it is never NULL when it is called, at any depth.
CallsAHandler ==
    \A t \in Threads : \A k \in DOMAIN stack[t] :
        stack[t][k].pc \in InHandler => stack[t][k].handler # NoHandler

\* A handler reads the message it was called for, whole, if no other call was
\* between the clearing of the buffer and the last look at it meanwhile: not one
\* of the other thread, and not one that the handler caused itself by calling
\* the SDK before it had read.  Such an overlap is the only cause of damage.
TornOnlyIfShared ==
    \A t \in Threads : \A k \in DOMAIN stack[t] :
        stack[t][k].pc \in {"act", "lock"} /\ <<t, k>> \notin shared =>
            stack[t][k].got = Whole(stack[t][k].number)

\* The handler of an outcome callback's message has called the SDK, under the
\* mutex that the callback holds: it waits for it or is called again.
CallsUnderMutex == mutex = Paho /\ (At(Paho, "lock") \/ Depth(Paho) > 1)

\* onConnect and the others, which call the log handler under the mutex, give
\* the mutex back, whatever the other thread logs and sets and whichever handler
\* it is in meanwhile, unless the handler they call calls the SDK in its turn.
MutexGivenBack == (mutex = Paho) ~> (mutex = Nobody \/ CallsUnderMutex)
=============================================================================
