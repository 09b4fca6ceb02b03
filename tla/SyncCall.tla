------------------------------ MODULE SyncCall ------------------------------
(***************************************************************************)
(* psi::tools::convertToSyncCall: the caller hands the callback cb to an   *)
(* asynchronous function, waits on a future, falls back to a default value *)
(* after a timeout and returns, destroying the promise that cb refers to.  *)
(* The flag `validator` is what keeps later invocations of cb away from    *)
(* that promise.                                                           *)
(*                                                                         *)
(* validator is a plain bool shared between threads: a store becomes       *)
(* visible to other threads at some later time (the store buffer of its    *)
(* thread), and a thread sees its own stores at once.                      *)
(***************************************************************************)
CONSTANTS
    Callbacks,  \* the invocations of cb, each with its own result
    Inline,     \* those made by fn itself, on the caller's thread
    Caller,     \* the caller's thread
    Default,    \* Arg()
    Empty       \* no value yet

ASSUME ThreadAssumption == Inline \subseteq Callbacks /\ Caller \notin Callbacks
ASSUME ValueAssumption == Default \notin Callbacks /\ Empty \notin Callbacks /\ Default # Empty

VARIABLES
    serial,     \* whether the asynchronous function orders its callbacks
    pc,         \* what the caller does next
    cpc,        \* what each invocation of cb does next
    stored,     \* the threads that have executed *validator = true
    pending,    \* those of them whose store is not visible to others yet
    value,      \* the result in the shared state of promise and future
    alive,      \* the promise has not been destroyed
    timedOut,   \* wait_for returned timeout
    arg         \* the caller's out parameter

caller == <<pc, timedOut, arg, alive>>
syncVars == <<serial, pc, cpc, stored, pending, value, alive, timedOut, arg>>

Threads == Callbacks \cup {Caller}
Thread(c) == IF c \in Inline THEN Caller ELSE c

SyncInit == /\ serial \in BOOLEAN
            /\ pc = "calling"
            /\ cpc = [c \in Callbacks |-> "idle"]
            /\ stored = {} /\ pending = {}
            /\ value = Empty /\ alive = TRUE
            /\ timedOut = FALSE /\ arg = Empty

Busy(c) == cpc[c] \in {"checked", "delivering"}

\* *validator as thread t reads it, and the store `*validator = true`.
Validator(t) == t \in stored \/ stored \ pending # {}
StoreUnseen(t) == /\ stored' = stored   \* Mutant: its own thread does not see the store.
                  /\ pending' = pending \cup {t}
StoreBy(t) == /\ stored' = stored \cup {t}
              /\ pending' = pending \cup ({t} \ stored)

-----------------------------------------------------------------------------
(* An invocation of cb.                                                     *)

\* A serial function makes its calls one after the other.  fn is one thread in
\* any case.
MayStart(c) ==
    /\ c \in Inline => pc = "calling" /\ \A d \in Inline : ~Busy(d)
    /\ serial => \A d \in Callbacks : ~Busy(d)

\* Mutant: the flag is not looked at.
CheckNothing(c) ==
    /\ cpc[c] = "idle" /\ MayStart(c)
    /\ cpc' = [cpc EXCEPT ![c] = "checked"]
    /\ UNCHANGED <<serial, caller, stored, pending, value>>

\* `if (!validator || *validator) return`
Check(c) ==
    /\ cpc[c] = "idle" /\ MayStart(c)
    /\ cpc' = [cpc EXCEPT ![c] = IF Validator(Thread(c)) THEN "ignored" ELSE "checked"]
    /\ UNCHANGED <<serial, caller, stored, pending, value>>

\* Mutant: the callback does not set the flag.
MarkNothing(c) ==
    /\ cpc[c] = "checked"
    /\ cpc' = [cpc EXCEPT ![c] = "delivering"]
    /\ UNCHANGED <<serial, caller, stored, pending, value>>

\* `*validator = true`
Mark(c) ==
    /\ cpc[c] = "checked"
    /\ cpc' = [cpc EXCEPT ![c] = "delivering"]
    /\ StoreBy(Thread(c))
    /\ UNCHANGED <<serial, caller, value>>

\* p.set_value(res): atomic, after the earlier stores of its thread.  It throws
\* if there is a value already, and is undefined once p is gone.
Deliver(c) ==
    /\ cpc[c] = "delivering" /\ Thread(c) \notin pending
    /\ \/ /\ alive /\ value = Empty
          /\ value' = c
          /\ cpc' = [cpc EXCEPT ![c] = "delivered"]
       \/ /\ alive /\ value # Empty
          /\ cpc' = [cpc EXCEPT ![c] = "threw"]
          /\ UNCHANGED value
       \/ /\ ~alive
          /\ cpc' = [cpc EXCEPT ![c] = "dangling"]
          /\ UNCHANGED value
    /\ UNCHANGED <<serial, caller, stored, pending>>

\* A store becomes visible to the other threads.
Flush(t) == /\ t \in pending
            /\ pending' = pending \ {t}
            /\ UNCHANGED <<serial, caller, cpc, stored, value>>

-----------------------------------------------------------------------------
(* The caller.                                                              *)

\* Mutant: the flag is set as soon as fn returns.
CallReturnsClosing == /\ pc = "calling" /\ \A d \in Inline : ~Busy(d)
                      /\ pc' = "waiting"
                      /\ StoreBy(Caller)
                      /\ UNCHANGED <<serial, cpc, value, alive, timedOut, arg>>

\* fn(cb) is over when the callbacks it runs itself are.
CallReturns == /\ pc = "calling" /\ \A d \in Inline : ~Busy(d)
               /\ pc' = "waiting"
               /\ UNCHANGED <<serial, cpc, stored, pending, value, alive, timedOut, arg>>

\* An exception that fn does not catch meets noexcept.  Other threads may still
\* take some steps before the process is gone.
Terminate == /\ pc = "calling" /\ \E d \in Inline : cpc[d] = "threw"
             /\ pc' = "terminated"
             /\ UNCHANGED <<serial, cpc, stored, pending, value, alive, timedOut, arg>>

\* wait_for returns ready, and get() the value.
Ready == /\ pc = "waiting" /\ value # Empty
         /\ pc' = "storing" /\ arg' = value
         /\ UNCHANGED <<serial, cpc, stored, pending, value, alive, timedOut>>

\* Mutants: without `arg = Arg()`; wait() instead of wait_for(timeout).
TimeoutKeepsArg == /\ pc = "waiting" /\ value = Empty
                   /\ pc' = "storing" /\ timedOut' = TRUE
                   /\ UNCHANGED <<serial, cpc, stored, pending, value, alive, arg>>
NoTimeout == /\ pc = "waiting" /\ value = Empty
             /\ UNCHANGED syncVars

\* wait_for returns timeout: there is still no value at the deadline.
Timeout == /\ pc = "waiting" /\ value = Empty
           /\ pc' = "storing" /\ timedOut' = TRUE /\ arg' = Default
           /\ UNCHANGED <<serial, cpc, stored, pending, value, alive>>

\* The last statement, `*validator = true`.
Store == /\ pc = "storing"
         /\ pc' = "leaving"
         /\ StoreBy(Caller)
         /\ UNCHANGED <<serial, cpc, value, alive, timedOut, arg>>

\* The locals are destroyed: the promise is gone, validator lives on in cb.
Return == /\ pc = "leaving"
          /\ pc' = "returned" /\ alive' = FALSE
          /\ UNCHANGED <<serial, cpc, stored, pending, value, timedOut, arg>>

-----------------------------------------------------------------------------
CallerNext == CallReturns \/ Terminate \/ Ready \/ Timeout \/ Store \/ Return

\* Every thread that is in the middle of something goes on, stores reach
\* memory and the clock reaches the deadline; nobody has to invoke cb at all.
Fairness == /\ WF_syncVars(CallerNext)
            /\ \A c \in Callbacks : WF_syncVars(Mark(c) \/ Deliver(c))
            /\ \A t \in Threads : WF_syncVars(Flush(t))

SyncNext == \/ CallerNext
            \/ \E c \in Callbacks : Check(c) \/ Mark(c) \/ Deliver(c)
            \/ \E t \in Threads : Flush(t)

SyncSpec == SyncInit /\ [][SyncNext]_syncVars /\ Fairness

-----------------------------------------------------------------------------
(* Properties.                                                              *)

SyncTypeOK == /\ serial \in BOOLEAN /\ alive \in BOOLEAN /\ timedOut \in BOOLEAN
              /\ pc \in {"calling", "waiting", "storing", "leaving", "returned", "terminated"}
              /\ cpc \in [Callbacks -> {"idle", "checked", "delivering", "ignored",
                                        "delivered", "threw", "dangling"}]
              /\ stored \subseteq Threads /\ pending \subseteq stored
              /\ value \in Callbacks \cup {Empty}
              /\ arg \in Callbacks \cup {Default, Empty}

\* "On timeout, arg is set to a default-constructed Arg()" (Tools.h:290), and
\* otherwise it is what the callback that satisfied the promise was given: an
\* answer that comes in after the deadline does not replace the fallback.
AnswerOrFallback ==
    pc \in {"storing", "leaving", "returned"} =>
        IF timedOut THEN arg = Default
        ELSE arg \in Callbacks /\ cpc[arg] = "delivered" /\ arg = value

\* The promise is used after its end only by a callback that overlapped the end
\* of a call that timed out, or that raced another callback which delivered.
\* (A callback that passed its check is not stopped by the caller's store.)
DeadPromise ==
    \A c \in Callbacks : cpc[c] = "dangling" =>
        timedOut \/ (~serial /\ \E d \in Callbacks \ {c} : cpc[d] = "delivered")

\* Callbacks that are made one after the other never satisfy the promise twice,
\* whichever thread they come from.
SerialNeverThrows == serial => \A c \in Callbacks : cpc[c] # "threw"

\* No answer is dropped for nothing: a callback is ignored only if another one
\* is delivering or has used the promise, or the caller is done waiting.
IgnoredOnlyIfTaken ==
    \A c \in Callbacks : cpc[c] = "ignored" =>
        \/ pc \in {"leaving", "returned"}
        \/ \E d \in Callbacks \ {c} : cpc[d] \in {"delivering", "delivered", "threw", "dangling"}

\* "Blocks until the callback is invoked or the timeout elapses" (Tools.h:289):
\* the call comes to an end, with or without an answer.
CallEnds == <>(pc \in {"returned", "terminated"})
=============================================================================
