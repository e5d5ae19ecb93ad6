------------------------------ MODULE JobSpec -------------------------------
(***************************************************************************)
(* What the job scheduler promises to the code that is built on it: a job  *)
(* is a mailbox of signals with one server.  A signal that was sent is     *)
(* handled after it was sent, handlers do not overlap, and JS_FINISH is    *)
(* handled last, when one reference is left and no new one can appear.     *)
(* Locks, queues, threads and classes do not show.                         *)
(***************************************************************************)
EXTENDS Integers

CONSTANTS
    UserSignals,    \* the signals other than JS_FINISH
    Finish,         \* JS_FINISH
    Nothing         \* no handler is running

VARIABLES
    pending,        \* signals that were sent and not handled since
    running,        \* the signal whose handler is running
    refs,           \* how many references there are
    gone            \* the job was freed

jobVars == <<pending, running, refs, gone>>

Start ==
    /\ pending \in SUBSET UserSignals
    /\ running = Nothing
    /\ refs \in Nat \ {0}
    /\ gone = FALSE

Usable == refs > 0 /\ running # Finish

Share == Usable /\ refs' = refs + 1 /\ UNCHANGED <<pending, running, gone>>

Drop == Usable /\ refs > 1 /\ refs' = refs - 1 /\ UNCHANGED <<pending, running, gone>>

Send(s) == Usable /\ pending' = pending \cup {s} /\ UNCHANGED <<running, refs, gone>>

Begin(s) ==
    /\ running = Nothing
    /\ s \in pending
    /\ pending' = pending \ {s}
    /\ running' = s
    /\ UNCHANGED <<refs, gone>>

\* a handler may send signals to its own job when it returns
End ==
    /\ running \in UserSignals
    /\ running' = Nothing
    /\ \E S \in SUBSET UserSignals : pending' = pending \cup S
    /\ UNCHANGED <<refs, gone>>

BeginFinish ==
    /\ running = Nothing
    /\ refs = 1
    /\ running' = Finish
    /\ UNCHANGED <<pending, refs, gone>>

EndFinish ==
    /\ running = Finish
    /\ running' = Nothing
    /\ refs' = 0
    /\ gone' = TRUE
    /\ UNCHANGED pending

Change ==
    \/ Share
    \/ Drop
    \/ \E s \in UserSignals : Send(s) \/ Begin(s)
    \/ End
    \/ BeginFinish
    \/ EndFinish

Mailbox == Start /\ [][Change]_jobVars
=============================================================================
