---------------------------- MODULE JobsMailbox -----------------------------
(***************************************************************************)
(* Jobs implements JobSpec: the handler that runs is the one of the agent  *)
(* inside j_execute, JS_FINISH is not a message, and the references are    *)
(* counted rather than named.                                              *)
(***************************************************************************)
EXTENDS Jobs

Running ==
    IF \E a \in Agents : pc[a] = "exec"
    THEN sig[CHOOSE a \in Agents : pc[a] = "exec"]
    ELSE NoOne

Job == INSTANCE JobSpec WITH
    UserSignals <- Signals \ {FINISH}, Finish <- FINISH, Nothing <- NoOne,
    pending <- pend \ {FINISH}, running <- Running,
    refs <- Cardinality(Live), gone <- freed

\* The lock, queue and reference protocol implements the mailbox that
\* connections, targets and timers are written against: whatever the threads
\* do, what shows is signals sent and handled one at a time, JS_FINISH last.
Mailbox == Job!Mailbox
=============================================================================
