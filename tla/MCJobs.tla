------------------------------- MODULE MCJobs -------------------------------
(***************************************************************************)
(* Instances of Jobs for TLC.                                              *)
(*                                                                         *)
(* Threads: a thread of class JC_CONNECTION (4), one of JC_CONNECTION_IO   *)
(* (5), and the main thread's top-level code, which only makes calls; or   *)
(* two threads of class 4 and the main thread.  The caller "nested" makes  *)
(* its calls from inside a handler.                                        *)
(*                                                                         *)
(* Jobs: a socket-like job, whose JS_RUN (0) and JS_AUX (1) run in class 5 *)
(* and JS_ABORT (5), JS_FINISH (7) in class 4; and a list-like job, whose  *)
(* JS_FINISH is fast in any class, and whose handler gives up JS_RUN and   *)
(* JS_ABORT.                                                               *)
(***************************************************************************)
EXTENDS JobsMailbox, TLC

CONSTANTS w4, w5, mainLoop, nested, q4, q5, qMain

Signals4 == {0, 1, 5, 7}
Signals3 == {0, 5, 7}
NoSelf == [s \in Signals |-> {}]

\* multi-threaded
MultiAgents == {w4, w5, mainLoop, nested}
MultiTop == {w4, w5, mainLoop}
MultiMask == (w4 :> {0, 4}) @@ (w5 :> {0, 5}) @@ (mainLoop :> {0, 3}) @@ (nested :> {0, 4})
MultiQueueOf == [c \in 0 .. 15 |-> CASE c = 4 -> q4 [] c = 5 -> q5 [] OTHER -> qMain]
MultiPolls == (w4 :> q4) @@ (w5 :> q5) @@ (mainLoop :> NoOne) @@ (nested :> NoOne)

\* two threads of one class and the main thread
PairAgents == {w4, w5, mainLoop}
PairMask == (w4 :> {0, 4}) @@ (w5 :> {0, 4}) @@ (mainLoop :> {0, 3})
PairPolls == (w4 :> q4) @@ (w5 :> q4) @@ (mainLoop :> NoOne)

SocketClass == (0 :> 5) @@ (1 :> 5) @@ (5 :> 4) @@ (7 :> 4)
SocketSelf == (0 :> {1}) @@ (1 :> {}) @@ (5 :> {}) @@ (7 :> {})

ListClass == (0 :> 4) @@ (5 :> 4) @@ (7 :> 0)
ListDrop == {0, 5}

RefSymmetry == Permutations(Refs)
=============================================================================
