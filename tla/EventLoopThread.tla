--------------------------- MODULE EventLoopThread ---------------------------
(***************************************************************************)
(* net/EventLoopThread.cpp over base/Thread.cpp: an owner starts a thread, *)
(* waits on a condition variable until that thread has published its       *)
(* EventLoop, uses the loop, and in its destructor asks it to quit and     *)
(* joins the thread.  The EventLoop lives on the stack of threadFunc.      *)
(*                                                                         *)
(* opc is the owner's position:                                            *)
(*   "new" "check" "waiting"   in startLoop (before it, at the while, in    *)
(*                             cond_.wait)                                 *)
(*   "started"                 startLoop has returned                      *)
(*   "quitting" "join"         in the destructor (in loop_->quit(), which  *)
(*                             has set quit_; in thread_.join())           *)
(*   "joined"                  the destructor has returned                 *)
(*   "crashed"                 the process has ended in the destructor     *)
(* ipc is the thread's position in threadFunc: "none" before it exists,    *)
(* "init" in callback_, "published" between the notify and loop(), "loop"  *)
(* from there on, "finished" when the EventLoop is gone.                   *)
(***************************************************************************)
EXTENDS EventLoop

CONSTANT Owner      \* the thread that owns the EventLoopThread

ASSUME OwnerAssumption == Owner \in Threads

VARIABLES
    opc,
    ipc,            \* (both as above)
    loop_,          \* has threadFunc stored the address of its EventLoop?
    exiting_

threadVars == <<opc, ipc, loop_, exiting_>>
allVars == <<vars, threadVars>>

(* The EventLoop object exists. *)
Alive == ipc \in {"init", "published", "loop"}

ThreadInit ==
    /\ Init
    /\ opc = "new"
    /\ ipc = "none"
    /\ loop_ = FALSE
    /\ exiting_ = FALSE

-----------------------------------------------------------------------------
(* The owner. *)

(* startLoop: thread_.start(); the new thread constructs its EventLoop. *)
StartLoop ==
    /\ opc = "new"
    /\ opc' = "check"
    /\ ipc' = "init"
    /\ UNCHANGED <<vars, loop_, exiting_>>

(* The while of startLoop, under mutex_: return, or release mutex_ and     *)
(* wait.  A wait may also end without a notify.                            *)
CheckLoop ==
    /\ opc \in {"check", "waiting"}
    /\ opc' = CASE opc = "waiting" -> "check"
                [] loop_ -> "started"
                [] OTHER -> "waiting"
    /\ UNCHANGED <<vars, ipc, loop_, exiting_>>

OwnerChecks == opc = "check" /\ CheckLoop
SpuriousWakeup == opc = "waiting" /\ CheckLoop

(* ~EventLoopThread: exiting_ = true, and loop_->quit() sets quit_.  The   *)
(* clients of the loop have returned from their calls.                     *)
Destroy ==
    /\ opc = "started"
    /\ \A t \in Threads : tpc[t] = "idle"
    /\ exiting_' = TRUE
    /\ opc' = "quitting"
    /\ IF Alive
       THEN ThreadQuits(Owner)
       ELSE UNCHANGED vars      \* a store into a dead stack frame
    /\ UNCHANGED <<ipc, loop_>>

(* ~EventLoopThread without startLoop(): loop_ is NULL. *)
DestroyUnstarted ==
    /\ opc = "new"
    /\ exiting_' = TRUE
    /\ opc' = "crashed"
    /\ UNCHANGED <<vars, ipc, loop_>>

(* The rest of loop_->quit(): isInLoopThread() and wakeup(); if the        *)
(* EventLoop is gone, its eventfd is closed and the write goes nowhere.    *)
OwnerWakes ==
    /\ opc = "quitting"
    /\ opc' = "join"
    /\ IF Alive /\ tpc[Owner] = "wakeup"
       THEN ThreadWakes(Owner)
       ELSE /\ tpc' = [tpc EXCEPT ![Owner] = "idle"]
            /\ UNCHANGED <<pc, loopVars, functorVars, wakeups, channelVars>>
    /\ UNCHANGED <<ipc, loop_, exiting_>>

Join ==
    /\ opc = "join"
    /\ ipc = "finished"
    /\ opc' = "joined"
    /\ UNCHANGED <<vars, ipc, loop_, exiting_>>

-----------------------------------------------------------------------------
(* The thread. *)

(* callback_(&loop): client code on the loop thread, before loop().  As in *)
(* EventLoop, it does not queue functors for itself.                       *)
InitCallback ==
    /\ ipc = "init"
    /\ \/ \E f \in Functors : RunInLoop(f)
       \/ \E c \in Channels : UpdateChannel(c)
    /\ UNCHANGED threadVars

(* loop_ = &loop; cond_.notify(), under mutex_. *)
Publish ==
    /\ ipc = "init"
    /\ ipc' = "published"
    /\ loop_' = TRUE
    /\ opc' = IF opc = "waiting" THEN "check" ELSE opc
    /\ UNCHANGED <<vars, exiting_>>

(* loop.loop() *)
EnterLoop ==
    /\ ipc = "published"
    /\ ipc' = "loop"
    /\ Loop
    /\ UNCHANGED <<opc, loop_, exiting_>>

RunLoop ==
    /\ ipc = "loop"
    /\ LoopStep
    /\ UNCHANGED threadVars

RunCallbacks ==
    /\ ipc = "loop"
    /\ InCallback
    /\ ClientStep
    /\ UNCHANGED threadVars

RunLoopTimeout ==
    /\ ipc = "loop"
    /\ PollTimeout
    /\ UNCHANGED threadVars

(* loop() has returned: the EventLoop is destroyed and the thread ends. *)
ThreadFuncReturns ==
    /\ ipc = "loop"
    /\ pc = "out"
    /\ ipc' = "finished"
    /\ UNCHANGED <<vars, opc, loop_, exiting_>>

-----------------------------------------------------------------------------
(* Clients of the loop that startLoop returned. *)

ClientQueues(t, f) ==
    /\ opc = "started"
    /\ Alive
    /\ ThreadQueues(t, f)
    /\ UNCHANGED threadVars

ClientWakes(t) ==
    /\ opc = "started"
    /\ ThreadWakes(t)
    /\ UNCHANGED threadVars

SocketReady(c) ==
    /\ ChannelReady(c)
    /\ UNCHANGED threadVars

ThreadStep ==
    \/ Publish \/ EnterLoop \/ RunLoop \/ ThreadFuncReturns

ThreadNext ==
    \/ StartLoop \/ OwnerChecks \/ SpuriousWakeup \/ Destroy \/ DestroyUnstarted
    \/ OwnerWakes \/ Join
    \/ ThreadStep \/ InitCallback \/ RunCallbacks \/ RunLoopTimeout
    \/ \E t \in Threads : ClientWakes(t) \/ \E f \in Functors : ClientQueues(t, f)
    \/ \E c \in Channels : SocketReady(c)

(* Both threads are scheduled and the callbacks return; neither spurious    *)
(* wakeups nor the poll timeout are relied upon.                           *)
ThreadSpec ==
    /\ ThreadInit
    /\ [][ThreadNext]_allVars
    /\ WF_allVars(ThreadStep)
    /\ WF_allVars(OwnerChecks)
    /\ WF_allVars(OwnerWakes)
    /\ WF_allVars(Join)
    /\ \A t \in Threads : WF_allVars(ClientWakes(t))

-----------------------------------------------------------------------------
(* Properties. *)

(***************************************************************************)
(* startLoop returns only when loop_ is set, and then the init callback    *)
(* has completed: no client can race with callback_ on the loop, however   *)
(* the wait of the condition variable ends.                                *)
(***************************************************************************)
StartedAfterInit ==
    opc \in {"started", "quitting", "join", "joined"} =>
        loop_ /\ ipc \notin {"none", "init"}

(***************************************************************************)
(* startLoop returns, whether the thread publishes its loop before or      *)
(* after the owner reaches the while: the notify is not lost.              *)
(***************************************************************************)
StartLoopReturns == (opc = "check") ~> (opc = "started")

(***************************************************************************)
(* The destructor's quit(), if it takes effect while loop() runs, ends the *)
(* thread and the destructor returns.                                      *)
(***************************************************************************)
RunningLoopJoined ==
    (opc = "quitting" /\ looping_ /\ quit_) ~> (opc = "joined")

(***************************************************************************)
(* The destructor returns: its quit() makes the loop, and with it the      *)
(* thread, end (the comment on loop_->quit() in ~EventLoopThread).         *)
(***************************************************************************)
DestructorReturns == (opc = "quitting") ~> (opc = "joined")

(***************************************************************************)
(* While loop() runs, nothing waits for ever and nothing waits for the     *)
(* timeout of poll(): startLoop() returns, with a loop that is set up,     *)
(* functors queued from any thread run, quit() ends loop(), and the        *)
(* destructor of an EventLoopThread whose loop runs joins the thread.      *)
(***************************************************************************)
LoopProgress ==
    /\ []StartedAfterInit
    /\ StartLoopReturns
    /\ FunctorsRun
    /\ QuitReturns
    /\ RunningLoopJoined
=============================================================================
