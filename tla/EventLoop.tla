------------------------------ MODULE EventLoop ------------------------------
(***************************************************************************)
(* net/EventLoop.cpp: one loop thread that polls, dispatches the active    *)
(* channels and runs the pending functors, and other threads that hand it  *)
(* functors or ask it to quit.                                             *)
(*                                                                         *)
(* The loop thread's position in loop() is pc:                             *)
(*   "out"       not inside loop()                                         *)
(*   "while"     at the test of the while                                  *)
(*   "poll"      blocked in Poller::poll                                   *)
(*   "dispatch"  between two channels of the for                           *)
(*   "event"     inside the callback of currentActiveChannel_              *)
(*   "swap"      entering doPendingFunctors                                *)
(*   "functors"  between two functors                                      *)
(*   "functor"   inside a functor                                          *)
(* Another thread is "idle" or between publishing what it wants (a functor *)
(* in the queue, quit_) and its call of wakeup().  The critical sections   *)
(* under mutex_ hold one operation each and are therefore one step.        *)
(***************************************************************************)
EXTENDS Naturals, Sequences, FiniteSets

CONSTANTS
    Threads,        \* threads other than the loop's own
    Functors,       \* calls of runInLoop/queueInLoop, one element per call
    Channels,       \* channels of clients (sockets)
    WakeupChannel,  \* wakeupChannel_
    NoChannel,      \* the NULL of currentActiveChannel_
    MaxWakeups      \* largest value of the eventfd counter

ASSUME ConstantsAssumption ==
    /\ MaxWakeups \in Nat \ {0}
    /\ WakeupChannel \notin Channels
    /\ NoChannel \notin Channels \cup {WakeupChannel}

VARIABLES
    pc,
    looping_,
    quit_,
    eventHandling_,
    callingPendingFunctors_,
    pendingFunctors_,
    functors,               \* the vector of doPendingFunctors, not yet run
    wakeups,                \* the counter behind wakeupFd_
    registered,             \* channels the poller watches
    ready,                  \* channels whose descriptor has an event
    activeChannels_,
    todo,                   \* active channels the for has yet to reach
    currentActiveChannel_,
    tpc,                    \* where each other thread is
    posted,                 \* calls of runInLoop/queueInLoop made so far
    done                    \* functors started so far

loopVars == <<looping_, quit_, eventHandling_, callingPendingFunctors_>>
functorVars == <<pendingFunctors_, functors, posted, done>>
channelVars == <<registered, ready, activeChannels_, todo, currentActiveChannel_>>
vars == <<pc, loopVars, functorVars, wakeups, channelVars, tpc>>

AllChannels == Channels \cup {WakeupChannel}

TypeOK ==
    /\ pc \in {"out", "while", "poll", "dispatch", "event",
               "swap", "functors", "functor"}
    /\ looping_ \in BOOLEAN
    /\ quit_ \in BOOLEAN
    /\ eventHandling_ \in BOOLEAN
    /\ callingPendingFunctors_ \in BOOLEAN
    /\ pendingFunctors_ \in Seq(Functors)
    /\ functors \in Seq(Functors)
    /\ wakeups \in 0..MaxWakeups
    /\ registered \subseteq Channels
    /\ ready \subseteq Channels
    /\ activeChannels_ \subseteq AllChannels
    /\ todo \subseteq AllChannels
    /\ currentActiveChannel_ \in AllChannels \cup {NoChannel}
    /\ tpc \in [Threads -> {"idle", "wakeup"}]
    /\ posted \subseteq Functors
    /\ done \in Seq(Functors)

(* The constructor: no event yet, the wakeup channel enabled for reading. *)
Init ==
    /\ pc = "out"
    /\ looping_ = FALSE
    /\ quit_ = FALSE
    /\ eventHandling_ = FALSE
    /\ callingPendingFunctors_ = FALSE
    /\ pendingFunctors_ = <<>>
    /\ functors = <<>>
    /\ wakeups = 0
    /\ registered = {}
    /\ ready = {}
    /\ activeChannels_ = {}
    /\ todo = {}
    /\ currentActiveChannel_ = NoChannel
    /\ tpc = [t \in Threads |-> "idle"]
    /\ posted = {}
    /\ done = <<>>

-----------------------------------------------------------------------------
(* The eventfd: wakeup() adds one, and fails with EAGAIN, which the code    *)
(* only logs, when the counter is full; handleRead() takes the whole value. *)

Wakeup == wakeups' = IF wakeups < MaxWakeups THEN wakeups + 1 ELSE wakeups

-----------------------------------------------------------------------------
(* loop() *)

(* The call of loop(): a quit() made before it is forgotten. *)
Loop ==
    /\ pc = "out"
    /\ looping_' = TRUE
    /\ quit_' = FALSE
    /\ pc' = "while"
    /\ UNCHANGED <<eventHandling_, callingPendingFunctors_,
                   functorVars, wakeups, channelVars, tpc>>

(* while (!quit_): start another round, or leave loop(). *)
While ==
    /\ pc = "while"
    /\ IF quit_
       THEN /\ pc' = "out"
            /\ looping_' = FALSE
            /\ UNCHANGED activeChannels_
       ELSE /\ pc' = "poll"
            /\ activeChannels_' = {}
            /\ UNCHANGED looping_
    /\ UNCHANGED <<quit_, eventHandling_, callingPendingFunctors_, functorVars,
                   wakeups, registered, ready, todo, currentActiveChannel_, tpc>>

(* Mutant: the wakeup channel is never enabled for reading. *)
PollableUnwatched == registered \cap ready

(* What the poller can report now. *)
Pollable ==
    (registered \cap ready) \cup (IF wakeups > 0 THEN {WakeupChannel} ELSE {})

(* poll() returns with events: epoll_wait reports at most as many as its   *)
(* buffer holds, so any non-empty part of what is pollable.                *)
PollReturns ==
    /\ pc = "poll"
    /\ \E S \in SUBSET Pollable \ {{}} :
         /\ activeChannels_' = S
         /\ todo' = S
    /\ eventHandling_' = TRUE
    /\ pc' = "dispatch"
    /\ UNCHANGED <<looping_, quit_, callingPendingFunctors_, functorVars,
                   wakeups, registered, ready, currentActiveChannel_, tpc>>

(* poll() returns with nothing: kPollTimeMs have passed, or a signal. *)
PollTimeout ==
    /\ pc = "poll"
    /\ Pollable = {}
    /\ eventHandling_' = TRUE
    /\ pc' = "dispatch"
    /\ UNCHANGED <<looping_, quit_, callingPendingFunctors_, functorVars,
                   wakeups, channelVars, tpc>>

(* The next channel of the for.  The callback of wakeupChannel_ is         *)
(* EventLoop::handleRead, which empties the eventfd and calls nothing;     *)
(* that of any other channel consumes its event and runs client code.      *)
HandleEvent(c) ==
    /\ pc = "dispatch"
    /\ c \in todo
    /\ todo' = todo \ {c}
    /\ currentActiveChannel_' = c
    /\ IF c = WakeupChannel
       THEN /\ wakeups' = 0
            /\ UNCHANGED <<pc, ready>>
       ELSE /\ ready' = ready \ {c}
            /\ pc' = "event"
            /\ UNCHANGED wakeups
    /\ UNCHANGED <<loopVars, functorVars, registered, activeChannels_, tpc>>

(* The callback of the current channel returns. *)
EventReturns ==
    /\ pc = "event"
    /\ pc' = "dispatch"
    /\ UNCHANGED <<loopVars, functorVars, wakeups, channelVars, tpc>>

(* The for is over. *)
EndDispatch ==
    /\ pc = "dispatch"
    /\ todo = {}
    /\ currentActiveChannel_' = NoChannel
    /\ eventHandling_' = FALSE
    /\ pc' = "swap"
    /\ UNCHANGED <<looping_, quit_, callingPendingFunctors_, functorVars, wakeups,
                   registered, ready, activeChannels_, todo, tpc>>

(* doPendingFunctors up to the end of its critical section. *)
SwapFunctors ==
    /\ pc = "swap"
    /\ callingPendingFunctors_' = TRUE
    /\ functors' = pendingFunctors_
    /\ pendingFunctors_' = <<>>
    /\ pc' = "functors"
    /\ UNCHANGED <<looping_, quit_, eventHandling_, posted, done, wakeups,
                   channelVars, tpc>>

(* functors[i]() is called ... *)
RunFunctor ==
    /\ pc = "functors"
    /\ functors # <<>>
    /\ done' = Append(done, Head(functors))
    /\ functors' = Tail(functors)
    /\ pc' = "functor"
    /\ UNCHANGED <<loopVars, pendingFunctors_, posted, wakeups, channelVars, tpc>>

(* ... and returns. *)
FunctorReturns ==
    /\ pc = "functor"
    /\ pc' = "functors"
    /\ UNCHANGED <<loopVars, functorVars, wakeups, channelVars, tpc>>

(* Mutant: the queue is cleared after the functors have run, not swapped. *)
EndFunctorsClears ==
    /\ pc = "functors"
    /\ functors = <<>>
    /\ callingPendingFunctors_' = FALSE
    /\ pendingFunctors_' = <<>>
    /\ pc' = "while"
    /\ UNCHANGED <<looping_, quit_, eventHandling_, functors, posted, done,
                   wakeups, channelVars, tpc>>

(* doPendingFunctors returns. *)
EndFunctors ==
    /\ pc = "functors"
    /\ functors = <<>>
    /\ callingPendingFunctors_' = FALSE
    /\ pc' = "while"
    /\ UNCHANGED <<looping_, quit_, eventHandling_, functorVars, wakeups,
                   channelVars, tpc>>

LoopStep ==
    \/ While
    \/ PollReturns
    \/ \E c \in AllChannels : HandleEvent(c)
    \/ EventReturns
    \/ EndDispatch
    \/ SwapFunctors
    \/ RunFunctor
    \/ FunctorReturns
    \/ EndFunctors

-----------------------------------------------------------------------------
(* What client code does on the loop thread. *)

InCallback == pc \in {"event", "functor"}

(* Mutant: queueInLoop never wakes its own thread. *)
QueueInLoopSilent(f) ==
    /\ f \notin posted
    /\ posted' = posted \cup {f}
    /\ pendingFunctors_' = Append(pendingFunctors_, f)
    /\ UNCHANGED <<pc, loopVars, functors, done, wakeups, channelVars, tpc>>

(* queueInLoop on the loop thread wakes it only from a pending functor.    *)
(* Clients call it inside loop(): what they queue outside is not announced *)
(* and waits for the poll timeout or another event.                        *)
QueueInLoop(f) ==
    /\ f \notin posted
    /\ posted' = posted \cup {f}
    /\ pendingFunctors_' = Append(pendingFunctors_, f)
    /\ IF callingPendingFunctors_ THEN Wakeup ELSE UNCHANGED wakeups
    /\ UNCHANGED <<pc, loopVars, functors, done, channelVars, tpc>>

(* A callback or a functor queues a functor. *)
CallbackQueues(f) ==
    /\ InCallback
    /\ QueueInLoop(f)

(* runInLoop on the loop thread calls the functor at once. *)
RunInLoop(f) ==
    /\ InCallback \/ pc = "out"
    /\ f \notin posted
    /\ posted' = posted \cup {f}
    /\ done' = Append(done, f)
    /\ UNCHANGED <<pc, loopVars, pendingFunctors_, functors, wakeups,
                   channelVars, tpc>>

(* quit() on the loop thread does not wake: the while is about to see it. *)
CallbackQuits ==
    /\ InCallback
    /\ quit_' = TRUE
    /\ UNCHANGED <<pc, looping_, eventHandling_, callingPendingFunctors_,
                   functorVars, wakeups, channelVars, tpc>>

(* A channel starts to be watched. *)
UpdateChannel(c) ==
    /\ InCallback \/ pc = "out"
    /\ c \notin registered
    /\ registered' = registered \cup {c}
    /\ UNCHANGED <<pc, loopVars, functorVars, wakeups, ready, activeChannels_,
                   todo, currentActiveChannel_, tpc>>

(* Mutant: removeChannel without its assertion. *)
RemoveUnasserted(c) == TRUE

(* removeChannel: its assertion lets a callback remove a channel that has  *)
(* been reported in this round only when it is the current one.            *)
RemoveAssertion(c) ==
    eventHandling_ => \/ currentActiveChannel_ = c
                      \/ c \notin activeChannels_

RemoveChannel(c) ==
    /\ InCallback \/ pc = "out"
    /\ c \in registered
    /\ RemoveAssertion(c)
    /\ registered' = registered \ {c}
    /\ UNCHANGED <<pc, loopVars, functorVars, wakeups, ready, activeChannels_,
                   todo, currentActiveChannel_, tpc>>

ClientStep ==
    \/ \E f \in Functors : CallbackQueues(f) \/ RunInLoop(f)
    \/ CallbackQuits
    \/ \E c \in Channels : UpdateChannel(c) \/ RemoveChannel(c)

-----------------------------------------------------------------------------
(* The other threads. *)

(* queueInLoop, or runInLoop, on another thread: the push under mutex_ ... *)
ThreadQueues(t, f) ==
    /\ tpc[t] = "idle"
    /\ f \notin posted
    /\ posted' = posted \cup {f}
    /\ pendingFunctors_' = Append(pendingFunctors_, f)
    /\ tpc' = [tpc EXCEPT ![t] = "wakeup"]
    /\ UNCHANGED <<pc, loopVars, functors, done, wakeups, channelVars>>

(* Mutant: quit() on another thread does not wake the loop. *)
ThreadQuitsSilently(t) ==
    /\ tpc[t] = "idle"
    /\ quit_' = TRUE
    /\ UNCHANGED <<pc, looping_, eventHandling_, callingPendingFunctors_,
                   functorVars, wakeups, channelVars, tpc>>

(* quit() on another thread: the assignment ... *)
ThreadQuits(t) ==
    /\ tpc[t] = "idle"
    /\ quit_' = TRUE
    /\ tpc' = [tpc EXCEPT ![t] = "wakeup"]
    /\ UNCHANGED <<pc, looping_, eventHandling_, callingPendingFunctors_,
                   functorVars, wakeups, channelVars>>

(* ... and, later, the wakeup() that ends either call. *)
ThreadWakes(t) ==
    /\ tpc[t] = "wakeup"
    /\ Wakeup
    /\ tpc' = [tpc EXCEPT ![t] = "idle"]
    /\ UNCHANGED <<pc, loopVars, functorVars, channelVars>>

(* The kernel: a descriptor gets an event. *)
ChannelReady(c) ==
    /\ c \notin ready
    /\ ready' = ready \cup {c}
    /\ UNCHANGED <<pc, loopVars, functorVars, wakeups, registered,
                   activeChannels_, todo, currentActiveChannel_, tpc>>

Next ==
    \/ Loop
    \/ LoopStep
    \/ PollTimeout
    \/ ClientStep
    \/ \E t \in Threads :
         \/ \E f \in Functors : ThreadQueues(t, f)
         \/ ThreadQuits(t)
         \/ ThreadWakes(t)
    \/ \E c \in Channels : ChannelReady(c)

Spec == Init /\ [][Next]_vars

(***************************************************************************)
(* Fairness.  The loop thread and the threads inside quit/queueInLoop are  *)
(* scheduled and callbacks return; nothing is assumed of the 10 s timeout, *)
(* so that what follows does not depend on it.                             *)
(***************************************************************************)
Fairness ==
    /\ WF_vars(LoopStep)
    /\ \A t \in Threads : WF_vars(ThreadWakes(t))

FairSpec == Spec /\ Fairness

-----------------------------------------------------------------------------
(* Properties. *)

(* A wakeup is in the eventfd, or a thread is about to write one. *)
WakeupComing == wakeups > 0 \/ \E t \in Threads : tpc[t] = "wakeup"

(***************************************************************************)
(* The loop never blocks in poll() with functors in pendingFunctors_       *)
(* unless a wakeup ends the poll: queueInLoop may skip wakeup() only where  *)
(* doPendingFunctors is still to come in the same round.                   *)
(***************************************************************************)
NoLostWakeup == pc = "poll" /\ pendingFunctors_ # <<>> => WakeupComing

(***************************************************************************)
(* The loop never blocks in poll() after a quit() made since loop() began, *)
(* unless a wakeup ends the poll: quit() on the loop's own thread need not  *)
(* wake, because the test of the while is still to come.                   *)
(***************************************************************************)
NoLostQuit == pc = "poll" /\ quit_ => WakeupComing

(***************************************************************************)
(* loop() never calls handleEvent on a channel that removeChannel has      *)
(* taken out of the poller in the same round, because of the assertion in  *)
(* removeChannel; the owner of a removed channel destroys it.              *)
(***************************************************************************)
NoStaleDispatch == todo \cap Channels \subseteq registered

(***************************************************************************)
(* The inductive invariant behind the three above: where the flags of the  *)
(* loop stand for its position, and why nothing is pending unannounced     *)
(* except on the way to the swap of doPendingFunctors.                     *)
(***************************************************************************)
FlagsMatchPc ==
    /\ eventHandling_ <=> pc \in {"dispatch", "event"}
    /\ callingPendingFunctors_ <=> pc \in {"functors", "functor"}
    /\ todo \subseteq activeChannels_
    /\ currentActiveChannel_ \notin todo
    /\ pc \notin {"dispatch", "event"} =>
           todo = {} /\ currentActiveChannel_ = NoChannel
    /\ pc \notin {"functors", "functor"} => functors = <<>>

PendingAnnounced ==
    pendingFunctors_ # <<>> =>
        WakeupComing \/ pc \in {"dispatch", "event", "swap"}

LoopInv ==
    /\ TypeOK
    /\ FlagsMatchPc
    /\ PendingAnnounced
    /\ NoLostQuit
    /\ NoStaleDispatch

(***************************************************************************)
(* Functors run once each, and queued functors in the order of their       *)
(* queueInLoop, whatever the threads do: the batch that doPendingFunctors  *)
(* took out and the queue that grows meanwhile form one FIFO queue.        *)
(***************************************************************************)
FQ == INSTANCE FunctorQueue WITH queue <- functors \o pendingFunctors_

RunsOnceInOrder == FQ!Spec

(***************************************************************************)
(* A functor that is queued while loop() runs is run, without any help     *)
(* from the poll timeout, unless loop() returns first.                     *)
(***************************************************************************)
Started(f) == \E i \in 1..Len(done) : done[i] = f

FunctorsRun ==
    \A f \in Functors :
        (f \in posted /\ looping_) ~> (Started(f) \/ ~looping_)

(***************************************************************************)
(* A quit() made while loop() runs, from any thread, makes it return,      *)
(* again without the poll timeout.                                         *)
(***************************************************************************)
QuitReturns == (quit_ /\ looping_) ~> ~looping_
=============================================================================
