---------------------------- MODULE QueuesProofs ----------------------------
(***************************************************************************)
(* Proofs about BlockingQueue and BoundedBlockingQueue for any finite set  *)
(* of threads, any values and any size of the queue.                       *)
(***************************************************************************)
EXTENDS Queues, FiniteSetTheorems, SequenceTheorems, TLAPS

-----------------------------------------------------------------------------
(* BlockingQueue.  NoLostNotify needs only the types beside it: a put()    *)
(* with somebody waiting adds one element and one awake taker, a take()    *)
(* removes one of each, and a taker goes to wait on an empty queue only.   *)

(* Moving one thread into "take" adds it to the awake ones. *)
LEMMA OneMoreAwake ==
    ASSUME TypeOK, NEW t \in Threads, tpc[t] # "take",
           tpc' = [tpc EXCEPT ![t] = "take"]
    PROVE  /\ Cardinality(Awake) \in Nat
           /\ Cardinality(Awake') = Cardinality(Awake) + 1
<1>1. IsFiniteSet(Awake)
  BY QueueAssumption, FS_Subset DEF Awake
<1>2. t \notin Awake
  BY DEF Awake
<1>3. Awake' = Awake \cup {t}
  BY DEF Awake, TypeOK
<1> QED
  BY <1>1, <1>2, <1>3, FS_AddElement, FS_CardinalityType

(* Moving one thread out of "take" removes it from the awake ones. *)
LEMMA OneLessAwake ==
    ASSUME TypeOK, NEW t \in Threads, NEW pc, tpc[t] = "take", pc # "take",
           tpc' = [tpc EXCEPT ![t] = pc]
    PROVE  /\ Cardinality(Awake) \in Nat
           /\ Cardinality(Awake') = Cardinality(Awake) - 1
<1>1. IsFiniteSet(Awake)
  BY QueueAssumption, FS_Subset DEF Awake
<1>2. t \in Awake
  BY DEF Awake
<1>3. Awake' = Awake \ {t}
  BY DEF Awake, TypeOK
<1> QED
  BY <1>1, <1>2, <1>3, FS_RemoveElement, FS_CardinalityType

(* The steps of put() and take() keep the types. *)
LEMMA TypeStep == TypeOK /\ [Next]_vars => TypeOK'
<1> SUFFICES ASSUME TypeOK, [Next]_vars PROVE TypeOK'
  OBVIOUS
<1> USE DEF TypeOK
<1>1. ASSUME NEW t \in Threads, NEW x \in Values, Put(t, x) PROVE TypeOK'
  BY <1>1 DEF Put, notify, Waiting
<1>2. ASSUME NEW t \in Threads, CallTake(t) PROVE TypeOK'
  BY <1>2 DEF CallTake
<1>3. ASSUME NEW t \in Threads, TakeWaits(t) PROVE TypeOK'
  BY <1>3 DEF TakeWaits
<1>4. ASSUME NEW t \in Threads, Take(t) PROVE TypeOK'
  BY <1>4 DEF Take
<1>5. ASSUME NEW t \in Threads, SpuriousWakeup(t) PROVE TypeOK'
  BY <1>5 DEF SpuriousWakeup
<1>6. CASE UNCHANGED vars
  BY <1>6 DEF vars
<1> QED
  BY <1>1, <1>2, <1>3, <1>4, <1>5, <1>6 DEF Next

(* Every thread of a BlockingQueue is in a known place and the queue holds *)
(* values only.                                                            *)
THEOREM TypeCorrect == Spec => []TypeOK
<1>1. Init => TypeOK
  BY DEF Init, TypeOK
<1> QED
  BY <1>1, TypeStep, PTL DEF Spec

(* One step of put() or take() loses no notification. *)
LEMMA NotifyStep == TypeOK /\ NoLostNotify /\ [Next]_vars => NoLostNotify'
<1> SUFFICES ASSUME TypeOK, NoLostNotify, [Next]_vars, Waiting' # {}
             PROVE  Len(queue_') <= Cardinality(Awake')
  BY DEF NoLostNotify
<1>0. Len(queue_) \in Nat
  BY DEF TypeOK
<1>1. ASSUME NEW t \in Threads, NEW x \in Values, Put(t, x)
      PROVE  Len(queue_') <= Cardinality(Awake')
  <2>1. Waiting # {}
    BY <1>1 DEF Put, notify, Waiting
  <2>2. PICK w \in Waiting : tpc' = [tpc EXCEPT ![w] = "take"]
    BY <1>1, <2>1 DEF Put, notify
  <2>3. Cardinality(Awake) \in Nat /\ Cardinality(Awake') = Cardinality(Awake) + 1
    BY <2>2, OneMoreAwake DEF Waiting
  <2>4. Len(queue_') = Len(queue_) + 1
    BY <1>1 DEF Put, TypeOK
  <2> QED
    BY <1>0, <2>1, <2>3, <2>4 DEF NoLostNotify
<1>2. ASSUME NEW t \in Threads, CallTake(t)
      PROVE  Len(queue_') <= Cardinality(Awake')
  <2>1. Cardinality(Awake) \in Nat /\ Cardinality(Awake') = Cardinality(Awake) + 1
    BY <1>2, OneMoreAwake DEF CallTake
  <2>2. Waiting # {}
    BY <1>2 DEF CallTake, Waiting, TypeOK
  <2> QED
    BY <1>0, <1>2, <2>1, <2>2 DEF CallTake, NoLostNotify
<1>3. ASSUME NEW t \in Threads, TakeWaits(t)
      PROVE  Len(queue_') <= Cardinality(Awake')
  <2>1. Len(queue_') = 0
    BY <1>3 DEF TakeWaits
  <2>2. IsFiniteSet(Awake')
    BY QueueAssumption, FS_Subset DEF Awake
  <2> QED
    BY <2>1, <2>2, FS_CardinalityType
<1>4. ASSUME NEW t \in Threads, Take(t)
      PROVE  Len(queue_') <= Cardinality(Awake')
  <2>1. Cardinality(Awake) \in Nat /\ Cardinality(Awake') = Cardinality(Awake) - 1
    BY <1>4, OneLessAwake DEF Take
  <2>2. Waiting # {}
    BY <1>4 DEF Take, Waiting, TypeOK
  <2>3. Len(queue_') = Len(queue_) - 1
    BY <1>4 DEF Take, TypeOK
  <2> QED
    BY <1>0, <2>1, <2>2, <2>3 DEF NoLostNotify
<1>5. ASSUME NEW t \in Threads, SpuriousWakeup(t)
      PROVE  Len(queue_') <= Cardinality(Awake')
  <2>1. Cardinality(Awake) \in Nat /\ Cardinality(Awake') = Cardinality(Awake) + 1
    BY <1>5, OneMoreAwake DEF SpuriousWakeup
  <2>2. Waiting # {}
    BY <1>5 DEF SpuriousWakeup, Waiting
  <2> QED
    BY <1>0, <1>5, <2>1, <2>2 DEF SpuriousWakeup, NoLostNotify
<1>6. CASE UNCHANGED vars
  BY <1>6 DEF vars, Waiting, Awake, NoLostNotify
<1> QED
  BY <1>1, <1>2, <1>3, <1>4, <1>5, <1>6 DEF Next

(* However many threads put() and take(), while one waits every element    *)
(* has an awake taker: one notify() per put() is enough.                   *)
THEOREM TakersAwake == Spec => []NoLostNotify
<1>1. Init => TypeOK /\ NoLostNotify
  BY DEF Init, TypeOK, NoLostNotify, Waiting
<1>2. TypeOK /\ NoLostNotify /\ [Next]_vars => (TypeOK /\ NoLostNotify)'
  BY TypeStep, NotifyStep
<1> QED
  BY <1>1, <1>2, PTL DEF Spec

-----------------------------------------------------------------------------
(* BoundedBlockingQueue: the circular buffer.                              *)

(* Positions wrap round once. *)
LEMMA Wraps ==
    ASSUME NEW a \in Nat
    PROVE  /\ a < maxSize => a % maxSize = a
           /\ maxSize <= a /\ a < 2 * maxSize => a % maxSize = a - maxSize
  BY BoundedAssumption

LEMMA PositionIs ==
    ASSUME NEW r \in Nat, NEW i \in Nat \ {0}, r + i - 1 < 2 * maxSize
    PROVE  (r + i - 1) % maxSize = IF r + i - 1 < maxSize THEN r + i - 1
                                   ELSE r + i - 1 - maxSize
<1>1. r + i - 1 \in Nat
  OBVIOUS
<1> QED
  BY <1>1, Wraps, BoundedAssumption

(* The number of elements, without the remainder. *)
LEMMA SizeIs ==
    ASSUME B!TypeOK
    PROVE  /\ B!size = IF read_pos_ <= write_pos_ THEN write_pos_ - read_pos_
                       ELSE write_pos_ + maxSize - read_pos_
           /\ B!size \in 0..(maxSize - 1)
           /\ B!empty <=> B!size = 0
           /\ B!full <=> B!size = maxSize - 1
<1>1. /\ read_pos_ \in Nat /\ read_pos_ < maxSize
      /\ write_pos_ \in Nat /\ write_pos_ < maxSize
      /\ maxSize \in Nat /\ maxSize > 0
  BY BoundedAssumption DEF B!TypeOK, B!Positions
<1>2. B!size = IF read_pos_ <= write_pos_ THEN write_pos_ - read_pos_
               ELSE write_pos_ + maxSize - read_pos_
  BY <1>1, Wraps DEF B!size
<1>3. (write_pos_ + 1) % maxSize = IF write_pos_ + 1 = maxSize THEN 0 ELSE write_pos_ + 1
  BY <1>1, Wraps
<1> QED
  BY <1>1, <1>2, <1>3 DEF B!empty, B!full

(* push_back() adds an element and pop_front() removes one. *)
LEMMA SizeAfterPush ==
    ASSUME B!TypeOK, ~B!full, NEW x, B!push_back(x)
    PROVE  B!size' = B!size + 1
<1>1. /\ read_pos_ \in Nat /\ read_pos_ < maxSize
      /\ write_pos_ \in Nat /\ write_pos_ < maxSize
      /\ maxSize \in Nat /\ maxSize > 0
  BY BoundedAssumption DEF B!TypeOK, B!Positions
<1>2. write_pos_' = IF write_pos_ + 1 = maxSize THEN 0 ELSE write_pos_ + 1
  BY <1>1, Wraps DEF B!push_back
<1>3. B!size' = IF read_pos_ <= write_pos_' THEN write_pos_' - read_pos_
                ELSE write_pos_' + maxSize - read_pos_
  BY <1>1, <1>2, Wraps DEF B!size, B!push_back
<1> QED
  BY <1>1, <1>2, <1>3, SizeIs

LEMMA SizeAfterPop ==
    ASSUME B!TypeOK, ~B!empty, B!pop_front
    PROVE  /\ B!size' = B!size - 1
           /\ read_pos_' = IF read_pos_ + 1 = maxSize THEN 0 ELSE read_pos_ + 1
<1>1. /\ read_pos_ \in Nat /\ read_pos_ < maxSize
      /\ write_pos_ \in Nat /\ write_pos_ < maxSize
      /\ maxSize \in Nat /\ maxSize > 0
  BY BoundedAssumption DEF B!TypeOK, B!Positions
<1>2. read_pos_' = IF read_pos_ + 1 = maxSize THEN 0 ELSE read_pos_ + 1
  BY <1>1, Wraps DEF B!pop_front
<1>3. B!size' = IF read_pos_' <= write_pos_ THEN write_pos_ - read_pos_'
                ELSE write_pos_ + maxSize - read_pos_'
  BY <1>1, <1>2, Wraps DEF B!size, B!pop_front
<1> QED
  BY <1>1, <1>2, <1>3, SizeIs DEF B!empty

-----------------------------------------------------------------------------
(* BoundedBlockingQueue: put() and take().                                 *)

(* The inductive invariant: besides BoundedSound, a thread inside put()    *)
(* has an element to put.                                                  *)
ArgumentSet == \A t \in Threads : btpc[t] \in {"put", "notFull"} => arg[t] \in Values

BoundedInv == BoundedSound /\ ArgumentSet

LEMMA SameCardinality == \A S : B!Cardinality(S) = Cardinality(S)
  BY DEF B!Cardinality, Cardinality

LEMMA ThreadCount ==
    ASSUME NEW S \in SUBSET Threads
    PROVE  /\ B!Cardinality(S) \in Nat
           /\ \A t \in Threads \ S : B!Cardinality(S \cup {t}) = B!Cardinality(S) + 1
           /\ \A t \in S : B!Cardinality(S \ {t}) = B!Cardinality(S) - 1
<1>1. IsFiniteSet(S)
  BY QueueAssumption, FS_Subset
<1> QED
  BY <1>1, SameCardinality, FS_CardinalityType, FS_AddElement, FS_RemoveElement

LEMMA BoundedTypeStep == B!TypeOK /\ ArgumentSet /\ B!Next => B!TypeOK' /\ ArgumentSet'
<1> SUFFICES ASSUME B!TypeOK, ArgumentSet, NEW t \in Threads,
                    \/ \E x \in Values : B!CallPut(t, x)
                    \/ B!CallTake(t) \/ B!Step(t) \/ B!SpuriousWakeup(t)
             PROVE  B!TypeOK' /\ ArgumentSet'
  BY DEF B!Next
<1> USE DEF B!TypeOK, ArgumentSet, B!bufferVars
<1>0. \A a \in Nat : a % maxSize \in B!Positions
  BY BoundedAssumption DEF B!Positions
<1>1. read_pos_ + 1 \in Nat /\ write_pos_ + 1 \in Nat
  BY BoundedAssumption DEF B!Positions
<1>2. ASSUME NEW x \in Values, B!CallPut(t, x) PROVE B!TypeOK' /\ ArgumentSet'
  BY <1>2 DEF B!CallPut
<1>3. CASE B!CallTake(t)
  BY <1>3 DEF B!CallTake
<1>4. CASE B!PutWaits(t)
  BY <1>4 DEF B!PutWaits
<1>5. CASE B!Put(t)
  <2>1. /\ write_pos_' \in B!Positions /\ read_pos_' \in B!Positions
        /\ buffer_' \in [B!Positions -> Values \cup {NoValue}]
    BY <1>0, <1>1, <1>5 DEF B!Put, B!push_back
  <2> QED
    BY <1>5, <2>1 DEF B!Put, B!NotifyAndReturn, B!Waiting
<1>6. CASE B!TakeWaits(t)
  BY <1>6 DEF B!TakeWaits
<1>7. CASE B!Take(t)
  <2>1. /\ write_pos_' \in B!Positions /\ read_pos_' \in B!Positions
        /\ buffer_' = buffer_
        /\ B!front \in Values \cup {NoValue}
    BY <1>0, <1>1, <1>7 DEF B!Take, B!pop_front, B!front
  <2> QED
    BY <1>7, <2>1 DEF B!Take, B!NotifyAndReturn, B!Waiting
<1>8. CASE B!SpuriousWakeup(t)
  BY <1>8 DEF B!SpuriousWakeup
<1> QED
  BY <1>2, <1>3, <1>4, <1>5, <1>6, <1>7, <1>8 DEF B!Step

(* A thread that returns from put() or take() leaves it, and the waiter it *)
(* notifies, if there is one, is awake.                                    *)
LEMMA Notified ==
    ASSUME B!TypeOK, NEW t \in Threads,
           NEW cond \in {"notEmpty", "notFull"}, NEW op \in {"put", "take"},
           NEW mine \in {"put", "take"}, mine # op, btpc[t] = mine,
           B!NotifyAndReturn(t, cond, op)
    PROVE  /\ B!Waiting(mine)' = B!Waiting(mine) \ {t}
           /\ \/ /\ B!Waiting(cond) = {} /\ B!Waiting(cond)' = {}
              \/ \E w \in Threads \ B!Waiting(op) :
                    B!Waiting(op)' = B!Waiting(op) \cup {w} /\ B!Waiting(cond) # {}
           /\ \A c \in {"notEmpty", "notFull"} \ {cond} : B!Waiting(c)' = B!Waiting(c)
<1>1. CASE B!Waiting(cond) = {}
  <2>1. btpc' = [btpc EXCEPT ![t] = "idle"]
    BY <1>1 DEF B!NotifyAndReturn
  <2> QED
    BY <1>1, <2>1 DEF B!Waiting, B!TypeOK
<1>2. CASE B!Waiting(cond) # {}
  <2>1. PICK w \in B!Waiting(cond) : btpc' = [btpc EXCEPT ![t] = "idle", ![w] = op]
    BY <1>2 DEF B!NotifyAndReturn
  <2>2. w \in Threads /\ w # t /\ btpc[w] = cond
    BY <2>1 DEF B!Waiting
  <2>3. \A u \in Threads : btpc'[u] = IF u = w THEN op ELSE IF u = t THEN "idle" ELSE btpc[u]
    BY <2>1, <2>2 DEF B!TypeOK
  <2>4. B!Waiting(op)' = B!Waiting(op) \cup {w} /\ w \notin B!Waiting(op)
    BY <2>2, <2>3 DEF B!Waiting
  <2>5. B!Waiting(mine)' = B!Waiting(mine) \ {t}
    BY <2>2, <2>3 DEF B!Waiting
  <2>6. \A c \in {"notEmpty", "notFull"} \ {cond} : B!Waiting(c)' = B!Waiting(c)
    BY <2>2, <2>3 DEF B!Waiting
  <2> QED
    BY <1>2, <2>2, <2>4, <2>5, <2>6
<1> QED
  BY <1>1, <1>2

(* One step of put() or take() loses no notification. *)
LEMMA BoundedStep == BoundedInv /\ B!Next => BoundedInv'
<1> SUFFICES ASSUME BoundedInv, NEW t \in Threads,
                    \/ \E x \in Values : B!CallPut(t, x)
                    \/ B!CallTake(t) \/ B!Step(t) \/ B!SpuriousWakeup(t)
             PROVE  (NoLostNotEmpty /\ NoLostNotFull)'
  <2>1. BoundedInv /\ B!Next => B!TypeOK' /\ ArgumentSet'
    BY BoundedTypeStep DEF BoundedInv, BoundedSound
  <2> QED
    BY <2>1 DEF B!Next, BoundedInv, BoundedSound
<1>0. /\ B!TypeOK
      /\ B!Waiting("notEmpty") # {} => B!size <= B!Cardinality(B!Waiting("take"))
      /\ B!Waiting("notFull") # {} =>
            maxSize - 1 - B!size <= B!Cardinality(B!Waiting("put"))
  BY DEF BoundedInv, BoundedSound, NoLostNotEmpty, NoLostNotFull,
         B!NoLostNotEmpty, B!NoLostNotFull
<1> SUFFICES /\ B!Waiting("notEmpty")' # {} =>
                   B!size' <= B!Cardinality(B!Waiting("take")')
             /\ B!Waiting("notFull")' # {} =>
                   maxSize - 1 - B!size' <= B!Cardinality(B!Waiting("put")')
  BY SameCardinality DEF NoLostNotEmpty, NoLostNotFull, B!NoLostNotEmpty, B!NoLostNotFull
<1>s. B!size \in 0..(maxSize - 1) /\ maxSize \in Nat
  BY <1>0, SizeIs, BoundedAssumption
<1>c. \A c : B!Waiting(c) \in SUBSET Threads /\ B!Waiting(c)' \in SUBSET Threads
  BY DEF B!Waiting
<1>n. /\ B!Cardinality(B!Waiting("take")) \in Nat
      /\ B!Cardinality(B!Waiting("put")) \in Nat
      /\ B!Cardinality(B!Waiting("take")') \in Nat
      /\ B!Cardinality(B!Waiting("put")') \in Nat
  BY <1>c, ThreadCount
<1>2. ASSUME NEW x \in Values, B!CallPut(t, x)
      PROVE  /\ B!size' = B!size
             /\ B!Waiting("put")' = B!Waiting("put") \cup {t} /\ t \notin B!Waiting("put")
             /\ \A c \in {"take", "notEmpty", "notFull"} : B!Waiting(c)' = B!Waiting(c)
  BY <1>0, <1>2 DEF B!CallPut, B!bufferVars, B!size, B!Waiting, B!TypeOK
<1>3. ASSUME B!CallTake(t)
      PROVE  /\ B!size' = B!size
             /\ B!Waiting("take")' = B!Waiting("take") \cup {t} /\ t \notin B!Waiting("take")
             /\ \A c \in {"put", "notEmpty", "notFull"} : B!Waiting(c)' = B!Waiting(c)
  BY <1>0, <1>3 DEF B!CallTake, B!bufferVars, B!size, B!Waiting, B!TypeOK
<1>4. ASSUME B!PutWaits(t)
      PROVE  /\ B!size' = B!size /\ B!size = maxSize - 1
             /\ \A c \in {"take", "notEmpty"} : B!Waiting(c)' = B!Waiting(c)
  BY <1>0, <1>4, SizeIs DEF B!PutWaits, B!bufferVars, B!size, B!Waiting, B!TypeOK
<1>5. ASSUME B!TakeWaits(t)
      PROVE  /\ B!size' = B!size /\ B!size = 0
             /\ \A c \in {"put", "notFull"} : B!Waiting(c)' = B!Waiting(c)
  BY <1>0, <1>5, SizeIs DEF B!TakeWaits, B!bufferVars, B!size, B!Waiting, B!TypeOK
<1>6. CASE B!Put(t)
  <2>1. B!size' = B!size + 1
    BY <1>0, <1>6, SizeAfterPush DEF B!Put
  <2>2. t \in B!Waiting("put") /\ B!NotifyAndReturn(t, "notEmpty", "take")
    BY <1>6 DEF B!Put, B!Waiting
  <2>3. /\ B!Waiting("put")' = B!Waiting("put") \ {t}
        /\ \/ B!Waiting("notEmpty")' = {}
           \/ \E w \in Threads \ B!Waiting("take") :
                /\ B!Waiting("take")' = B!Waiting("take") \cup {w}
                /\ B!Waiting("notEmpty") # {}
        /\ B!Waiting("notFull")' = B!Waiting("notFull")
    BY <1>0, <2>2, Notified DEF B!Waiting
  <2>4. B!Cardinality(B!Waiting("put")') = B!Cardinality(B!Waiting("put")) - 1
    BY <1>c, <2>2, <2>3, ThreadCount
  <2>5. \/ B!Waiting("notEmpty")' = {}
        \/ /\ B!Cardinality(B!Waiting("take")') = B!Cardinality(B!Waiting("take")) + 1
           /\ B!Waiting("notEmpty") # {}
    BY <1>c, <2>3, ThreadCount
  <2> QED
    BY <1>0, <1>s, <1>n, <2>1, <2>3, <2>4, <2>5
<1>7. CASE B!Take(t)
  <2>1. B!size' = B!size - 1
    BY <1>0, <1>7, SizeAfterPop DEF B!Take
  <2>2. t \in B!Waiting("take") /\ B!NotifyAndReturn(t, "notFull", "put")
    BY <1>7 DEF B!Take, B!Waiting
  <2>3. /\ B!Waiting("take")' = B!Waiting("take") \ {t}
        /\ \/ B!Waiting("notFull")' = {}
           \/ \E w \in Threads \ B!Waiting("put") :
                /\ B!Waiting("put")' = B!Waiting("put") \cup {w}
                /\ B!Waiting("notFull") # {}
        /\ B!Waiting("notEmpty")' = B!Waiting("notEmpty")
    BY <1>0, <2>2, Notified DEF B!Waiting
  <2>4. B!Cardinality(B!Waiting("take")') = B!Cardinality(B!Waiting("take")) - 1
    BY <1>c, <2>2, <2>3, ThreadCount
  <2>5. \/ B!Waiting("notFull")' = {}
        \/ /\ B!Cardinality(B!Waiting("put")') = B!Cardinality(B!Waiting("put")) + 1
           /\ B!Waiting("notFull") # {}
    BY <1>c, <2>3, ThreadCount
  <2> QED
    BY <1>0, <1>s, <1>n, <2>1, <2>3, <2>4, <2>5
<1>8. CASE B!SpuriousWakeup(t)
  <2>1. B!size' = B!size
    BY <1>8 DEF B!SpuriousWakeup, B!bufferVars, B!size
  <2>2. \/ /\ B!Waiting("put")' = B!Waiting("put") \cup {t} /\ t \notin B!Waiting("put")
           /\ B!Waiting("take")' = B!Waiting("take")
        \/ /\ B!Waiting("take")' = B!Waiting("take") \cup {t} /\ t \notin B!Waiting("take")
           /\ B!Waiting("put")' = B!Waiting("put")
    BY <1>0, <1>8 DEF B!SpuriousWakeup, B!Waiting, B!TypeOK
  <2>3. \A c \in {"notEmpty", "notFull"} : B!Waiting(c)' \subseteq B!Waiting(c)
    BY <1>0, <1>8 DEF B!SpuriousWakeup, B!Waiting, B!TypeOK
  <2>4. /\ B!Cardinality(B!Waiting("put")') >= B!Cardinality(B!Waiting("put"))
        /\ B!Cardinality(B!Waiting("take")') >= B!Cardinality(B!Waiting("take"))
    BY <1>c, <1>n, <2>2, ThreadCount
  <2>5. /\ B!Waiting("notEmpty")' # {} => B!Waiting("notEmpty") # {}
        /\ B!Waiting("notFull")' # {} => B!Waiting("notFull") # {}
    BY <2>3
  <2> QED
    BY <1>0, <1>s, <1>n, <2>1, <2>4, <2>5
<1> QED
  <2>1. ASSUME NEW x \in Values, B!CallPut(t, x)
        PROVE  B!Cardinality(B!Waiting("put")') = B!Cardinality(B!Waiting("put")) + 1
    BY <1>c, <1>2, <2>1, ThreadCount
  <2>2. ASSUME B!CallTake(t)
        PROVE  B!Cardinality(B!Waiting("take")') = B!Cardinality(B!Waiting("take")) + 1
    BY <1>c, <1>3, <2>2, ThreadCount
  <2> QED
    BY <1>0, <1>s, <1>n, <1>2, <1>3, <1>4, <1>5, <1>6, <1>7, <1>8, <2>1, <2>2 DEF B!Step

LEMMA BoundedInvariant == SpecEither => []BoundedInv
<1>1. InitEither => BoundedInv
  <2> SUFFICES ASSUME B!Init PROVE BoundedInv
    BY DEF InitEither
  <2>1. B!TypeOK /\ ArgumentSet
    BY BoundedAssumption DEF B!Init, B!TypeOK, B!Positions, ArgumentSet
  <2> QED
    BY <2>1 DEF B!Init, BoundedInv, BoundedSound, NoLostNotEmpty, NoLostNotFull,
                B!NoLostNotEmpty, B!NoLostNotFull, B!Waiting
<1>2. BoundedInv /\ [NextEither]_allVars => BoundedInv'
  <2>1. BoundedInv /\ UNCHANGED boundedVars => BoundedInv'
    BY DEF boundedVars, BoundedInv, BoundedSound, ArgumentSet, NoLostNotEmpty, NoLostNotFull,
           B!TypeOK, B!NoLostNotEmpty, B!NoLostNotFull, B!Waiting, B!size
  <2> QED
    BY <2>1, BoundedStep DEF NextEither, NextUnbounded, NextBounded, allVars
<1> QED
  BY <1>1, <1>2, PTL DEF SpecEither

(* In BoundedBlockingQueue nobody waits for an element or for room that    *)
(* no awake thread is going to use, for any number of threads and any size *)
(* of the buffer.                                                          *)
THEOREM BoundedKeepsAwake == SpecEither => []BoundedSound
<1>1. BoundedInv => BoundedSound
  BY DEF BoundedInv
<1> QED
  BY <1>1, BoundedInvariant, PTL

-----------------------------------------------------------------------------
(* BoundedBlockingQueue as a FIFO queue.                                   *)

(* Append and Tail by their elements. *)
LEMMA IsAppend ==
    ASSUME NEW S, NEW q \in Seq(S), NEW x \in S,
           NEW r, r = [i \in 1..(Len(q) + 1) |-> IF i = Len(q) + 1 THEN x ELSE q[i]]
    PROVE  r = Append(q, x)
<1>1. Len(q) \in Nat
  BY LenProperties
<1>2. /\ Append(q, x) \in Seq(S) /\ Len(Append(q, x)) = Len(q) + 1
      /\ \A i \in 1..Len(q) : Append(q, x)[i] = q[i]
      /\ Append(q, x)[Len(q) + 1] = x
  BY AppendProperties
<1>3. r \in Seq(S) /\ Len(r) = Len(q) + 1
  BY <1>1, ElementOfSeq
<1>4. \A i \in 1..Len(r) : r[i] = Append(q, x)[i]
  BY <1>1, <1>2, <1>3
<1> QED
  BY <1>2, <1>3, <1>4, SeqEqual

LEMMA IsTail ==
    ASSUME NEW S, NEW q \in Seq(S), q # << >>,
           NEW r, r = [i \in 1..(Len(q) - 1) |-> q[i + 1]]
    PROVE  r = Tail(q)
<1>1. Len(q) \in Nat \ {0}
  BY EmptySeq
<1>2. /\ Tail(q) \in Seq(S) /\ Len(Tail(q)) = Len(q) - 1
      /\ \A i \in 1..Len(Tail(q)) : Tail(q)[i] = q[i + 1]
  BY HeadTailProperties
<1>3. \A i \in 1..(Len(q) - 1) : q[i + 1] \in S
  BY <1>1, ElementOfSeq
<1>4. r \in Seq(S) /\ Len(r) = Len(q) - 1
  BY <1>1, <1>3
<1> QED
  BY <1>2, <1>4, SeqEqual

(* push_back() appends to what the buffer holds, in spite of the wrapping. *)
LEMMA ContentsAfterPush ==
    ASSUME B!TypeOK, ~B!full, NEW x \in Values \cup {NoValue}, B!push_back(x)
    PROVE  B!Contents' = Append(B!Contents, x)
<1>1. /\ read_pos_ \in Nat /\ read_pos_ < maxSize
      /\ write_pos_ \in Nat /\ write_pos_ < maxSize
      /\ maxSize \in Nat /\ maxSize > 0
  BY BoundedAssumption DEF B!TypeOK, B!Positions
<1>2. /\ B!size = IF read_pos_ <= write_pos_ THEN write_pos_ - read_pos_
                  ELSE write_pos_ + maxSize - read_pos_
      /\ B!size \in 0..(maxSize - 1)
      /\ B!size' = B!size + 1
  BY SizeIs, SizeAfterPush
<1> DEFINE Pos(i) == (read_pos_ + i - 1) % maxSize
<1>3. \A i \in 1..(B!size + 1) :
         Pos(i) = IF read_pos_ + i - 1 < maxSize THEN read_pos_ + i - 1
                  ELSE read_pos_ + i - 1 - maxSize
  BY <1>1, <1>2, PositionIs
<1>4. Pos(B!size + 1) = write_pos_
  BY <1>1, <1>2, <1>3
<1>5. \A i \in 1..B!size : Pos(i) \in B!Positions /\ Pos(i) # write_pos_
  BY <1>1, <1>2, <1>3 DEF B!Positions
<1> HIDE DEF Pos
<1>6. B!Contents = [i \in 1..B!size |-> buffer_[Pos(i)]]
  BY DEF B!Contents, Pos
<1>7. B!Contents' = [i \in 1..(B!size + 1) |-> buffer_'[Pos(i)]]
  BY <1>2 DEF B!Contents, B!push_back, Pos
<1>8. /\ buffer_'[write_pos_] = x
      /\ \A i \in 1..B!size : buffer_'[Pos(i)] = buffer_[Pos(i)]
  BY <1>1, <1>5 DEF B!push_back, B!TypeOK, B!Positions
<1>9. B!Contents' = [i \in 1..(B!size + 1) |->
                        IF i = B!size + 1 THEN x ELSE B!Contents[i]]
  BY <1>2, <1>4, <1>6, <1>7, <1>8
<1>10. \A i \in 1..B!size : buffer_[Pos(i)] \in Values \cup {NoValue}
  BY <1>5 DEF B!TypeOK
<1>11. B!Contents \in Seq(Values \cup {NoValue}) /\ Len(B!Contents) = B!size
  BY <1>2, <1>6, <1>10
<1> QED
  BY <1>9, <1>11, IsAppend

(* pop_front() leaves the tail of it, and front() is the first. *)
LEMMA ContentsAfterPop ==
    ASSUME B!TypeOK, ~B!empty, B!pop_front
    PROVE  /\ B!Contents' = Tail(B!Contents)
           /\ B!Contents # << >>
           /\ Head(B!Contents) = B!front
<1>1. /\ read_pos_ \in Nat /\ read_pos_ < maxSize
      /\ write_pos_ \in Nat /\ write_pos_ < maxSize
      /\ maxSize \in Nat /\ maxSize > 0
  BY BoundedAssumption DEF B!TypeOK, B!Positions
<1>2. /\ B!size \in 1..(maxSize - 1)
      /\ B!size' = B!size - 1
      /\ read_pos_' = IF read_pos_ + 1 = maxSize THEN 0 ELSE read_pos_ + 1
  BY <1>1, SizeIs, SizeAfterPop
<1> DEFINE Pos(i) == (read_pos_ + i - 1) % maxSize
           NextPos(i) == (read_pos_' + i - 1) % maxSize
<1>3. \A i \in 1..B!size :
         Pos(i) = IF read_pos_ + i - 1 < maxSize THEN read_pos_ + i - 1
                  ELSE read_pos_ + i - 1 - maxSize
  BY <1>1, <1>2, PositionIs
<1>4. \A i \in 1..(B!size - 1) : NextPos(i) = Pos(i + 1)
  <2> SUFFICES ASSUME NEW i \in 1..(B!size - 1) PROVE NextPos(i) = Pos(i + 1)
    OBVIOUS
  <2>1. read_pos_' \in Nat /\ i \in Nat \ {0} /\ read_pos_' + i - 1 < 2 * maxSize
    BY <1>1, <1>2
  <2>2. NextPos(i) = IF read_pos_' + i - 1 < maxSize THEN read_pos_' + i - 1
                     ELSE read_pos_' + i - 1 - maxSize
    BY <2>1, PositionIs
  <2>3. i + 1 \in 1..B!size
    BY <1>2
  <2>4. Pos(i + 1) = IF read_pos_ + i < maxSize THEN read_pos_ + i ELSE read_pos_ + i - maxSize
    BY <1>1, <1>3, <2>3
  <2> HIDE DEF Pos, NextPos
  <2> QED
    BY <1>1, <1>2, <2>2, <2>4
<1>5. /\ \A i \in 1..B!size : Pos(i) \in B!Positions
      /\ Pos(1) = read_pos_
  BY <1>1, <1>2, <1>3 DEF B!Positions
<1> HIDE DEF Pos, NextPos
<1>6. B!Contents = [i \in 1..B!size |-> buffer_[Pos(i)]]
  BY DEF B!Contents, Pos
<1>7. B!Contents' = [i \in 1..(B!size - 1) |-> buffer_[NextPos(i)]]
  BY <1>2 DEF B!Contents, B!pop_front, NextPos
<1>8. \A i \in 1..B!size : buffer_[Pos(i)] \in Values \cup {NoValue}
  BY <1>5 DEF B!TypeOK
<1>9. B!Contents \in Seq(Values \cup {NoValue}) /\ Len(B!Contents) = B!size
  BY <1>2, <1>6, <1>8
<1>10. B!Contents' = [i \in 1..(B!size - 1) |-> B!Contents[i + 1]]
  BY <1>2, <1>4, <1>6, <1>7
<1>11. Head(B!Contents) = B!front
  BY <1>2, <1>5, <1>6, <1>9 DEF B!front
<1>12. B!Contents # << >>
  BY <1>2, <1>9
<1> QED
  BY <1>9, <1>10, <1>11, <1>12, IsTail

(* BoundedBlockingQueue implements the FIFO queue of maxSize - 1 elements: *)
(* put() appends, take() returns the oldest, the rest stutters.            *)
THEOREM BoundedImplementsFifo == SpecEither => BoundedIsFifo
<1>1. InitEither => B!FQ!Init
  <2> SUFFICES ASSUME B!Init PROVE B!FQ!Init
    BY DEF InitEither
  <2>1. B!size = 0
    BY Wraps, BoundedAssumption DEF B!Init, B!size
  <2>2. B!Contents = << >>
    BY <2>1 DEF B!Contents
  <2> QED
    BY <2>2 DEF B!Init, B!FQ!Init
<1>2. BoundedInv /\ B!Next => [B!FQ!Next]_(B!FQ!vars)
  <2> SUFFICES ASSUME BoundedInv, NEW t \in Threads,
                      \/ \E x \in Values : B!CallPut(t, x)
                      \/ B!CallTake(t) \/ B!Step(t) \/ B!SpuriousWakeup(t)
               PROVE  [B!FQ!Next]_(B!FQ!vars)
    BY DEF B!Next
  <2>0. B!TypeOK /\ ArgumentSet
    BY DEF BoundedInv, BoundedSound
  <2>1. CASE B!Put(t)
    <3>1. arg[t] \in Values
      BY <2>0, <2>1 DEF B!Put, ArgumentSet
    <3>2. B!Contents' = Append(B!Contents, arg[t])
      BY <2>0, <2>1, <3>1, ContentsAfterPush DEF B!Put
    <3>3. Len(B!Contents) < maxSize - 1
      <4>1. B!size \in 0..(maxSize - 1) /\ B!size # maxSize - 1
        BY <2>0, <2>1, SizeIs DEF B!Put
      <4>2. Len(B!Contents) = B!size
        BY <4>1 DEF B!Contents
      <4> QED
        BY <4>1, <4>2, BoundedAssumption
    <3> QED
      BY <2>1, <3>1, <3>2, <3>3 DEF B!Put, B!FQ!Next, B!FQ!Put
  <2>2. CASE B!Take(t)
    <3>1. /\ B!Contents' = Tail(B!Contents)
          /\ B!Contents # << >>
          /\ Head(B!Contents) = B!front
      BY <2>0, <2>2, ContentsAfterPop DEF B!Take
    <3> QED
      BY <2>2, <3>1 DEF B!Take, B!FQ!Next, B!FQ!Take
  <2>3. CASE \/ \E x \in Values : B!CallPut(t, x)
             \/ B!CallTake(t) \/ B!PutWaits(t) \/ B!TakeWaits(t) \/ B!SpuriousWakeup(t)
    <3>1. UNCHANGED <<buffer_, read_pos_, write_pos_, btaken>>
      BY <2>3 DEF B!CallPut, B!CallTake, B!PutWaits, B!TakeWaits, B!SpuriousWakeup,
                  B!bufferVars
    <3> QED
      BY <3>1 DEF B!FQ!vars, B!Contents, B!size
  <2> QED
    BY <2>1, <2>2, <2>3 DEF B!Step
<1>3. UNCHANGED boundedVars => UNCHANGED B!FQ!vars
  BY DEF boundedVars, B!FQ!vars, B!Contents, B!size
<1>4. BoundedInv /\ [NextEither]_allVars => [B!FQ!Next]_(B!FQ!vars)
  BY <1>2, <1>3 DEF NextEither, NextUnbounded, NextBounded, allVars
<1> QED
  BY <1>1, <1>4, BoundedInvariant, PTL DEF SpecEither, BoundedIsFifo, B!IsFifo, B!FQ!Spec
=============================================================================
