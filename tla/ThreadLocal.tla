---------------------------- MODULE ThreadLocal ----------------------------
(***************************************************************************)
(* base/ThreadLocal.h: an object of class ThreadLocal, whose value() makes *)
(* a T for each thread that asks, and which pthreads deletes when the      *)
(* thread ends.  A T is named by the order of its making.                  *)
(***************************************************************************)
EXTENDS Naturals, FiniteSets

CONSTANTS
    Tids,
    MaxValues           \* bound: objects made

VARIABLES
    process,            \* getpid() in each thread
    pkey,               \* by process: the key has not been deleted
    specific,           \* per thread: pthread_getspecific(pkey_), 0 for NULL
    heap,               \* by process: the objects that are not deleted
    made                \* objects made so far

vars == <<pkey, specific, heap, made>>

Init ==
    /\ pkey = [p \in Tids |-> TRUE]
    /\ specific = [k \in Tids |-> 0]
    /\ heap = [p \in Tids |-> {}]
    /\ made = 0

(* Mutant: a new object at every call. *)
valueNew(k) ==
    /\ pkey[process[k]]
    /\ made < MaxValues
    /\ made' = made + 1
    /\ heap' = [heap EXCEPT ![process[k]] = @ \cup {made'}]
    /\ specific' = [specific EXCEPT ![k] = made']
    /\ UNCHANGED pkey

(* value() makes an object if the thread has none. *)
value(k) ==
    /\ pkey[process[k]]
    /\ specific[k] = 0
    /\ made < MaxValues
    /\ made' = made + 1
    /\ heap' = [heap EXCEPT ![process[k]] = @ \cup {made'}]
    /\ specific' = [specific EXCEPT ![k] = made']
    /\ UNCHANGED pkey

(* ~ThreadLocal(), after which nobody calls value(): pthread_key_delete    *)
(* calls no destructor.                                                    *)
Destroy(k) ==
    /\ pkey[process[k]]
    /\ pkey' = [pkey EXCEPT ![process[k]] = FALSE]
    /\ UNCHANGED <<specific, heap, made>>

(* The thread ends: destructor() for the value, if the key is there.       *)
destructor(k) ==
    /\ heap' = IF pkey[process[k]] THEN [heap EXCEPT ![process[k]] = @ \ {specific[k]}] ELSE heap
    /\ specific' = [specific EXCEPT ![k] = 0]
    /\ UNCHANGED <<pkey, made>>

(* The child j of a fork() by k has copies of everything. *)
Fork(k, j) ==
    /\ pkey' = [pkey EXCEPT ![j] = pkey[process[k]]]
    /\ specific' = [specific EXCEPT ![j] = specific[k]]
    /\ heap' = [heap EXCEPT ![j] = heap[process[k]]]
    /\ UNCHANGED made

Use(k) == value(k) \/ Destroy(k)

-----------------------------------------------------------------------------
(***************************************************************************)
(* The values of the threads of a process are different objects, none of   *)
(* them deleted; and while the key is there no object is left behind by a  *)
(* thread that ended, but for those a fork() copied.                       *)
(***************************************************************************)
ValuesOwned(forked) ==
    \A p \in Tids :
        LET mine == {k \in Tids : process[k] = p /\ specific[k] # 0}
            values == {specific[k] : k \in mine}
        IN  /\ Cardinality(values) = Cardinality(mine)
            /\ pkey[p] => values \subseteq heap[p]
            /\ (pkey[p] /\ p \notin forked) => heap[p] = values
=============================================================================
