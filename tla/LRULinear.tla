----------------------------- MODULE LRULinear ------------------------------
(***************************************************************************)
(* LRUThreads with two history variables, which see when a locked call     *)
(* takes effect: committed is the cache as it was when dmu was last        *)
(* released, ret the result of the call that released it.  They constrain  *)
(* nothing; read through them, LRUThreads implements LRUCache.             *)
(***************************************************************************)
EXTENDS LRUThreads

VARIABLES committed, ret

hvars == <<committed, ret>>

Now == [queue |-> queue, entries |-> entries, value |-> value]

LinearInit ==
  /\ Init
  /\ committed = Now
  /\ ret = [op |-> "New"]

LinearNext ==
  \E t \in Threads :
    \/ /\ Begin(t) \/ Lock(t) \/ Inner(t)
       /\ UNCHANGED hvars
    \/ /\ Unlock(t)
       /\ committed' = Now'
       /\ ret' = out[t]

LinearSpec == LinearInit /\ [][LinearNext]_<<vars, hvars>>

Atomic == INSTANCE LRUCache WITH queue <- committed.queue,
                                 entries <- committed.entries,
                                 value <- committed.value

\* The locked calls are atomic: seen when the lock is released, each of them
\* is one step of LRUCache with the result LRUCache gives it, however the
\* statements of the goroutines interleave.
ImplementsAtomic == Atomic!Spec

\* So the goroutines get what the package promises a single caller: seen when the
\* lock is released, the statements of all of them add up to calls of LRUPromise, and
\* what is evicted is what was used least recently in the order of the releases.
KeepsPromise == Atomic!ImplementsPromise
=============================================================================
