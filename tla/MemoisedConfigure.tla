-------------------------- MODULE MemoisedConfigure --------------------------
(***************************************************************************)
(* What configure() promises its callers, without locks, events or LRU:    *)
(* a memo table from cache keys to marshallers.  A call returns the        *)
(* remembered marshaller if there is one, and otherwise remembers and      *)
(* returns a new one of the current generation; forgetting is always       *)
(* allowed, replacing an entry that is still remembered never is, and an   *)
(* invalidation leaves nothing of an earlier generation behind.            *)
(***************************************************************************)
EXTENDS Naturals

CONSTANTS Threads, Keys, None

VARIABLES
    generation,  \* number of invalidations so far
    memo,        \* the marshaller remembered for each key, or None
    wants,       \* the key each thread is asking for, or None
    result       \* what its last call returned, None after an error

vars == << generation, memo, wants, result >>

(* A marshaller: the generation of its native dispatcher, and its builder. *)
Built(gen) == [gen : {gen}, by : Threads]

Init ==
    /\ generation = 0
    /\ memo = [k \in Keys |-> None]
    /\ wants = [t \in Threads |-> None]
    /\ result = [t \in Threads |-> None]

Ask(t) ==
    /\ wants[t] = None
    /\ \E k \in Keys : wants' = [wants EXCEPT ![t] = k]
    /\ result' = [result EXCEPT ![t] = None]
    /\ UNCHANGED << generation, memo >>

AnswerRemembered(t) ==
    /\ wants[t] # None
    /\ memo[wants[t]] # None
    /\ result' = [result EXCEPT ![t] = memo[wants[t]]]
    /\ wants' = [wants EXCEPT ![t] = None]
    /\ UNCHANGED << generation, memo >>

(* memo' is a table with a new entry for the key; others may be forgotten. *)
AnswerNew(t) ==
    /\ wants[t] # None
    /\ memo[wants[t]] = None
    /\ memo' = [k \in Keys |-> memo'[k]]
    /\ memo'[wants[t]] \in Built(generation)
    /\ \A k \in Keys \ {wants[t]} : memo'[k] \in {memo[k], None}
    /\ result' = [result EXCEPT ![t] = memo'[wants[t]]]
    /\ wants' = [wants EXCEPT ![t] = None]
    /\ UNCHANGED generation

Fail(t) ==
    /\ wants[t] # None
    /\ wants' = [wants EXCEPT ![t] = None]
    /\ UNCHANGED << generation, memo, result >>

Forget ==
    /\ memo' = [k \in Keys |-> None]
    /\ generation' \in {generation, generation + 1}
    /\ UNCHANGED << wants, result >>

Next ==
    \/ \E t \in Threads : Ask(t) \/ AnswerRemembered(t) \/ AnswerNew(t) \/ Fail(t)
    \/ Forget

Spec == Init /\ [][Next]_vars
=============================================================================
