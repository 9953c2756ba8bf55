---------------------------- MODULE CacheContract ----------------------------
(***************************************************************************)
(* What a query-result cache promises to Star.execute_query, whatever it   *)
(* does about memory, age and locks: it may forget anything at any time    *)
(* and answer any lookup with a miss, but a hit returns the frame stored   *)
(* last under the key asked for, since the last invalidation.              *)
(***************************************************************************)
EXTENDS Naturals

CONSTANTS Threads, Keys, Frames, NoFrame

VARIABLES
    memory,     \* the frame remembered under each key, or NoFrame
    era,        \* how many invalidations there have been
    asked,      \* the key each thread waits for: none, or one
    answer      \* the frame each thread got, until its lookup returns

vars == <<memory, era, asked, answer>>

Without(S) == [k \in Keys |-> IF k \in S THEN NoFrame ELSE memory[k]]

Init ==
    /\ memory = [k \in Keys |-> NoFrame]
    /\ era = 0
    /\ asked = [t \in Threads |-> {}]
    /\ answer = [t \in Threads |-> NoFrame]

Remember(k, f) ==
    /\ memory' = [memory EXCEPT ![k] = f]
    /\ UNCHANGED <<era, asked, answer>>

Forget(S) ==
    /\ memory' = Without(S)
    /\ UNCHANGED <<era, asked, answer>>

Invalidate ==
    /\ era' = era + 1
    /\ memory' = Without(Keys)
    /\ UNCHANGED <<asked, answer>>

Ask(t, k) ==
    /\ asked[t] = {}
    /\ asked' = [asked EXCEPT ![t] = {k}]
    /\ answer' = [answer EXCEPT ![t] = NoFrame]
    /\ UNCHANGED <<memory, era>>

Hit(t, k) ==
    /\ asked[t] = {k}
    /\ memory[k] # NoFrame
    /\ answer' = [answer EXCEPT ![t] = memory[k]]
    /\ asked' = [asked EXCEPT ![t] = {}]
    /\ UNCHANGED <<memory, era>>

\* A miss, after which the entry may be gone.
Miss(t) ==
    /\ memory' \in {memory, Without(asked[t])}
    /\ asked' = [asked EXCEPT ![t] = {}]
    /\ UNCHANGED <<era, answer>>

Return(t) ==
    /\ answer' = [answer EXCEPT ![t] = NoFrame]
    /\ UNCHANGED <<memory, era, asked>>

Next ==
    \/ \E k \in Keys, f \in Frames : Remember(k, f)
    \/ \E S \in SUBSET Keys : Forget(S)
    \/ Invalidate
    \/ \E t \in Threads :
         \/ \E k \in Keys : Ask(t, k) \/ Hit(t, k)
         \/ Miss(t)
         \/ Return(t)

Spec == Init /\ [][Next]_vars
=============================================================================
