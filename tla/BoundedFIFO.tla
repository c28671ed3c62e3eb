---------------------------- MODULE BoundedFIFO ----------------------------
(***************************************************************************)
(* What a thread-safe bounded queue promises, whatever its representation:  *)
(* a push adds one value at the end while fewer than Capacity are held, a   *)
(* pop serves the oldest one, and nothing else ever changes the queue.      *)
(***************************************************************************)
EXTENDS Naturals, Sequences

CONSTANTS Values, Capacity

VARIABLES
    contents,   \* the values held, oldest first
    served      \* the values returned by pop, in the order they were removed

Init ==
    /\ contents = <<>>
    /\ served = <<>>

Push(v) ==
    /\ Len(contents) < Capacity
    /\ contents' = Append(contents, v)
    /\ UNCHANGED served

Pop ==
    /\ contents # <<>>
    /\ served' = Append(served, Head(contents))
    /\ contents' = Tail(contents)

Next == Pop \/ \E v \in Values : Push(v)

Spec == Init /\ [][Next]_<<contents, served>>
=============================================================================
