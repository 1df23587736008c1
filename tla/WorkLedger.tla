----------------------------- MODULE WorkLedger -----------------------------
(***************************************************************************)
(* What the workers of packages/shared promise: the requests of a key are  *)
(* handled in the order they came, none is lost and none handled twice,    *)
(* and a caller of drain is told that a key has no work left only when     *)
(* every request accepted so far has been handled.                         *)
(***************************************************************************)
EXTENDS Integers, Sequences

CONSTANTS Key, Request

VARIABLES
    accepted,   \* accepted[k]: the requests for k, in the order they came
    handled,    \* handled[k]: those the processor is done with, in order
    told        \* told[k]: how many requests a drain vouched for

vars == <<accepted, handled, told>>

Init ==
    /\ accepted = [k \in Key |-> <<>>]
    /\ handled = [k \in Key |-> <<>>]
    /\ told = [k \in Key |-> 0]

Submit(k, r) ==
    /\ accepted' = [accepted EXCEPT ![k] = Append(@, r)]
    /\ UNCHANGED <<handled, told>>

(* Some of the oldest requests that wait are handled, as one.              *)
Handle(k) ==
    /\ \E n \in (Len(handled[k]) + 1)..Len(accepted[k]) :
          handled' = [handled EXCEPT ![k] = SubSeq(accepted[k], 1, n)]
    /\ UNCHANGED <<accepted, told>>

Vouch(k) ==
    /\ handled[k] = accepted[k]
    /\ told' = [told EXCEPT ![k] = Len(accepted[k])]
    /\ UNCHANGED <<accepted, handled>>

Next == \E k \in Key : \/ \E r \in Request : Submit(k, r)
                       \/ Handle(k)
                       \/ Vouch(k)

Spec == Init /\ [][Next]_vars
=============================================================================
