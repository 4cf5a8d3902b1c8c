----------------------------- MODULE EventStream -----------------------------
(***************************************************************************)
(* What a terminal's event stream promises its subscribers: an abstract    *)
(* specification that Broker implements.  It knows nothing of the backlog, *)
(* its bounds, merging, pumps or generations.                              *)
(*                                                                         *)
(* Whatever is published is numbered.  A subscriber takes numbers in       *)
(* order, and never one before all that came earlier was taken by somebody *)
(* or lost: a stream has no holes but what was lost.  There are three ways *)
(* to lose something: a publication is refused, a clear drops all that     *)
(* waits, and a closed stream passes over what is next.                    *)
(***************************************************************************)
EXTENDS Integers

CONSTANT Readers

VARIABLES
    last,    \* the number last published
    taken,   \* what each reader has taken
    lost,
    closed

stream == <<last, taken, lost, closed>>

Published == 1 .. last
Settled   == lost \cup UNION {taken[r] : r \in Readers}
Waiting   == Published \ Settled

\* What came before S has been taken or lost.
InTurn(S) == \A n \in S : 1 .. n - 1 \subseteq Settled \cup S

Init ==
    /\ last = 0 /\ closed = FALSE
    /\ taken = [r \in Readers |-> {}] /\ lost = {}

Publish ==
    /\ ~closed
    /\ last' > last
    /\ lost' \in {lost, lost \cup (last + 1 .. last')}
    /\ UNCHANGED <<taken, closed>>

Take(r) ==
    /\ \E S \in SUBSET Published :
          /\ InTurn(S) /\ \A m \in taken[r], n \in S : m < n
          /\ taken' = [taken EXCEPT ![r] = @ \cup S]
    /\ UNCHANGED <<last, lost, closed>>

Lose(S) == lost' = lost \cup S /\ UNCHANGED <<last, taken, closed>>

Clear    == ~closed /\ \E S \in SUBSET Published : Waiting \subseteq S /\ Lose(S)
PassOver == closed /\ \E S \in SUBSET Published : InTurn(S) /\ Lose(S)

Close == ~closed /\ closed' = TRUE /\ UNCHANGED <<last, taken, lost>>

Next == Publish \/ (\E r \in Readers : Take(r)) \/ Clear \/ PassOver \/ Close

Spec == Init /\ [][Next]_stream

=============================================================================
