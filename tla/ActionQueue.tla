----------------------------- MODULE ActionQueue -----------------------------
(***************************************************************************)
(* What the durable action queue promises of a command, whatever fails: an *)
(* abstract specification that OutputWorker implements.  It knows nothing  *)
(* of workers, locks, jobs, attempts or restarts.                          *)
(*                                                                         *)
(* A command waits in the queue, or is held by an explicit invocation, and *)
(* is settled once and for all.  Its side effect happens in the background *)
(* only while it waits, and at the user's request at most once while it is *)
(* held.  Only what has happened is recorded done.                         *)
(***************************************************************************)
EXTENDS Integers

CONSTANT Commands

VARIABLES
    status,      \* of a command; "gone" is a row retention has deleted
    background,  \* executions in the background
    explicit     \* executions at the user's request

queue == <<status, background, explicit>>

Settled == {"done", "failed"}

Init ==
    /\ status = [c \in Commands |-> "absent"]
    /\ background = [c \in Commands |-> 0]
    /\ explicit = [c \in Commands |-> 0]

\* The commands of S go from the states in From to the state `to`.
Move(S, From, to) ==
    /\ \A c \in S : status[c] \in From
    /\ status' = [c \in Commands |-> IF c \in S THEN to ELSE status[c]]

Enqueue(c) == Move({c}, {"absent"}, "waiting") /\ UNCHANGED <<background, explicit>>
Invoke(c)  == Move({c}, {"absent", "waiting"}, "held") /\ UNCHANGED <<background, explicit>>

Run(c) ==
    /\ status[c] = "waiting"
    /\ background' = [background EXCEPT ![c] = @ + 1]
    /\ UNCHANGED <<status, explicit>>

RunHeld(c) ==
    /\ status[c] = "held" /\ explicit[c] = 0
    /\ explicit' = [explicit EXCEPT ![c] = 1]
    /\ UNCHANGED <<status, background>>

Done(c) ==
    /\ background[c] + explicit[c] > 0
    /\ Move({c}, {"waiting", "held"}, "done")
    /\ UNCHANGED <<background, explicit>>

\* A restart fails every held command at once.
Fail(S)   == Move(S, {"waiting", "held"}, "failed") /\ UNCHANGED <<background, explicit>>
Forget(S) == Move(S, Settled, "gone") /\ UNCHANGED <<background, explicit>>

Next ==
    \/ \E c \in Commands : Enqueue(c) \/ Invoke(c) \/ Run(c) \/ RunHeld(c) \/ Done(c)
    \/ \E S \in SUBSET Commands : Fail(S) \/ Forget(S)

Spec == Init /\ [][Next]_queue

=============================================================================
