------------------------------ MODULE Gateway ------------------------------
(***************************************************************************)
(* The command half of a tmux control client (internal/app/tmuxcc/         *)
(* gateway.go): callers write commands to tmux's stdin, tmux answers each  *)
(* with one block on the stream its notifications share, and Feed pairs    *)
(* block and command by position alone.                                    *)
(*                                                                         *)
(* A block is one element of the stream: between its guards every line is  *)
(* content, whatever it looks like, so nothing else happens in between.    *)
(* What a reply or a notification holds is the business of the module that *)
(* extends this one.                                                       *)
(***************************************************************************)
EXTENDS Integers, Sequences, FiniteSets

CONSTANTS
    Callers,       \* goroutines that call Send
    MaxCommands    \* bound: commands ever sent

ASSUME GatewayAssumption ==
    /\ Callers # {}
    /\ MaxCommands \in Nat \ {0}

VARIABLES
    queue,      \* Gateway.queue: ids of the commands not yet answered
    canceled,   \* tombstones: commands whose caller has given up
    stdin,      \* commands on their way to tmux
    stdout,     \* blocks and notifications on their way to Feed
    sent,       \* commands sent
    closed,     \* the gateway has failed
    send        \* each caller's Send

gateway == <<queue, canceled, stdin, stdout, sent, closed, send>>

Ids    == 1 .. MaxCommands
NoSend == [at |-> "idle", id |-> 0, op |-> "none", mark |-> 0, from |-> 0, reply |-> {}, error |-> FALSE]
States == {"idle", "ready", "queued", "waiting", "answered"}

GatewayTypes ==
    /\ queue \in Seq(Ids) /\ canceled \subseteq Ids
    /\ sent \in 0 .. MaxCommands /\ closed \in BOOLEAN
    /\ \A c \in Callers : send[c].at \in States /\ send[c].id \in 0 .. MaxCommands

GatewayInit ==
    /\ queue = <<>> /\ canceled = {}
    /\ stdin = <<>> /\ stdout = <<>>
    /\ sent = 0 /\ closed = FALSE
    /\ send = [c \in Callers |-> NoSend]

-----------------------------------------------------------------------------
(* Send.                                                                   *)

\* What a caller is about to send, and what it remembers of the moment.
Ready(c, op, mark) == send' = [send EXCEPT ![c] = [NoSend EXCEPT !.at = "ready", !.op = op, !.mark = mark]]

\* Mutant of LockFree: the slot and the line are not taken together.
NoLock(c) == c \in Callers

\* writeMu: nobody is between its slot and its line.
LockFree(c) == \A d \in Callers \ {c} : send[d].at # "queued"

\* Under writeMu: the slot in the queue, ...
Enqueue(c) ==
    /\ send[c].at = "ready" /\ ~closed /\ LockFree(c)
    /\ sent < MaxCommands
    /\ sent' = sent + 1
    /\ queue' = queue \o <<sent + 1>>
    /\ send' = [send EXCEPT ![c].at = "queued", ![c].id = sent + 1]
    /\ UNCHANGED <<canceled, stdin, stdout, closed>>

\* ... then the line.
Write(c) ==
    /\ send[c].at = "queued"
    /\ stdin' = stdin \o <<[id |-> send[c].id, op |-> send[c].op]>>
    /\ send' = [send EXCEPT ![c].at = "waiting"]
    /\ UNCHANGED <<queue, canceled, stdout, sent, closed>>

\* Mutant of GiveUp: the slot is taken out of the queue.
GiveUpSlot(c) ==
    /\ queue' = SelectSeq(queue, LAMBDA i : i # send[c].id)
    /\ UNCHANGED canceled

\* A caller whose context ends leaves a tombstone behind.
GiveUp(c) == canceled' = canceled \cup {send[c].id} /\ UNCHANGED queue

-----------------------------------------------------------------------------
(* Feed.                                                                   *)

\* The caller of a command, if it still waits.
Waiting(i) == {c \in Callers : send[c].at = "waiting" /\ send[c].id = i /\ i \notin canceled}

\* A reply to a command of ours goes to the head of the queue.
FeedReply ==
    /\ stdout # <<>> /\ Head(stdout).kind = "reply" /\ queue # <<>>
    /\ queue' = Tail(queue) /\ canceled' = canceled \ {Head(queue)}
    /\ send' = [c \in Callers |->
                  IF c \in Waiting(Head(queue))
                  THEN [send[c] EXCEPT !.at = "answered", !.from = Head(stdout).id,
                                       !.reply = Head(stdout).data, !.error = Head(stdout).error]
                  ELSE send[c]]
    /\ stdout' = Tail(stdout)
    /\ UNCHANGED <<stdin, sent, closed>>

\* fail: every command in flight ends with an error.
Fail ==
    /\ closed' = TRUE
    /\ queue' = <<>> /\ canceled' = {} /\ stdin' = <<>> /\ stdout' = <<>>
    /\ send' = [c \in Callers |->
                  IF send[c].at = "idle" THEN NoSend
                  ELSE [send[c] EXCEPT !.at = "answered", !.from = send[c].id, !.reply = {}, !.error = TRUE]]
    /\ UNCHANGED sent

\* A block nobody asked for is a desync.
FeedDesync == stdout # <<>> /\ Head(stdout).kind = "reply" /\ queue = <<>> /\ Fail

\* A server-originated block is discarded: it answers no command.
FeedServer ==
    /\ stdout # <<>> /\ Head(stdout).kind = "server"
    /\ stdout' = Tail(stdout)
    /\ UNCHANGED <<queue, canceled, stdin, sent, closed, send>>

-----------------------------------------------------------------------------
(* tmux, as far as the stream shows it.                                    *)

Reply(command, data, error) == [kind |-> "reply", id |-> command.id, data |-> data, error |-> error]
ServerBlock == [kind |-> "server"]

-----------------------------------------------------------------------------
\* The answer a Send returns is the one tmux gave to its own command.
OwnReply == \A c \in Callers : send[c].at = "answered" => send[c].from = send[c].id

\* Position is identity: the queue holds exactly the commands in flight, in
\* the order tmux will answer them, tombstones included: those answered and
\* not yet fed, those on their way to tmux, the one being written.
Writing  == {c \in Callers : send[c].at = "queued"}
Replies  == {i \in DOMAIN stdout : stdout[i].kind = "reply"}
Place(i) == Cardinality({j \in Replies : j <= i})
Paired ==
    /\ Len(queue) = Cardinality(Replies) + Len(stdin) + Cardinality(Writing)
    /\ \A i \in Replies : queue[Place(i)] = stdout[i].id
    /\ \A i \in DOMAIN stdin : queue[Cardinality(Replies) + i] = stdin[i].id
    /\ \A c \in Writing : queue[Len(queue)] = send[c].id

=============================================================================
