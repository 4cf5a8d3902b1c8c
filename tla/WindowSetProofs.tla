--------------------------- MODULE WindowSetProofs ---------------------------
(* Proofs about the command gateway and the window set of an attached      *)
(* session, for any windows and names and any number of commands, changes  *)
(* and faults: a Send is answered with tmux's reply to its own command, no *)
(* tab is closed for a window that is still there, and once nothing is in  *)
(* flight the tabs are tmux's windows.                                     *)
(*                                                                         *)
(* The gateway first.  Commands are numbered in the order they take their  *)
(* slots.  The argument is that nothing else is needed to tell where each  *)
(* one is: the slots are the last numbers, and of these the line being     *)
(* written is the last, the lines tmux has not read come before it, and    *)
(* the replies before those.                                               *)
(*                                                                         *)
(* The window set on top of it follows what the client has been told.  A   *)
(* snapshot that is on its way holds every window the client was told of   *)
(* before it; so of two snapshots that are read the newer holds what the   *)
(* older does, and a window a snapshot in hand lacks was added after its   *)
(* mark.  A close that tmux announced is that of a window closed for good, *)
(* or the unlink of a move that still holds its window, with its snapshot  *)
(* behind.  And whatever a snapshot, a tab or a notification says of a     *)
(* window is so, or a notification that corrects it comes behind.          *)
EXTENDS WindowSet, SequenceTheorems, FiniteSetTheorems, TLAPS

-----------------------------------------------------------------------------
(* The types of the gateway's variables.                                   *)

Ops     == {"none", "list", "renumber"} \cup Windows
Rows    == SUBSET (Windows \X Names)
Command == [id : Nat, op : Ops]
Answer  == [kind : {"reply"}, id : Nat, data : Rows, error : BOOLEAN]
Notice  == [kind : {"add", "close", "renamed"}, window : Windows, name : Names]
Blocks  == Answer \cup Notice \cup {ServerBlock}
Sends   == [at : States, id : Nat, op : Ops, mark : Nat, from : Nat, reply : Rows, error : BOOLEAN]

Types ==
  /\ queue \in Seq(Nat) /\ stdin \in Seq(Command) /\ stdout \in Seq(Blocks)
  /\ sent \in Nat /\ send \in [Callers -> Sends] /\ generation \in Nat

-----------------------------------------------------------------------------
(* The inductive invariant.                                                *)

\* The commands whose line is not written yet, and the oldest that tmux has
\* not answered or not read.
Held  == IF \E c \in Callers : send[c].at = "queued" THEN 1 ELSE 0
First == sent - Len(queue) + 1
Past  == sent - Held - Len(stdin) + 1

OneWriter    == \A c, d \in Callers : send[c].at = "queued" /\ send[d].at = "queued" => c = d
WriterLast   == \A c \in Callers : send[c].at = "queued" => send[c].id = sent
SlotsInOrder == \A i \in 1 .. Len(queue) : queue[i] = First + i - 1
LinesInOrder == \A i \in 1 .. Len(stdin) : stdin[i].id = Past + i - 1

IsReply(b) == b.kind = "reply"

\* The replies in out are those to the commands from lo to hi - 1, in order.
RepliesInOrder(out, lo, hi) ==
  /\ lo <= hi
  /\ \A i \in 1 .. Len(out) : IsReply(out[i]) => out[i].id \in lo .. (hi - 1)
  /\ \A i, j \in 1 .. Len(out) : i < j /\ IsReply(out[i]) /\ IsReply(out[j]) => out[i].id < out[j].id
  /\ \A n \in lo .. (hi - 1) : \E i \in 1 .. Len(out) : IsReply(out[i]) /\ out[i].id = n

IInv ==
  /\ Types
  /\ OneWriter /\ WriterLast /\ SlotsInOrder /\ LinesInOrder
  /\ RepliesInOrder(stdout, First, Past)
  /\ OwnReply

-----------------------------------------------------------------------------
(* The stream of blocks.                                                   *)

LEMMA BlockKinds ==
  ASSUME NEW b \in Blocks
  PROVE  IsReply(b) => b \in Answer
  BY DEF Blocks, Answer, Notice, ServerBlock, IsReply

\* What tmux announces leaves the replies alone, ...
LEMMA OtherAppended ==
  ASSUME NEW out \in Seq(Blocks), NEW b \in Blocks, ~IsReply(b), NEW lo \in Int, NEW hi \in Int,
         RepliesInOrder(out, lo, hi)
  PROVE  out \o <<b>> \in Seq(Blocks) /\ RepliesInOrder(out \o <<b>>, lo, hi)
<1> DEFINE s == out \o <<b>>
<1>1. <<b>> \in Seq(Blocks) /\ Len(<<b>>) = 1 /\ <<b>>[1] = b
  OBVIOUS
<1>2. /\ s \in Seq(Blocks) /\ Len(out) \in Nat /\ Len(s) = Len(out) + 1
      /\ \A i \in 1 .. Len(out) : s[i] = out[i]
      /\ s[Len(s)] = b
  BY <1>1, ConcatProperties, LenProperties
<1> HIDE DEF s
<1>3. \A i \in 1 .. Len(s) : IsReply(s[i]) => i \in 1 .. Len(out) /\ s[i] = out[i]
  BY <1>2
<1>4. \A i \in 1 .. Len(out) : i \in 1 .. Len(s) /\ s[i] = out[i]
  BY <1>2
<1>5. RepliesInOrder(s, lo, hi)
  BY <1>3, <1>4 DEF RepliesInOrder
<1> QED
  BY <1>2, <1>5 DEF s

\* ... an answer is the next of them.
LEMMA ReplyAppended ==
  ASSUME NEW out \in Seq(Blocks), NEW b \in Answer, NEW lo \in Int, NEW hi \in Int,
         b.id = hi, RepliesInOrder(out, lo, hi)
  PROVE  out \o <<b>> \in Seq(Blocks) /\ RepliesInOrder(out \o <<b>>, lo, hi + 1)
<1> DEFINE s == out \o <<b>>
<1>1. b \in Blocks /\ <<b>> \in Seq(Blocks) /\ Len(<<b>>) = 1 /\ <<b>>[1] = b /\ IsReply(b)
  BY DEF Blocks, Answer, IsReply
<1>2. /\ s \in Seq(Blocks) /\ Len(out) \in Nat /\ Len(s) = Len(out) + 1
      /\ \A i \in 1 .. Len(out) : s[i] = out[i]
      /\ s[Len(s)] = b
  BY <1>1, ConcatProperties, LenProperties
<1> HIDE DEF s
<1>3. ASSUME NEW i \in 1 .. Len(s), IsReply(s[i]) PROVE s[i].id \in lo .. hi
  <2>1. CASE i \in 1 .. Len(out)
    BY <1>2, <1>3, <2>1 DEF RepliesInOrder
  <2>2. CASE i = Len(s)
    <3>1. s[i].id = hi /\ lo <= hi
      BY <1>2, <2>2 DEF RepliesInOrder
    <3> QED
      BY <3>1
  <2> QED
    BY <1>2, <2>1, <2>2
<1>4. ASSUME NEW i \in 1 .. Len(s), NEW j \in 1 .. Len(s), i < j, IsReply(s[i]), IsReply(s[j])
      PROVE  s[i].id < s[j].id
  <2>1. i \in 1 .. Len(out) /\ s[i] = out[i]
    BY <1>2, <1>4
  <2>2. CASE j \in 1 .. Len(out)
    <3>1. s[j] = out[j]
      BY <1>2, <2>2
    <3> QED
      BY <1>4, <2>1, <2>2, <3>1 DEF RepliesInOrder
  <2>3. CASE j = Len(s)
    <3>1. s[j].id = hi /\ out[i].id \in lo .. (hi - 1)
      BY <1>2, <1>4, <2>1, <2>3 DEF RepliesInOrder
    <3> QED
      BY <2>1, <3>1
  <2> QED
    BY <1>2, <2>2, <2>3
<1>5. ASSUME NEW n \in lo .. hi PROVE \E i \in 1 .. Len(s) : IsReply(s[i]) /\ s[i].id = n
  <2>1. CASE n = hi
    BY <1>1, <1>2, <2>1
  <2>2. CASE n # hi
    <3>1. PICK i \in 1 .. Len(out) : IsReply(out[i]) /\ out[i].id = n
      BY <2>2 DEF RepliesInOrder
    <3> QED
      BY <1>2, <3>1
  <2> QED
    BY <2>1, <2>2
<1>6. lo <= hi + 1 /\ (hi + 1) - 1 = hi
  BY DEF RepliesInOrder
<1>7. \A n \in lo .. hi : \E i \in 1 .. Len(s) : IsReply(s[i]) /\ s[i].id = n
  BY <1>5
<1>8. RepliesInOrder(s, lo, hi + 1)
  BY <1>3, <1>4, <1>6, <1>7 DEF RepliesInOrder
<1> QED
  BY <1>2, <1>8 DEF s

\* Two blocks sent together are one sent after the other.
LEMMA BothAppended ==
  ASSUME NEW out \in Seq(Blocks), NEW a \in Blocks, NEW b \in Blocks
  PROVE  out \o <<a, b>> = (out \o <<a>>) \o <<b>>
<1> DEFINE p == <<a, b>>
           q == <<a>> \o <<b>>
<1>1. /\ <<a>> \in Seq(Blocks) /\ <<b>> \in Seq(Blocks) /\ Len(<<a>>) = 1 /\ Len(<<b>>) = 1
      /\ <<a>>[1] = a /\ <<b>>[1] = b
  OBVIOUS
<1>2. p \in Seq(Blocks) /\ Len(p) = 2 /\ p[1] = a /\ p[2] = b
  OBVIOUS
<1>3. /\ q \in Seq(Blocks) /\ Len(q) = 2
      /\ \A i \in 1 .. 2 : q[i] = IF i <= 1 THEN <<a>>[i] ELSE <<b>>[i - 1]
  BY <1>1, ConcatProperties
<1>4. q[1] = a /\ q[2] = b
  BY <1>1, <1>3
<1> HIDE DEF p, q
<1>5. p = q
  BY <1>2, <1>3, <1>4, SeqEqual
<1> QED
  BY <1>1, <1>5, ConcatAssociative DEF p, q

\* Feed takes blocks off the front: an announcement, ...
LEMMA OtherFed ==
  ASSUME NEW out \in Seq(Blocks), out # <<>>, ~IsReply(Head(out)), NEW lo \in Int, NEW hi \in Int,
         RepliesInOrder(out, lo, hi)
  PROVE  Tail(out) \in Seq(Blocks) /\ RepliesInOrder(Tail(out), lo, hi)
<1> DEFINE t == Tail(out)
<1>1. /\ t \in Seq(Blocks) /\ Len(out) \in Nat /\ Len(t) \in Nat /\ Len(out) = Len(t) + 1
      /\ \A i \in 1 .. Len(t) : t[i] = out[i + 1]
      /\ Head(out) = out[1]
  BY HeadTailProperties, LenProperties
<1> HIDE DEF t
<1>2. \A n \in lo .. (hi - 1) : \E i \in 1 .. Len(t) : IsReply(t[i]) /\ t[i].id = n
  <2> SUFFICES ASSUME NEW n \in lo .. (hi - 1) PROVE \E i \in 1 .. Len(t) : IsReply(t[i]) /\ t[i].id = n
    OBVIOUS
  <2>1. PICK i \in 1 .. Len(out) : IsReply(out[i]) /\ out[i].id = n
    BY DEF RepliesInOrder
  <2>2. i # 1
    BY <1>1, <2>1
  <2>3. i - 1 \in 1 .. Len(t) /\ t[i - 1] = out[i]
    BY <1>1, <2>2
  <2> QED
    BY <2>1, <2>3
<1>3. ASSUME NEW i \in 1 .. Len(t), NEW j \in 1 .. Len(t), i < j, IsReply(t[i]), IsReply(t[j])
      PROVE  t[i].id < t[j].id
  <2>1. i + 1 \in 1 .. Len(out) /\ j + 1 \in 1 .. Len(out) /\ i + 1 < j + 1
    BY <1>1, <1>3
  <2>2. t[i] = out[i + 1] /\ t[j] = out[j + 1]
    BY <1>1
  <2> QED
    BY <1>3, <2>1, <2>2 DEF RepliesInOrder
<1>4. lo <= hi /\ \A i \in 1 .. Len(t) : IsReply(t[i]) => t[i].id \in lo .. (hi - 1)
  BY <1>1 DEF RepliesInOrder
<1>5. RepliesInOrder(t, lo, hi)
  BY <1>2, <1>3, <1>4 DEF RepliesInOrder
<1> QED
  BY <1>1, <1>5 DEF t

\* ... or the reply to the oldest command.
LEMMA ReplyFed ==
  ASSUME NEW out \in Seq(Blocks), out # <<>>, IsReply(Head(out)), NEW lo \in Int, NEW hi \in Int,
         RepliesInOrder(out, lo, hi)
  PROVE  /\ Head(out) \in Answer /\ Head(out).id = lo /\ lo < hi
         /\ Tail(out) \in Seq(Blocks) /\ RepliesInOrder(Tail(out), lo + 1, hi)
<1> DEFINE t == Tail(out)
<1>1. /\ t \in Seq(Blocks) /\ Len(out) \in Nat /\ Len(t) \in Nat /\ Len(out) = Len(t) + 1
      /\ \A i \in 1 .. Len(t) : t[i] = out[i + 1]
      /\ Head(out) = out[1] /\ Head(out) \in Blocks
  BY HeadTailProperties, LenProperties
<1>2. Head(out) \in Answer
  BY <1>1, BlockKinds
<1> HIDE DEF t
<1>3. out[1].id \in lo .. (hi - 1) /\ lo < hi
  BY <1>1 DEF RepliesInOrder
<1>4. out[1].id = lo
  <2>1. PICK i \in 1 .. Len(out) : IsReply(out[i]) /\ out[i].id = lo
    BY <1>3 DEF RepliesInOrder
  <2>2. CASE i = 1
    BY <2>1, <2>2
  <2>3. CASE i # 1
    BY <1>1, <1>3, <2>1, <2>3 DEF RepliesInOrder
  <2> QED
    BY <2>2, <2>3
<1>5. \A i \in 1 .. Len(t) : IsReply(t[i]) => t[i].id \in (lo + 1) .. (hi - 1)
  BY SMTT(20), <1>1, <1>4 DEF RepliesInOrder
<1>6. ASSUME NEW i \in 1 .. Len(t), NEW j \in 1 .. Len(t), i < j, IsReply(t[i]), IsReply(t[j])
      PROVE  t[i].id < t[j].id
  <2>1. i + 1 \in 1 .. Len(out) /\ j + 1 \in 1 .. Len(out) /\ i + 1 < j + 1
    BY <1>1, <1>6
  <2>2. t[i] = out[i + 1] /\ t[j] = out[j + 1]
    BY <1>1
  <2>3. \A m, n \in 1 .. Len(out) : m < n /\ IsReply(out[m]) /\ IsReply(out[n]) => out[m].id < out[n].id
    BY DEF RepliesInOrder
  <2> QED
    BY <1>6, <2>1, <2>2, <2>3
<1>7. ASSUME NEW n \in (lo + 1) .. (hi - 1) PROVE \E i \in 1 .. Len(t) : IsReply(t[i]) /\ t[i].id = n
  <2>0. n \in lo .. (hi - 1)
    OBVIOUS
  <2>1. PICK i \in 1 .. Len(out) : IsReply(out[i]) /\ out[i].id = n
    BY <2>0 DEF RepliesInOrder
  <2>2. i # 1
    BY <1>4, <2>1
  <2>3. i - 1 \in 1 .. Len(t) /\ t[i - 1] = out[i]
    BY <1>1, <2>2
  <2> QED
    BY <2>1, <2>3
<1>8. RepliesInOrder(t, lo + 1, hi)
  <2>1. lo + 1 <= hi
    BY <1>3
  <2>2. \A n \in (lo + 1) .. (hi - 1) : \E i \in 1 .. Len(t) : IsReply(t[i]) /\ t[i].id = n
    BY <1>7
  <2> QED
    BY <2>1, <2>2, <1>5, <1>6 DEF RepliesInOrder
<1> QED
  BY <1>1, <1>2, <1>3, <1>4, <1>8 DEF t

-----------------------------------------------------------------------------
(* One step.                                                               *)

LEMMA HeldSlots ==
  /\ Held \in {0, 1}
  /\ Held = 1 <=> \E c \in Callers : send[c].at = "queued"
  BY DEF Held

\* A step that moves no command, takes nobody's slot lock and gives nobody a
\* reply leaves the order as it was.
LEMMA NothingMoves ==
  ASSUME IInv, send' \in [Callers -> Sends], generation' \in Nat,
         queue' = queue, stdin' = stdin, stdout' = stdout, sent' = sent,
         \A c \in Callers : send'[c].at = "queued" <=> send[c].at = "queued",
         \A c \in Callers : send'[c].at = "queued" => send'[c].id = send[c].id,
         \A c \in Callers : send'[c].at = "answered" => send'[c].from = send'[c].id
  PROVE  IInv'
<1>1. Types'
  BY DEF IInv, Types
<1>2. First' = First /\ Past' = Past
  BY DEF First, Past, Held
<1>3. OneWriter' /\ WriterLast'
  BY DEF IInv, OneWriter, WriterLast
<1>4. SlotsInOrder' /\ LinesInOrder'
  BY <1>2 DEF IInv, SlotsInOrder, LinesInOrder
<1>5. RepliesInOrder(stdout, First, Past)'
  BY <1>2 DEF IInv, RepliesInOrder
<1>6. OwnReply'
  BY DEF OwnReply
<1> QED
  BY <1>1, <1>3, <1>4, <1>5, <1>6 DEF IInv

\* Callers between commands: they begin one, or return with what they have.
LEMMA CallerMoves ==
  ASSUME IInv, NEW c \in Callers, NEW r \in Sends,
         send[c].at # "queued", r.at \notin {"queued", "answered"},
         send' = [send EXCEPT ![c] = r], generation' = generation,
         queue' = queue, stdin' = stdin, stdout' = stdout, sent' = sent
  PROVE  IInv'
<1>1. send \in [Callers -> Sends] /\ generation \in Nat
  BY DEF IInv, Types
<1>2. /\ send' \in [Callers -> Sends]
      /\ send'[c] = r
      /\ \A d \in Callers \ {c} : send'[d] = send[d]
  BY <1>1
<1>3. \A d \in Callers : send'[d].at = "answered" => send'[d].from = send'[d].id
  BY <1>2 DEF IInv, OwnReply
<1>4. /\ \A d \in Callers : send'[d].at = "queued" <=> send[d].at = "queued"
      /\ \A d \in Callers : send'[d].at = "queued" => send'[d].id = send[d].id
  BY <1>2
<1> QED
  BY <1>1, <1>2, <1>3, <1>4, NothingMoves

LEMMA FreshSend ==
  /\ NoSend \in Sends /\ NoSend.at = "idle"
  /\ \A op \in Ops, m \in Nat :
        LET r == [NoSend EXCEPT !.at = "ready", !.op = op, !.mark = m]
        IN r \in Sends /\ r.at = "ready"
  BY DEF NoSend, Sends, Ops, Rows, States

\* Send takes the last slot while it holds the lock ...
LEMMA Enqueued ==
  ASSUME IInv, NEW c \in Callers, Enqueue(c), generation' = generation
  PROVE  IInv'
<1>1. /\ send[c].at = "ready" /\ sent' = sent + 1 /\ queue' = queue \o <<sent + 1>>
      /\ \A d \in Callers : send[d].at # "queued"
      /\ send' = [send EXCEPT ![c].at = "queued", ![c].id = sent + 1]
      /\ stdin' = stdin /\ stdout' = stdout
  BY DEF Enqueue, LockFree
<1>2. send \in [Callers -> Sends] /\ generation \in Nat /\ sent \in Nat /\ queue \in Seq(Nat) /\ stdin \in Seq(Command)
  BY DEF IInv, Types
<1>3. /\ send' \in [Callers -> Sends]
      /\ send'[c].at = "queued" /\ send'[c].id = sent + 1
      /\ \A d \in Callers \ {c} : send'[d] = send[d]
  <2>1. [send[c] EXCEPT !.at = "queued", !.id = sent + 1] \in Sends
    <3>1. send[c] \in Sends /\ sent + 1 \in Nat /\ "queued" \in States
      BY <1>2 DEF States
    <3> QED
      BY <3>1 DEF Sends
  <2>2. send' = [send EXCEPT ![c] = [send[c] EXCEPT !.at = "queued", !.id = sent + 1]]
    BY <1>1, <1>2
  <2> QED
    BY <1>2, <2>1, <2>2 DEF Sends
<1>4. /\ queue' \in Seq(Nat) /\ Len(queue) \in Nat /\ Len(queue') = Len(queue) + 1
      /\ \A i \in 1 .. Len(queue) : queue'[i] = queue[i]
      /\ queue'[Len(queue) + 1] = sent + 1
  <2>1. <<sent + 1>> \in Seq(Nat) /\ Len(<<sent + 1>>) = 1 /\ <<sent + 1>>[1] = sent + 1
    BY <1>2
  <2> QED
    BY <1>1, <1>2, <2>1, ConcatProperties, LenProperties
<1>5. Types'
  <2>1. sent' \in Nat
    BY <1>1, <1>2
  <2>2. stdin' \in Seq(Command) /\ stdout' \in Seq(Blocks) /\ generation' \in Nat
    BY <1>1 DEF IInv, Types
  <2> QED
    BY <1>3, <1>4, <2>1, <2>2 DEF Types
<1>6. Held = 0 /\ Held' = 1
  BY <1>1, <1>3 DEF Held
<1>7. First' = First /\ Past' = Past
  <2>1. Len(stdin) \in Nat /\ Len(stdin') = Len(stdin)
    BY <1>1, <1>2, LenProperties
  <2>2. Past = sent - 0 - Len(stdin) + 1 /\ Past' = sent' - 1 - Len(stdin') + 1
    BY <1>6 DEF Past
  <2>3. First = sent - Len(queue) + 1 /\ First' = sent' - Len(queue') + 1
    BY DEF First
  <2> QED
    BY <1>1, <1>2, <1>4, <2>1, <2>2, <2>3
<1>8. OneWriter' /\ WriterLast' /\ OwnReply'
  BY <1>1, <1>3 DEF IInv, OneWriter, WriterLast, OwnReply
<1>9. SlotsInOrder'
  <2>1. First \in Int /\ First + Len(queue) = sent + 1
    BY <1>2, <1>4 DEF First
  <2> QED
    BY <1>4, <1>7, <2>1 DEF IInv, SlotsInOrder
<1>10. LinesInOrder'
  BY <1>1, <1>7 DEF IInv, LinesInOrder
<1>11. RepliesInOrder(stdout, First, Past)'
  BY <1>1, <1>7 DEF IInv, RepliesInOrder
<1> QED
  BY <1>5, <1>8, <1>9, <1>10, <1>11 DEF IInv

\* ... and its line follows the others'.
LEMMA Written ==
  ASSUME IInv, NEW c \in Callers, Write(c), generation' = generation
  PROVE  IInv'
<1> DEFINE line == [id |-> send[c].id, op |-> send[c].op]
<1>1. /\ send[c].at = "queued" /\ stdin' = stdin \o <<line>>
      /\ send' = [send EXCEPT ![c].at = "waiting"]
      /\ queue' = queue /\ stdout' = stdout /\ sent' = sent
  BY DEF Write
<1>2. send \in [Callers -> Sends] /\ generation \in Nat /\ sent \in Nat /\ queue \in Seq(Nat) /\ stdin \in Seq(Command)
  BY DEF IInv, Types
<1>3. /\ send' \in [Callers -> Sends]
      /\ send'[c].at = "waiting"
      /\ \A d \in Callers \ {c} : send'[d] = send[d]
  <2>1. [send[c] EXCEPT !.at = "waiting"] \in Sends
    <3>1. send[c] \in Sends /\ "waiting" \in States
      BY <1>2 DEF States
    <3> QED
      BY <3>1 DEF Sends
  <2>2. send' = [send EXCEPT ![c] = [send[c] EXCEPT !.at = "waiting"]]
    BY <1>1, <1>2
  <2> QED
    BY <1>2, <2>1, <2>2 DEF Sends
<1>4. line \in Command /\ line.id = sent
  BY <1>1, <1>2 DEF Command, Sends, IInv, WriterLast
<1> HIDE DEF line
<1>5. /\ stdin' \in Seq(Command) /\ Len(stdin) \in Nat /\ Len(stdin') = Len(stdin) + 1
      /\ \A i \in 1 .. Len(stdin) : stdin'[i] = stdin[i]
      /\ stdin'[Len(stdin) + 1] = line
  <2>1. <<line>> \in Seq(Command) /\ Len(<<line>>) = 1 /\ <<line>>[1] = line
    BY <1>4
  <2> QED
    BY <1>1, <1>2, <2>1, ConcatProperties, LenProperties
<1>6. Types'
  BY <1>1, <1>2, <1>3, <1>5 DEF IInv, Types
<1>7. Held = 1 /\ Held' = 0
  <2>1. \A d \in Callers \ {c} : send[d].at # "queued"
    BY <1>1 DEF IInv, OneWriter
  <2> QED
    BY <1>1, <1>3, <2>1 DEF Held
<1>8. First' = First /\ Past' = Past
  <2>1. Past = sent - 1 - Len(stdin) + 1 /\ Past' = sent' - 0 - Len(stdin') + 1
    BY <1>7 DEF Past
  <2>2. First = First'
    BY <1>1 DEF First
  <2> QED
    BY <1>1, <1>2, <1>5, <2>1, <2>2
<1>9. OneWriter' /\ WriterLast' /\ OwnReply'
  BY <1>1, <1>3 DEF IInv, OneWriter, WriterLast, OwnReply
<1>10. SlotsInOrder'
  BY <1>1, <1>8 DEF IInv, SlotsInOrder
<1>11. LinesInOrder'
  <2> SUFFICES ASSUME NEW i \in 1 .. Len(stdin') PROVE stdin'[i].id = Past + i - 1
    BY <1>8 DEF LinesInOrder
  <2>1. Past \in Int /\ Past + Len(stdin) = sent
    BY <1>2, <1>5, <1>7 DEF Past
  <2>2. CASE i \in 1 .. Len(stdin)
    BY <1>5, <2>2 DEF IInv, LinesInOrder
  <2>3. CASE i = Len(stdin) + 1
    BY <1>4, <1>5, <2>1, <2>3
  <2> QED
    BY <1>5, <2>2, <2>3
<1>12. RepliesInOrder(stdout, First, Past)'
  BY <1>1, <1>8 DEF IInv, RepliesInOrder
<1> QED
  BY <1>6, <1>9, <1>10, <1>11, <1>12 DEF IInv

\* Feed gives the reply at the head of the stream to the slot at the head of
\* the queue, and it is the reply to that slot's command.
LEMMA HeadsMeet ==
  ASSUME IInv, stdout # <<>>, IsReply(Head(stdout))
  PROVE  /\ queue # <<>> /\ Head(queue) = Head(stdout).id /\ Head(queue) = First
         /\ Head(stdout) \in Answer /\ First < Past
         /\ Tail(stdout) \in Seq(Blocks) /\ RepliesInOrder(Tail(stdout), First + 1, Past)
<1>1. /\ queue \in Seq(Nat) /\ stdin \in Seq(Command) /\ stdout \in Seq(Blocks) /\ sent \in Nat
      /\ Len(queue) \in Nat /\ Len(stdin) \in Nat /\ Held \in {0, 1}
  BY LenProperties, HeldSlots DEF IInv, Types
<1>2. First \in Int /\ Past \in Int /\ First = sent - Len(queue) + 1 /\ Past <= sent + 1
  BY <1>1 DEF First, Past
<1>3. /\ Head(stdout) \in Answer /\ Head(stdout).id = First /\ First < Past
      /\ Tail(stdout) \in Seq(Blocks) /\ RepliesInOrder(Tail(stdout), First + 1, Past)
  BY <1>1, <1>2, ReplyFed DEF IInv
<1>4. Len(queue) > 0
  BY <1>1, <1>2, <1>3
<1>5. queue # <<>> /\ Head(queue) = queue[1]
  BY <1>1, <1>4
<1>6. queue[1] = First
  BY <1>1, <1>2, <1>4 DEF IInv, SlotsInOrder
<1> QED
  BY <1>3, <1>5, <1>6

LEMMA ReplyDelivered ==
  ASSUME IInv, FeedReply, generation' = generation
  PROVE  IInv'
<1> DEFINE b == Head(stdout)
           given(c) == [send[c] EXCEPT !.at = "answered", !.from = b.id, !.reply = b.data, !.error = b.error]
<1>1. /\ stdout # <<>> /\ IsReply(b) /\ queue' = Tail(queue) /\ stdout' = Tail(stdout)
      /\ stdin' = stdin /\ sent' = sent
      /\ send' = [c \in Callers |-> IF c \in Waiting(Head(queue)) THEN given(c) ELSE send[c]]
  BY DEF FeedReply, IsReply
<1>2. /\ queue # <<>> /\ Head(queue) = b.id /\ b \in Answer
      /\ Tail(stdout) \in Seq(Blocks) /\ RepliesInOrder(Tail(stdout), First + 1, Past)
  BY <1>1, HeadsMeet
<1>3. send \in [Callers -> Sends] /\ generation \in Nat /\ sent \in Nat /\ queue \in Seq(Nat) /\ stdin \in Seq(Command)
  BY DEF IInv, Types
<1>4. ASSUME NEW c \in Callers, c \in Waiting(Head(queue))
      PROVE  /\ given(c) \in Sends
             /\ send[c].at = "waiting" /\ given(c).at = "answered" /\ given(c).from = given(c).id
  <2>1. send[c] \in Sends /\ send[c].at = "waiting" /\ send[c].id = b.id
    BY <1>2, <1>3, <1>4 DEF Waiting
  <2>2. b.id \in Nat /\ b.data \in Rows /\ b.error \in BOOLEAN /\ "answered" \in States
    BY <1>2 DEF Answer, States
  <2> HIDE DEF b
  <2> QED
    BY <2>1, <2>2 DEF Sends
<1> HIDE DEF given, b
<1>5. /\ send' \in [Callers -> Sends]
      /\ \A c \in Callers : send'[c].at = "queued" => send'[c] = send[c]
      /\ \A c \in Callers : send[c].at = "queued" => send'[c] = send[c]
  BY <1>1, <1>3, <1>4
<1>6. OwnReply'
  BY <1>1, <1>3, <1>4 DEF IInv, OwnReply
<1>7. /\ queue' \in Seq(Nat) /\ Len(queue') \in Nat /\ Len(queue) = Len(queue') + 1
      /\ \A i \in 1 .. Len(queue') : queue'[i] = queue[i + 1]
  BY <1>1, <1>2, <1>3, HeadTailProperties, LenProperties
<1>8. Types'
  BY <1>1, <1>2, <1>3, <1>5, <1>7 DEF Types
<1>9. OneWriter' /\ WriterLast'
  BY <1>1, <1>5 DEF IInv, OneWriter, WriterLast
<1>10. First \in Int /\ First' = First + 1 /\ Past' = Past
  <2>1. First = sent - Len(queue) + 1 /\ First' = sent' - Len(queue') + 1
    BY DEF First
  <2>2. Held' = Held
    BY <1>5 DEF Held
  <2>3. Past' = Past
    BY <1>1, <2>2 DEF Past
  <2> QED
    BY <1>1, <1>3, <1>7, <2>1, <2>3
<1>11. SlotsInOrder'
  <2> SUFFICES ASSUME NEW i \in 1 .. Len(queue') PROVE queue'[i] = First' + i - 1
    BY DEF SlotsInOrder
  <2>1. i + 1 \in 1 .. Len(queue) /\ queue'[i] = queue[i + 1]
    BY <1>7
  <2>2. queue[i + 1] = First + (i + 1) - 1
    BY <2>1 DEF IInv, SlotsInOrder
  <2> QED
    BY <1>10, <2>1, <2>2
<1>12. LinesInOrder'
  BY <1>1, <1>10 DEF IInv, LinesInOrder
<1>13. RepliesInOrder(stdout, First, Past)'
  BY <1>1, <1>2, <1>10 DEF RepliesInOrder
<1> QED
  BY <1>6, <1>8, <1>9, <1>11, <1>12, <1>13 DEF IInv

\* A gateway that has failed answers everybody and holds nothing.
LEMMA Failed ==
  ASSUME IInv, Fail, generation' = generation
  PROVE  IInv'
<1> DEFINE ended(c) == [send[c] EXCEPT !.at = "answered", !.from = send[c].id, !.reply = {}, !.error = TRUE]
<1>1. /\ queue' = <<>> /\ stdin' = <<>> /\ stdout' = <<>> /\ sent' = sent
      /\ send' = [c \in Callers |-> IF send[c].at = "idle" THEN NoSend ELSE ended(c)]
  BY DEF Fail
<1>2. send \in [Callers -> Sends] /\ generation \in Nat /\ sent \in Nat
  BY DEF IInv, Types
<1>3. ASSUME NEW c \in Callers
      PROVE  ended(c) \in Sends /\ ended(c).at = "answered" /\ ended(c).from = ended(c).id
  <2>1. send[c] \in Sends /\ "answered" \in States /\ {} \in Rows
    BY <1>2 DEF States, Rows
  <2> QED
    BY <2>1 DEF Sends
<1> HIDE DEF ended
<1>4. /\ send' \in [Callers -> Sends]
      /\ \A c \in Callers : send'[c].at # "queued"
      /\ \A c \in Callers : send'[c].at = "answered" => send'[c].from = send'[c].id
  BY <1>1, <1>3, FreshSend
<1>5. /\ queue' \in Seq(Nat) /\ stdin' \in Seq(Command) /\ stdout' \in Seq(Blocks)
      /\ Len(queue') = 0 /\ Len(stdin') = 0 /\ Len(stdout') = 0
  BY <1>1
<1>6. Types'
  BY <1>1, <1>2, <1>4, <1>5 DEF Types
<1>7. First' = sent + 1 /\ Past' = sent + 1
  <2>1. Held' = 0
    BY <1>4 DEF Held
  <2>2. Past' = sent' - 0 - Len(stdin') + 1 /\ First' = sent' - Len(queue') + 1
    BY <2>1 DEF Past, First
  <2> QED
    BY <1>1, <1>2, <1>5, <2>2
<1>8. OneWriter' /\ WriterLast' /\ OwnReply'
  BY <1>4 DEF OneWriter, WriterLast, OwnReply
<1>9. SlotsInOrder' /\ LinesInOrder'
  BY <1>5 DEF SlotsInOrder, LinesInOrder
<1>10. RepliesInOrder(stdout, First, Past)'
  BY <1>2, <1>5, <1>7 DEF RepliesInOrder
<1> QED
  BY <1>6, <1>8, <1>9, <1>10 DEF IInv

\* What tmux announces, and what the reader makes of it, touches no command.
LEMMA StreamMoves ==
  ASSUME IInv, generation' \in Nat, queue' = queue, stdin' = stdin, sent' = sent, send' = send,
         stdout' \in Seq(Blocks), RepliesInOrder(stdout', First, Past)
  PROVE  IInv'
<1>1. Types'
  BY DEF IInv, Types
<1>2. First' = First /\ Past' = Past
  BY DEF First, Past, Held
<1>3. OneWriter' /\ WriterLast' /\ OwnReply'
  BY DEF IInv, OneWriter, WriterLast, OwnReply
<1>4. SlotsInOrder' /\ LinesInOrder'
  BY <1>2 DEF IInv, SlotsInOrder, LinesInOrder
<1>5. RepliesInOrder(stdout, First, Past)'
  BY <1>2 DEF RepliesInOrder
<1> QED
  BY <1>1, <1>3, <1>4, <1>5 DEF IInv

LEMMA Bounds ==
  ASSUME IInv
  PROVE  First \in Int /\ Past \in Int /\ stdout \in Seq(Blocks) /\ generation \in Nat
<1>1. Len(queue) \in Nat /\ Len(stdin) \in Nat /\ sent \in Nat /\ Held \in {0, 1}
  BY LenProperties, HeldSlots DEF IInv, Types
<1> QED
  BY <1>1 DEF IInv, Types, First, Past

LEMMA Announced ==
  ASSUME IInv, NEW b \in Blocks, ~IsReply(b), stdout' = stdout \o <<b>>,
         queue' = queue, stdin' = stdin, sent' = sent, send' = send, generation' = generation
  PROVE  IInv'
<1>1. stdout' \in Seq(Blocks) /\ RepliesInOrder(stdout', First, Past)
  BY Bounds, OtherAppended DEF IInv
<1> QED
  BY <1>1, Bounds, StreamMoves

LEMMA Heard ==
  ASSUME IInv, stdout # <<>>, ~IsReply(Head(stdout)), stdout' = Tail(stdout),
         queue' = queue, stdin' = stdin, sent' = sent, send' = send, generation' \in Nat
  PROVE  IInv'
<1>1. stdout' \in Seq(Blocks) /\ RepliesInOrder(stdout', First, Past)
  BY Bounds, OtherFed DEF IInv
<1> QED
  BY <1>1, StreamMoves

LEMMA GenerationGrows ==
  ASSUME IInv, NEW note, Fold(note)
  PROVE  generation' \in Nat
<1>1. generation' = generation \/ generation' = generation + 1
  BY DEF Fold, set
<1> QED
  BY <1>1, Bounds

LEMMA Notes ==
  ASSUME NEW w \in Windows, NEW n \in Names, NEW kind \in {"add", "close", "renamed"}
  PROVE  Note(kind, w, n) \in Blocks /\ ~IsReply(Note(kind, w, n))
  BY DEF Note, Blocks, Notice, IsReply

LEMMA Changed ==
  ASSUME IInv, NEW w, NEW state, NEW b \in Blocks, ~IsReply(b), Change(w, state, b)
  PROVE  IInv'
  BY Announced DEF Change, set

\* tmux answers the oldest line it has not read, and may tell of the window
\* the line moved on either side of the answer.
LEMMA Answered ==
  ASSUME IInv, TmuxExecutes
  PROVE  IInv'
<1> DEFINE command == Head(stdin)
<1>1. /\ stdin # <<>> /\ stdin' = Tail(stdin)
      /\ queue' = queue /\ sent' = sent /\ send' = send /\ generation' = generation
      /\ \E out \in Executed(command) : stdout' = stdout \o out
  BY DEF TmuxExecutes, set
<1>2. /\ stdin \in Seq(Command) /\ stdin' \in Seq(Command) /\ command \in Command /\ command = stdin[1]
      /\ Len(stdin) \in Nat /\ Len(stdin') \in Nat /\ Len(stdin) = Len(stdin') + 1
      /\ \A i \in 1 .. Len(stdin') : stdin'[i] = stdin[i + 1]
  <2>1. stdin \in Seq(Command)
    BY DEF IInv, Types
  <2> QED
    BY <1>1, <2>1, HeadTailProperties, LenProperties
<1>3. command.id = Past
  BY <1>2, Bounds DEF IInv, LinesInOrder
<1>4. First' = First /\ Past' = Past + 1
  <2>1. First' = First /\ Held' = Held /\ Held \in {0, 1} /\ sent \in Nat
    BY <1>1, HeldSlots DEF First, Held, IInv, Types
  <2>2. Past = sent - Held - Len(stdin) + 1 /\ Past' = sent' - Held' - Len(stdin') + 1
    BY DEF Past
  <2> QED
    BY <1>1, <1>2, <2>1, <2>2
<1> HIDE DEF command
<1>5. stdout' \in Seq(Blocks) /\ RepliesInOrder(stdout', First, Past + 1)
  <2>1. PICK out \in Executed(command) : stdout' = stdout \o out
    BY <1>1
  <2>2. ASSUME NEW b \in Answer, b.id = Past
        PROVE  /\ stdout \o <<b>> \in Seq(Blocks)
               /\ RepliesInOrder(stdout \o <<b>>, First, Past + 1)
    BY <2>2, Bounds, ReplyAppended DEF IInv
  <2>3. ASSUME NEW data \in Rows, NEW error \in BOOLEAN
        PROVE  Reply(command, data, error) \in Answer /\ Reply(command, data, error).id = Past
    BY <1>2, <1>3 DEF Reply, Answer, Command
  <2>4. {} \in Rows /\ {<<w, tmux[w]>> : w \in Live} \in Rows
    BY DEF Rows, Live
  <2>5. CASE \E data \in Rows, error \in BOOLEAN : out = <<Reply(command, data, error)>>
    BY <2>1, <2>2, <2>3, <2>5
  <2>6. CASE /\ command.op \in Live
             /\ LET unlink == Note("close", command.op, tmux[command.op])
                    answer == Reply(command, {}, FALSE)
                IN out \in {<<unlink, answer>>, <<answer, unlink>>}
    <3> DEFINE unlink == Note("close", command.op, tmux[command.op])
               answer == Reply(command, {}, FALSE)
    <3>1. unlink \in Blocks /\ ~IsReply(unlink)
      BY <2>6, Notes DEF Live
    <3>2. answer \in Answer /\ answer.id = Past /\ answer \in Blocks
      BY <2>3, <2>4 DEF Blocks
    <3> HIDE DEF unlink, answer
    <3>3. stdout \in Seq(Blocks) /\ RepliesInOrder(stdout, First, Past) /\ First \in Int /\ Past \in Int
      BY Bounds DEF IInv
    <3>4. CASE out = <<unlink, answer>>
      <4>1. stdout' = (stdout \o <<unlink>>) \o <<answer>>
        BY <2>1, <3>1, <3>2, <3>3, <3>4, BothAppended
      <4>2. stdout \o <<unlink>> \in Seq(Blocks) /\ RepliesInOrder(stdout \o <<unlink>>, First, Past)
        BY <3>1, <3>3, OtherAppended
      <4> QED
        BY <3>2, <3>3, <4>1, <4>2, ReplyAppended
    <3>5. CASE out = <<answer, unlink>>
      <4>1. stdout' = (stdout \o <<answer>>) \o <<unlink>>
        BY <2>1, <3>1, <3>2, <3>3, <3>5, BothAppended
      <4>2. stdout \o <<answer>> \in Seq(Blocks) /\ RepliesInOrder(stdout \o <<answer>>, First, Past + 1)
        BY <2>2, <3>2
      <4>3. Past + 1 \in Int
        BY <3>3
      <4> QED
        BY <3>1, <3>3, <4>1, <4>2, <4>3, OtherAppended
    <3> QED
      BY <2>6, <3>4, <3>5 DEF unlink, answer
  <2> QED
    BY <2>1, <2>4, <2>5, <2>6 DEF Executed
<1>6. Types'
  BY <1>1, <1>2, <1>5 DEF IInv, Types
<1>7. OneWriter' /\ WriterLast' /\ OwnReply'
  BY <1>1 DEF IInv, OneWriter, WriterLast, OwnReply
<1>8. SlotsInOrder'
  BY <1>1, <1>4 DEF IInv, SlotsInOrder
<1>9. LinesInOrder'
  <2> SUFFICES ASSUME NEW i \in 1 .. Len(stdin') PROVE stdin'[i].id = Past' + i - 1
    BY DEF LinesInOrder
  <2>1. i + 1 \in 1 .. Len(stdin) /\ stdin'[i] = stdin[i + 1]
    BY <1>2
  <2>2. stdin[i + 1].id = Past + (i + 1) - 1
    BY <2>1 DEF IInv, LinesInOrder
  <2> QED
    BY <1>4, <2>1, <2>2, Bounds
<1>10. RepliesInOrder(stdout, First, Past)'
  BY <1>4, <1>5 DEF RepliesInOrder
<1> QED
  BY <1>6, <1>7, <1>8, <1>9, <1>10 DEF IInv

LEMMA InitHolds ==
  ASSUME Init
  PROVE  IInv
<1>1. /\ queue = <<>> /\ stdin = <<>> /\ stdout = <<>> /\ sent = 0 /\ generation = 0
      /\ send = [c \in Callers |-> NoSend]
  BY DEF Init, GatewayInit
<1>2. /\ queue \in Seq(Nat) /\ stdin \in Seq(Command) /\ stdout \in Seq(Blocks)
      /\ Len(queue) = 0 /\ Len(stdin) = 0 /\ Len(stdout) = 0
  BY <1>1
<1>3. send \in [Callers -> Sends] /\ \A c \in Callers : send[c].at = "idle"
  BY <1>1, FreshSend
<1>4. Types /\ OneWriter /\ WriterLast /\ OwnReply
  BY <1>1, <1>2, <1>3 DEF Types, OneWriter, WriterLast, OwnReply
<1>5. First = 1 /\ Past = 1
  <2>1. Held = 0
    BY <1>3 DEF Held
  <2>2. First = sent - Len(queue) + 1 /\ Past = sent - 0 - Len(stdin) + 1
    BY <2>1 DEF First, Past
  <2> QED
    BY <1>1, <1>2, <2>2
<1>6. SlotsInOrder /\ LinesInOrder
  BY <1>2 DEF SlotsInOrder, LinesInOrder
<1>7. RepliesInOrder(stdout, First, Past)
  BY <1>2, <1>5 DEF RepliesInOrder
<1> QED
  BY <1>4, <1>6, <1>7 DEF IInv

\* A caller that is not writing begins a command or returns.
LEMMA Begins ==
  ASSUME IInv, NEW c \in Callers, send[c].at # "queued", NEW op \in Ops, NEW m \in Nat,
         Ready(c, op, m), generation' = generation,
         queue' = queue, stdin' = stdin, stdout' = stdout, sent' = sent
  PROVE  IInv'
<1> DEFINE r == [NoSend EXCEPT !.at = "ready", !.op = op, !.mark = m]
<1>1. r \in Sends /\ r.at = "ready" /\ send' = [send EXCEPT ![c] = r]
  BY FreshSend DEF Ready
<1> HIDE DEF r
<1> QED
  BY <1>1, CallerMoves

LEMMA Returns ==
  ASSUME IInv, NEW c \in Callers, send[c].at # "queued", Return(c), generation' = generation,
         queue' = queue, stdin' = stdin, stdout' = stdout, sent' = sent
  PROVE  IInv'
<1>1. NoSend \in Sends /\ NoSend.at = "idle" /\ send' = [send EXCEPT ![c] = NoSend]
  BY FreshSend DEF Return
<1> QED
  BY <1>1, CallerMoves

LEMMA Inductive ==
  ASSUME IInv, [Next]_wvars
  PROVE  IInv'
<1>1. Attacher \in Callers /\ Worker \in Callers /\ Mover \in Callers
  BY WindowsAssumption
<1>2. CASE (FeedReply \/ FeedDesync \/ FeedServer) /\ UNCHANGED others
  <2>1. generation' = generation
    BY <1>2 DEF others, set
  <2>2. CASE FeedReply
    BY <2>1, <2>2, ReplyDelivered
  <2>3. CASE FeedDesync
    BY <2>1, <2>3, Failed DEF FeedDesync
  <2>4. CASE FeedServer
    <3>1. stdout # <<>> /\ ~IsReply(Head(stdout))
      BY <2>4 DEF FeedServer, IsReply
    <3> QED
      BY <2>1, <2>4, <3>1, Heard, Bounds DEF FeedServer
  <2> QED
    BY <1>2, <2>2, <2>3, <2>4
<1>3. CASE FeedNote
  <2>1. stdout # <<>> /\ ~IsReply(Head(stdout))
    BY <1>3 DEF FeedNote, IsReply
  <2>2. generation' \in Nat
    BY <1>3, GenerationGrows DEF FeedNote
  <2> QED
    BY <1>3, <2>1, <2>2, Heard DEF FeedNote
<1>4. ASSUME NEW c \in Callers, (Enqueue(c) \/ Write(c)) /\ UNCHANGED others PROVE IInv'
  <2>1. generation' = generation
    BY <1>4 DEF others, set
  <2> QED
    BY <1>4, <2>1, Enqueued, Written
<1>5. CASE Negotiate \/ RunReconcile
  BY <1>1, <1>5, Begins, Bounds DEF Negotiate, RunReconcile, BeginList, negotiation, set, Ops
<1>6. CASE Renumber \/ Resync
  BY <1>1, <1>6, Begins, Bounds DEF Renumber, Resync, Moved, BeginList, negotiation, set, Ops
<1>7. ASSUME NEW w \in Windows, MoveWindow(w) PROVE IInv'
  BY <1>1, <1>7, Begins DEF MoveWindow, negotiation, set, Ops
<1>8. CASE Attached
  BY <1>1, <1>8, Returns DEF Attached, Install, Holding, negotiation
<1>9. ASSUME NEW c \in Callers, Reconcile(c) \/ CallerFails(c) PROVE IInv'
  BY <1>9, Returns DEF Reconcile, CallerFails, Merge, Holding, negotiation, set
<1>10. CASE TmuxExecutes
  BY <1>10, Answered
<1>11. ASSUME NEW w \in Windows, TmuxAdds(w) \/ TmuxCloses(w) \/ TmuxRenames(w) PROVE IInv'
  BY <1>11, Notes, Changed DEF TmuxAdds, TmuxCloses, TmuxRenames, Live
<1>12. CASE TmuxServerBlock
  <2>1. ServerBlock \in Blocks /\ ~IsReply(ServerBlock)
    BY DEF ServerBlock, Blocks, IsReply
  <2> QED
    BY <1>12, <2>1, Announced DEF TmuxServerBlock, set
<1>13. CASE CancelMove
  BY <1>1, <1>13, Returns DEF CancelMove, GiveUp, set
<1>14. CASE StreamEnds
  BY <1>14, Failed DEF StreamEnds, set
<1>15. CASE UNCHANGED wvars
  BY <1>15, StreamMoves, Bounds DEF wvars, IInv
<1> QED
  BY <1>2, <1>3, <1>4, <1>5, <1>6, <1>7, <1>8, <1>9, <1>10, <1>11, <1>12, <1>13, <1>14, <1>15
  DEF Next, Client, Outside

LEMMA Invariance == Spec => []IInv
<1> QED
  BY InitHolds, Inductive, PTL DEF Spec

-----------------------------------------------------------------------------
(* The slots, counted.                                                     *)

\* The replies up to the one to command n are those to First .. n.
LEMMA RepliesCounted ==
  ASSUME IInv, NEW S \in SUBSET Replies, NEW hi \in Int,
         \A i \in Replies : i \in S <=> stdout[i].id <= hi,
         First - 1 <= hi, hi < Past
  PROVE  IsFiniteSet(S) /\ Cardinality(S) = hi - First + 1
<1> DEFINE f == [i \in S |-> stdout[i].id]
           T == First .. hi
<1>1. First \in Int /\ Past \in Int /\ RepliesInOrder(stdout, First, Past)
  BY Bounds DEF IInv
<1>2. Replies = {i \in 1 .. Len(stdout) : IsReply(stdout[i])}
  BY DEF Replies, IsReply, IInv, Types
<1>3. \A i \in S : i \in 1 .. Len(stdout) /\ IsReply(stdout[i]) /\ stdout[i].id \in T
  BY <1>1, <1>2 DEF RepliesInOrder
<1>4. f \in [S -> T]
  BY <1>3
<1>5. \A i, j \in S : f[i] = f[j] => i = j
  <2> SUFFICES ASSUME NEW i \in S, NEW j \in S, stdout[i].id = stdout[j].id PROVE i = j
    OBVIOUS
  <2>1. i \in Int /\ j \in Int /\ stdout[i].id \in Int /\ stdout[j].id \in Int
    BY <1>1, <1>3
  <2>2. ~(i < j) /\ ~(j < i)
    BY <1>1, <1>3, <2>1 DEF RepliesInOrder
  <2> QED
    BY <2>1, <2>2
<1>6. \A n \in T : \E i \in S : f[i] = n
  <2> SUFFICES ASSUME NEW n \in T PROVE \E i \in S : f[i] = n
    OBVIOUS
  <2>1. n \in First .. (Past - 1)
    BY <1>1
  <2>2. PICK i \in 1 .. Len(stdout) : IsReply(stdout[i]) /\ stdout[i].id = n
    BY <1>1, <2>1 DEF RepliesInOrder
  <2>3. i \in S
    BY <1>2, <2>2
  <2> QED
    BY <2>2, <2>3
<1>7. IsFiniteSet(T) /\ Cardinality(T) = hi - First + 1
  <2>1. IsFiniteSet(First .. hi) /\ Cardinality(First .. hi) = IF First > hi THEN 0 ELSE hi - First + 1
    BY <1>1, FS_Interval
  <2>2. First > hi => hi - First + 1 = 0
    BY <1>1
  <2> QED
    BY <1>1, <2>1, <2>2
<1>8. IsFiniteSet(S)
  <2>1. IsFiniteSet(1 .. Len(stdout)) /\ S \in SUBSET (1 .. Len(stdout))
    BY <1>3, FS_Interval DEF IInv, Types
  <2> QED
    BY <2>1, FS_Subset
<1>9. f \in Bijection(S, T)
  BY <1>4, <1>5, <1>6 DEF Bijection, Injection, Surjection, IsInjective
<1>10. ExistsBijection(S, T)
  BY <1>9 DEF ExistsBijection
<1> QED
  BY <1>7, <1>8, <1>10, FS_Bijection

LEMMA WritersCounted ==
  ASSUME IInv
  PROVE  Cardinality(Writing) = Held
<1>1. CASE \E c \in Callers : send[c].at = "queued"
  <2>1. PICK c \in Callers : send[c].at = "queued"
    BY <1>1
  <2>2. Writing = {c}
    BY <2>1 DEF IInv, OneWriter, Writing
  <2> QED
    BY <1>1, <2>2, FS_Singleton DEF Held
<1>2. CASE ~ \E c \in Callers : send[c].at = "queued"
  <2>1. Writing = {}
    BY <1>2 DEF Writing
  <2> QED
    BY <1>2, <2>1, FS_EmptySet DEF Held
<1> QED
  BY <1>1, <1>2

LEMMA SlotsCounted ==
  ASSUME IInv
  PROVE  Paired
<1> DEFINE n == Cardinality(Replies)
<1>1. First \in Int /\ Past \in Int /\ RepliesInOrder(stdout, First, Past) /\ First <= Past
  BY Bounds DEF IInv, RepliesInOrder
<1>2. Held \in {0, 1} /\ (Writing # {} => Held = 1)
  BY DEF Held, Writing
<1>3. sent \in Int /\ Len(queue) \in Nat /\ Len(stdin) \in Nat
  BY DEF IInv, Types
<1>4. First = sent - Len(queue) + 1 /\ Past = sent - Held - Len(stdin) + 1
  BY DEF First, Past
<1>5. \A i \in Replies : i \in 1 .. Len(stdout) /\ IsReply(stdout[i]) /\ stdout[i].id \in First .. (Past - 1)
  <2>1. Replies = {i \in 1 .. Len(stdout) : IsReply(stdout[i])}
    BY DEF Replies, IsReply, IInv, Types
  <2> QED
    BY <1>1, <2>1 DEF RepliesInOrder
<1>6. n = Past - First
  <2>1. \A i \in Replies : i \in Replies <=> stdout[i].id <= Past - 1
    BY <1>1, <1>5
  <2>2. First - 1 <= Past - 1 /\ Past - 1 < Past /\ Past - 1 \in Int
    BY <1>1
  <2>3. Cardinality(Replies) = (Past - 1) - First + 1
    BY <2>1, <2>2, RepliesCounted
  <2> QED
    BY <1>1, <2>3
<1> HIDE DEF n
<1>7. Len(queue) = n + Len(stdin) + Cardinality(Writing)
  BY <1>2, <1>3, <1>4, <1>6, WritersCounted
<1>8. ASSUME NEW i \in Replies PROVE queue[Place(i)] = stdout[i].id
  <2> DEFINE S == {j \in Replies : j <= i}
             hi == stdout[i].id
  <2>1. hi \in First .. (Past - 1) /\ hi \in Int
    BY <1>1, <1>5
  <2>2. ASSUME NEW j \in Replies PROVE j \in S <=> stdout[j].id <= hi
    <3>1. /\ i \in 1 .. Len(stdout) /\ j \in 1 .. Len(stdout) /\ IsReply(stdout[i]) /\ IsReply(stdout[j])
          /\ stdout[j].id \in Int
      BY <1>1, <1>5
    <3>2. i < j => stdout[i].id < stdout[j].id
      BY <1>1, <3>1 DEF RepliesInOrder
    <3>3. j < i => stdout[j].id < stdout[i].id
      BY <1>1, <3>1 DEF RepliesInOrder
    <3> QED
      BY <2>1, <3>1, <3>2, <3>3
  <2>3. S \in SUBSET Replies /\ First - 1 <= hi /\ hi < Past
    BY <1>1, <2>1
  <2> HIDE DEF S, hi
  <2>4. Cardinality(S) = hi - First + 1
    BY <2>1, <2>2, <2>3, RepliesCounted DEF hi
  <2>5. Place(i) = hi - First + 1
    BY <2>4 DEF Place, S
  <2>6. Place(i) \in 1 .. Len(queue)
    BY <1>1, <1>2, <1>3, <1>4, <2>1, <2>5
  <2>7. queue[Place(i)] = First + Place(i) - 1
    BY <2>6 DEF IInv, SlotsInOrder
  <2> QED
    BY <1>1, <2>1, <2>5, <2>7 DEF hi
<1>9. ASSUME NEW i \in DOMAIN stdin PROVE queue[n + i] = stdin[i].id
  <2>1. i \in 1 .. Len(stdin)
    BY <1>9 DEF IInv, Types
  <2>2. n + i \in 1 .. Len(queue)
    BY <1>1, <1>2, <1>3, <1>4, <1>6, <2>1
  <2>3. queue[n + i] = First + (n + i) - 1 /\ stdin[i].id = Past + i - 1
    BY <2>1, <2>2 DEF IInv, SlotsInOrder, LinesInOrder
  <2> QED
    BY <1>1, <1>6, <2>1, <2>3
<1>10. ASSUME NEW c \in Writing PROVE queue[Len(queue)] = send[c].id
  <2>1. send[c].id = sent
    BY <1>10 DEF Writing, IInv, WriterLast
  <2>2. Held = 1 /\ Len(queue) \in 1 .. Len(queue)
    BY <1>1, <1>2, <1>3, <1>4, <1>10
  <2>3. queue[Len(queue)] = First + Len(queue) - 1
    BY <2>2 DEF IInv, SlotsInOrder
  <2> QED
    BY <1>3, <1>4, <2>1, <2>3
<1> QED
  BY <1>7, <1>8, <1>9, <1>10 DEF Paired, n

-----------------------------------------------------------------------------
(* The theorems.                                                           *)

\* Position is identity: the gateway's queue holds exactly the commands in
\* flight, in the order tmux answers them, tombstones included - so the
\* count of the replies is all Feed needs.
THEOREM PairedHolds == Spec => []Paired
<1>1. IInv => Paired
  BY SlotsCounted
<1> QED
  BY <1>1, Invariance, PTL

\* A Send that returns a reply returns the one tmux gave to that Send's own
\* command, whoever else was sending and whatever tmux announced meanwhile.
THEOREM OwnReplyHolds == Spec => []OwnReply
<1>1. IInv => OwnReply
  BY DEF IInv
<1> QED
  BY <1>1, Invariance, PTL

\* A reply that reaches Feed always finds a slot, and the slot is that of
\* its own command: Feed never has to declare the stream out of step, also
\* when the command's caller has given up.
ReplyMeetsItsSlot ==
  stdout # <<>> /\ IsReply(Head(stdout)) => queue # <<>> /\ Head(queue) = Head(stdout).id

THEOREM ReplyMeetsItsSlotHolds == Spec => []ReplyMeetsItsSlot
<1>1. IInv => ReplyMeetsItsSlot
  BY HeadsMeet DEF ReplyMeetsItsSlot
<1> QED
  BY <1>1, Invariance, PTL

-----------------------------------------------------------------------------
(* The windows: what the client knows of them, and from where.             *)

TabTypes ==
  /\ tmux \in [Windows -> Names \cup {"unborn", "closed"}]
  /\ app \in [Windows -> Names \cup {"unnamed", "absent"}]
  /\ addedAt \in [Windows -> Nat]
  /\ relinking \subseteq Windows

\* The windows a block tells of, and those somebody told the client of already.
Told(b)  == IF IsReply(b) THEN {pair[1] : pair \in b.data}
            ELSE IF b.kind = "server" THEN {} ELSE {b.window}
Known(w) == w \in Shown \/ \E c \in Holding : w \in Named(c)
KnownBefore(w, i) == Known(w) \/ \E j \in 1 .. (i - 1) : w \in Told(stdout[j])

\* The reply to the list c waits for.
Listing(c)     == send[c].at = "waiting" /\ send[c].op = "list"
Snapshot(c, b) == Listing(c) /\ IsReply(b) /\ b.id = send[c].id

\* The commands with a number that are not yet returned.
Accepted(c) == send[c].at = "answered" /\ ~send[c].error
Numbered(c) == send[c].at \in {"queued", "waiting"} \/ Accepted(c)

NumbersApart ==
  /\ \A c \in Callers : Numbered(c) => send[c].id <= sent
  /\ \A c \in Callers : Accepted(c) => send[c].id < First
  /\ \A c, d \in Callers : Numbered(c) /\ Numbered(d) /\ send[c].id = send[d].id => c = d
Marks     == \A c \in Callers : send[c].mark <= generation
OneOp     == \A i \in 1 .. Len(stdin), c \in Callers :
               send[c].at = "waiting" /\ send[c].id = stdin[i].id => stdin[i].op = send[c].op
MoverOnly == \A c \in Callers : c # Mover => send[c].op \notin Windows

CallInv == NumbersApart /\ Marks /\ OneOp /\ MoverOnly

\* Nobody is told of a window tmux has not opened.
Born     == \A w \in Windows : KnownBefore(w, Len(stdout) + 1) => tmux[w] # "unborn"
\* A snapshot on its way holds every window the client was told of before it.
Complete == \A c \in Callers, i \in 1 .. Len(stdout) : Snapshot(c, stdout[i]) =>
              \A w \in Live : KnownBefore(w, i) => w \in Told(stdout[i])
\* Of two snapshots that are read, the newer holds what the older does ...
Fresher  == \A c, d \in Holding : send[d].id < send[c].id => \A w \in Live : w \in Named(d) => w \in Named(c)
\* ... and a window that is shown is in it, or was added after its mark.
Excused  == overlapped \cup unsettled
Guarded  == \A c \in Holding : \A w \in Live : w \in Shown => w \in Named(c) \/ w \in Excused \/ TooNew(c, w)

TellInv == Born /\ Complete /\ Fresher /\ Guarded

\* A move in hand holds its window, and lets go of it when it ends.
Relinks ==
  /\ send[Mover].at = "idle" => relinking = {}
  /\ send[Mover].at # "idle" /\ send[Mover].op \in Windows => send[Mover].op \in relinking
MovesHeld == \A i \in 1 .. Len(stdin) : stdin[i].op \in Windows =>
  \/ stdin[i].op \in unsettled
  \/ stdin[i].op \in relinking /\ send[Mover].at = "waiting" /\ send[Mover].id = stdin[i].id
\* A window announced closed is closed, or it was moved: the move ended without
\* its snapshot, or it holds the window and the snapshot comes behind.
Unlinked(i) ==
  /\ stdout[i].window \in relinking /\ Mover \notin Holding
  /\ \A j \in 1 .. i : ~Snapshot(Mover, stdout[j])
ClosesHeld == \A i \in 1 .. Len(stdout) : stdout[i].kind = "close" =>
  \/ tmux[stdout[i].window] = "closed" \/ stdout[i].window \in unsettled \/ Unlinked(i)

MoveInv == Relinks /\ MovesHeld /\ ClosesHeld

WindowInv == TabTypes /\ CallInv /\ TellInv /\ MoveInv

-----------------------------------------------------------------------------
(* Types.                                                                  *)

LEMMA SendTypes ==
  ASSUME IInv
  PROVE  /\ send \in [Callers -> Sends] /\ sent \in Nat /\ generation \in Nat
         /\ stdin \in Seq(Command) /\ stdout \in Seq(Blocks) /\ queue \in Seq(Nat)
         /\ Len(stdin) \in Nat /\ Len(stdout) \in Nat /\ Len(queue) \in Nat
         /\ \A c \in Callers : send[c].id \in Nat /\ send[c].mark \in Nat /\ send[c].reply \in Rows
         /\ First \in Int /\ Past \in Int /\ First <= Past /\ Held \in {0, 1}
         /\ Past = sent - Held - Len(stdin) + 1 /\ First = sent - Len(queue) + 1
<1>1. send \in [Callers -> Sends] /\ sent \in Nat /\ stdin \in Seq(Command) /\ queue \in Seq(Nat)
  BY DEF IInv, Types
<1>2. \A c \in Callers : send[c].id \in Nat /\ send[c].mark \in Nat /\ send[c].reply \in Rows
  BY <1>1 DEF Sends
<1>3. Len(stdin) \in Nat /\ Len(queue) \in Nat /\ Len(stdout) \in Nat
  BY <1>1, Bounds, LenProperties
<1>4. First <= Past
  BY DEF IInv, RepliesInOrder
<1>5. Past = sent - Held - Len(stdin) + 1 /\ First = sent - Len(queue) + 1
  BY DEF First, Past
<1> QED
  BY <1>1, <1>2, <1>3, <1>4, <1>5, Bounds, HeldSlots

LEMMA BlockTypes ==
  ASSUME NEW b \in Blocks
  PROVE  /\ IsReply(b) => b \in Answer /\ b.id \in Nat /\ b.data \in Rows /\ b.kind = "reply"
         /\ ~IsReply(b) /\ b.kind # "server" => b \in Notice /\ b.window \in Windows /\ b.name \in Names
         /\ b.kind \in {"add", "close", "renamed"} => ~IsReply(b) /\ b.kind # "server"
         /\ Told(b) \subseteq Windows
<1>1. IsReply(b) => b \in Answer /\ b.id \in Nat /\ b.data \in Rows /\ b.kind = "reply"
  BY DEF Blocks, Answer, Notice, ServerBlock, IsReply
<1>2. ~IsReply(b) /\ b.kind # "server" => b \in Notice /\ b.window \in Windows /\ b.name \in Names
  BY DEF Blocks, Answer, Notice, ServerBlock, IsReply
<1>3. b.kind \in {"add", "close", "renamed"} => ~IsReply(b) /\ b.kind # "server"
  BY DEF IsReply
<1>4. ASSUME NEW rows \in Rows PROVE {pair[1] : pair \in rows} \subseteq Windows
  BY DEF Rows
<1>5. Told(b) \subseteq Windows
  BY <1>1, <1>2, <1>4 DEF Told
<1> QED
  BY <1>1, <1>2, <1>3, <1>5

\* A name a snapshot gives is a name.
LEMMA NamesListed ==
  ASSUME IInv, NEW c \in Callers
  PROVE  Named(c) \subseteq Windows /\ \A w \in Named(c) : NameIn(c, w) \in Names
<1>1. send[c].reply \in Rows
  BY SendTypes
<1>2. ASSUME NEW w \in Named(c) PROVE NameIn(c, w) \in Names
  <2> DEFINE p == CHOOSE pair \in send[c].reply : pair[1] = w
  <2>1. \E pair \in send[c].reply : pair[1] = w
    BY DEF Named
  <2>2. p \in send[c].reply
    BY <2>1
  <2>3. p[2] \in Names
    BY <1>1, <2>2 DEF Rows
  <2> QED
    BY <2>3 DEF NameIn
<1> QED
  BY <1>1, <1>2 DEF Named, Rows

-----------------------------------------------------------------------------
(* What is told, as the stream moves on.                                   *)

\* Nobody reads a list, nor begins to wait for one that is in the stream.
NoNewList ==
  /\ \A c \in Callers, i \in 1 .. Len(stdout) :
        Listing(c)' /\ IsReply(stdout[i]) /\ stdout[i].id = send'[c].id => Snapshot(c, stdout[i])
  /\ \A c \in Callers : c \in Holding' => c \in Holding /\ send'[c] = send[c]

LEMMA TellKept ==
  ASSUME Born, Complete, Fresher, NoNewList, tmux' = tmux, stdout' = stdout,
         \A w \in Windows : Known(w)' => Known(w)
  PROVE  Born' /\ Complete' /\ Fresher'
<1>1. \A w \in Windows : \A i : KnownBefore(w, i)' => KnownBefore(w, i)
  BY DEF KnownBefore
<1>3. Live' = Live /\ Live \subseteq Windows
  BY DEF Live
<1>4. Born'
  BY <1>1 DEF Born
<1>5. Complete'
  <2> SUFFICES ASSUME NEW c \in Callers, NEW i \in 1 .. Len(stdout), Snapshot(c, stdout[i])',
                      NEW w \in Live, KnownBefore(w, i)'
               PROVE  w \in Told(stdout[i])
    BY <1>3 DEF Complete
  <2>1. Snapshot(c, stdout[i])
    BY DEF NoNewList, Snapshot
  <2> QED
    BY <1>1, <1>3, <2>1 DEF Complete
<1>6. Fresher'
  <2>1. \A c \in Callers : c \in Holding' => Named(c)' = Named(c) /\ send'[c].id = send[c].id /\ c \in Holding
    BY DEF NoNewList, Named
  <2>2. Holding' \subseteq Callers
    BY DEF Holding
  <2> QED
    BY <1>3, <2>1, <2>2 DEF Fresher
<1> QED
  BY <1>4, <1>5, <1>6

\* The block at the head is read, whatever becomes of it.
LEMMA KnownShifted ==
  ASSUME stdout \in Seq(Blocks), stdout # <<>>, stdout' = Tail(stdout),
         \A w \in Windows : Known(w)' => Known(w) \/ w \in Told(Head(stdout)),
         NEW w \in Windows, NEW i \in 1 .. Len(stdout') + 1, KnownBefore(w, i)'
  PROVE  KnownBefore(w, i + 1)
<1>1. /\ Len(stdout') \in Nat /\ Len(stdout) = Len(stdout') + 1
      /\ \A j \in 1 .. Len(stdout') : stdout'[j] = stdout[j + 1]
      /\ Head(stdout) = stdout[1]
  BY HeadTailProperties, LenProperties
<1>2. CASE Known(w)'
  <2>1. Known(w) \/ w \in Told(stdout[1])
    BY <1>1, <1>2
  <2>2. 1 \in 1 .. ((i + 1) - 1)
    BY <1>1
  <2> QED
    BY <2>1, <2>2 DEF KnownBefore
<1>3. CASE \E j \in 1 .. (i - 1) : w \in Told(stdout'[j])
  <2>1. PICK j \in 1 .. (i - 1) : w \in Told(stdout'[j])
    BY <1>3
  <2>2. j \in 1 .. Len(stdout') /\ j + 1 \in 1 .. ((i + 1) - 1)
    BY <1>1, <2>1
  <2>3. w \in Told(stdout[j + 1])
    BY <1>1, <2>1, <2>2
  <2> QED
    BY <2>2, <2>3 DEF KnownBefore
<1>4. Known(w)' \/ \E j \in 1 .. (i - 1) : w \in Told(stdout'[j])
  BY DEF KnownBefore, Told, IsReply
<1> QED
  BY <1>2, <1>3, <1>4

LEMMA TellShifted ==
  ASSUME Born, Complete, tmux' = tmux, stdout \in Seq(Blocks), stdout # <<>>, stdout' = Tail(stdout),
         \A c \in Callers : Listing(c)' => Listing(c) /\ send'[c].id = send[c].id,
         \A w \in Windows : Known(w)' => Known(w) \/ w \in Told(Head(stdout))
  PROVE  Born' /\ Complete'
<1>1. /\ Len(stdout') \in Nat /\ Len(stdout) = Len(stdout') + 1
      /\ \A i \in 1 .. Len(stdout') : stdout'[i] = stdout[i + 1]
      /\ Head(stdout) = stdout[1]
  BY HeadTailProperties, LenProperties
<1>2. ASSUME NEW w \in Windows, NEW i \in 1 .. Len(stdout') + 1, KnownBefore(w, i)'
      PROVE  KnownBefore(w, i + 1)
  BY <1>2, KnownShifted
<1>3. Live' = Live /\ Live \subseteq Windows
  BY DEF Live
<1>4. Born'
  <2>1. Len(stdout') + 1 \in 1 .. Len(stdout') + 1 /\ (Len(stdout') + 1) + 1 = Len(stdout) + 1
    BY <1>1
  <2>2. ASSUME NEW w \in Windows, KnownBefore(w, Len(stdout) + 1)' PROVE tmux[w] # "unborn"
    <3>1. PICK n : n = Len(stdout') + 1
      OBVIOUS
    <3>2. n \in 1 .. Len(stdout') + 1 /\ n + 1 = Len(stdout) + 1
      BY <2>1, <3>1
    <3>3. KnownBefore(w, n)'
      BY <2>2, <3>1 DEF KnownBefore
    <3>4. KnownBefore(w, Len(stdout) + 1)
      BY <1>2, <3>2, <3>3
    <3> QED
      BY <3>4 DEF Born
  <2> QED
    BY <2>2 DEF Born
<1>5. Complete'
  <2> SUFFICES ASSUME NEW c \in Callers, NEW i \in 1 .. Len(stdout'), Snapshot(c, stdout[i])',
                      NEW w \in Live, KnownBefore(w, i)'
               PROVE  w \in Told(stdout'[i])
    BY <1>3 DEF Complete, Told, IsReply
  <2>1. i + 1 \in 1 .. Len(stdout) /\ stdout'[i] = stdout[i + 1] /\ i \in 1 .. Len(stdout') + 1
    BY <1>1
  <2>2. Snapshot(c, stdout[i + 1])
    BY <2>1 DEF Snapshot, IsReply
  <2>3. KnownBefore(w, i + 1)
    BY <1>2, <1>3, <2>1
  <2>4. w \in Told(stdout[i + 1])
    BY <2>1, <2>2, <2>3 DEF Complete
  <2> QED
    BY <2>1, <2>4
<1> QED
  BY <1>4, <1>5

\* tmux appends to the stream, and the callers and the tabs stay as they are.
LEMMA KnownAppended ==
  ASSUME NEW w \in Windows, NEW i \in 1 .. Len(stdout) + 1,
         Known(w)' => Known(w), stdout \in Seq(Blocks), \A j \in 1 .. Len(stdout) : stdout'[j] = stdout[j],
         KnownBefore(w, i)'
  PROVE  KnownBefore(w, i)
<1>1. CASE \E j \in 1 .. (i - 1) : w \in Told(stdout'[j])
  <2>1. PICK j \in 1 .. (i - 1) : w \in Told(stdout'[j])
    BY <1>1
  <2>2. j \in 1 .. Len(stdout)
    BY <2>1, LenProperties
  <2>3. w \in Told(stdout[j])
    BY <2>1, <2>2
  <2> QED
    BY <2>1, <2>3 DEF KnownBefore
<1>2. Known(w)' \/ \E j \in 1 .. (i - 1) : w \in Told(stdout'[j])
  BY DEF KnownBefore, Told, IsReply
<1> QED
  BY <1>1, <1>2 DEF KnownBefore

\* tmux appends to the stream: what it tells of has been opened, its windows
\* close for good, and a new snapshot holds every window it has.
LEMMA TellAppended ==
  ASSUME TellInv, send' = send, app' = app, addedAt' = addedAt, overlapped' = overlapped, unsettled' = unsettled,
         stdout \in Seq(Blocks), stdout' \in Seq(Blocks), Len(stdout) <= Len(stdout'),
         \A i \in 1 .. Len(stdout) : stdout'[i] = stdout[i],
         \A w \in Windows : tmux[w] # "unborn" => tmux'[w] # "unborn" /\ (w \in Live' => w \in Live),
         \A i \in Len(stdout) + 1 .. Len(stdout') :
             /\ \A w \in Told(stdout'[i]) : tmux'[w] # "unborn"
             /\ \A c \in Callers : Snapshot(c, stdout'[i]) => Live' \subseteq Told(stdout'[i])
  PROVE  TellInv'
<1>0. Len(stdout) \in Nat /\ Len(stdout') \in Nat
  BY LenProperties
<1>1. /\ Shown' = Shown /\ Holding' = Holding /\ Holding \subseteq Callers
      /\ \A c \in Callers : Named(c)' = Named(c)
      /\ Excused' = Excused /\ Live' \subseteq Windows
  BY DEF Shown, Holding, Named, Excused, Live
<1>2. /\ \A w \in Windows : Known(w)' <=> Known(w)
      /\ \A c \in Callers : \A b : Snapshot(c, b)' <=> Snapshot(c, b)
      /\ \A c \in Callers, w \in Windows : TooNew(c, w)' <=> TooNew(c, w)
  BY <1>1 DEF Known, Snapshot, Listing, TooNew
<1>3. ASSUME NEW w \in Windows, NEW i \in 1 .. Len(stdout) + 1, KnownBefore(w, i)'
      PROVE  KnownBefore(w, i)
  BY <1>2, <1>3, KnownAppended
\* Who is told of a window in the stream as it was is told of one tmux has opened.
<1>4. ASSUME NEW w \in Windows, NEW i \in 1 .. Len(stdout) + 1, KnownBefore(w, i)
      PROVE  tmux[w] # "unborn"
  <2>1. KnownBefore(w, Len(stdout) + 1)
    <3>1. \A j \in 1 .. (i - 1) : j \in 1 .. ((Len(stdout) + 1) - 1)
      BY <1>0
    <3> QED
      BY <1>4, <3>1 DEF KnownBefore
  <2> QED
    BY <2>1 DEF TellInv, Born
<1>5. ASSUME NEW w \in Windows, NEW i \in 1 .. Len(stdout) + 1, KnownBefore(w, i)', w \in Live'
      PROVE  w \in Live
  BY <1>3, <1>4, <1>5
<1>6. Born'
  <2> SUFFICES ASSUME NEW w \in Windows, NEW n, n = Len(stdout'), KnownBefore(w, n + 1)'
               PROVE  tmux'[w] # "unborn"
    BY DEF Born, KnownBefore
  <2>1. CASE Known(w)'
    <3>1. 1 \in 1 .. Len(stdout) + 1 /\ KnownBefore(w, 1)
      BY <1>0, <1>2, <2>1 DEF KnownBefore
    <3> QED
      BY <1>4, <3>1
  <2>2. CASE \E j \in 1 .. n : w \in Told(stdout'[j])
    <3>1. PICK j \in 1 .. n : w \in Told(stdout'[j])
      BY <2>2
    <3>2. CASE j \in 1 .. Len(stdout)
      <4>1. w \in Told(stdout[j]) /\ j \in 1 .. ((Len(stdout) + 1) - 1) /\ Len(stdout) + 1 \in 1 .. Len(stdout) + 1
        BY <1>0, <3>1, <3>2
      <4>2. KnownBefore(w, Len(stdout) + 1)
        BY <4>1 DEF KnownBefore
      <4> QED
        BY <1>4, <4>1, <4>2
    <3>3. CASE j \in Len(stdout) + 1 .. n
      BY <3>1, <3>3
    <3> QED
      BY <1>0, <3>1, <3>2, <3>3
  <2>3. Known(w)' \/ \E j \in 1 .. n : w \in Told(stdout'[j])
    <3>1. (n + 1) - 1 = n
      BY <1>0
    <3>2. Known(w)' \/ \E j \in 1 .. ((n + 1) - 1) : w \in Told(stdout'[j])
      BY DEF KnownBefore, Told, IsReply
    <3> QED
      BY <3>1, <3>2
  <2> QED
    BY <2>1, <2>2, <2>3
<1>7. Complete'
  <2> SUFFICES ASSUME NEW c \in Callers, NEW i \in 1 .. Len(stdout'), Snapshot(c, stdout'[i]),
                      NEW w \in Live', KnownBefore(w, i)'
               PROVE  w \in Told(stdout'[i])
    BY <1>2 DEF Complete, Told, IsReply, Snapshot, Listing
  <2>1. CASE i \in 1 .. Len(stdout)
    <3>1. w \in Windows /\ i \in 1 .. Len(stdout) + 1 /\ stdout'[i] = stdout[i]
      BY <1>0, <1>1, <2>1
    <3>2. KnownBefore(w, i) /\ w \in Live
      BY <1>3, <1>5, <3>1
    <3> QED
      BY <2>1, <3>1, <3>2 DEF TellInv, Complete
  <2>2. CASE i \in Len(stdout) + 1 .. Len(stdout')
    BY <2>2
  <2> QED
    BY <1>0, <2>1, <2>2
<1>8. ASSUME NEW w \in Live', Known(w) PROVE w \in Live
  <2>1. w \in Windows /\ 1 \in 1 .. Len(stdout) + 1 /\ KnownBefore(w, 1)
    BY <1>0, <1>1, <1>8 DEF KnownBefore
  <2> QED
    BY <1>4, <2>1
<1>9. Fresher'
  <2> SUFFICES ASSUME NEW c \in Holding, NEW d \in Holding, send[d].id < send[c].id, NEW w \in Live', w \in Named(d)
               PROVE  w \in Named(c)
    BY <1>1 DEF Fresher
  <2>1. w \in Live
    BY <1>8 DEF Known
  <2> QED
    BY <2>1 DEF TellInv, Fresher
<1>10. Guarded'
  <2> SUFFICES ASSUME NEW c \in Holding, NEW w \in Live', w \in Shown
               PROVE  w \in Named(c) \/ w \in Excused \/ TooNew(c, w)
    BY <1>1, <1>2 DEF Guarded
  <2>1. w \in Live
    BY <1>8 DEF Known
  <2> QED
    BY <2>1 DEF TellInv, Guarded
<1> QED
  BY <1>6, <1>7, <1>9, <1>10 DEF TellInv

-----------------------------------------------------------------------------
(* A caller between commands.                                              *)

LEMMA CallerLeft ==
  ASSUME IInv, CallInv, NEW c \in Callers, NEW r \in Sends, r.at \in {"ready", "idle"},
         r.mark <= generation, c # Mover => r.op \notin Windows,
         send' = [send EXCEPT ![c] = r], generation' = generation,
         queue' = queue, stdin' = stdin, sent' = sent
  PROVE  CallInv' /\ NoNewList
<1>1. send \in [Callers -> Sends]
  BY SendTypes
<1>2. send'[c] = r /\ \A d \in Callers : d # c => send'[d] = send[d]
  BY <1>1
<1>3. First' = First
  BY DEF First
<1>4. \A d \in Callers : /\ Numbered(d)' => d # c /\ Numbered(d)
                         /\ Accepted(d)' => d # c /\ Accepted(d)
                         /\ send'[d].at = "waiting" => d # c
                         /\ d \in Holding' => d # c /\ d \in Holding
  BY <1>2 DEF Numbered, Accepted, Holding
<1>5. NumbersApart'
  <2>1. \A d \in Callers : Numbered(d)' => send'[d].id <= sent'
    BY <1>2, <1>4 DEF CallInv, NumbersApart
  <2>2. \A d \in Callers : Accepted(d)' => send'[d].id < First'
    BY <1>2, <1>3, <1>4 DEF CallInv, NumbersApart
  <2>3. \A d, e \in Callers : Numbered(d)' /\ Numbered(e)' /\ send'[d].id = send'[e].id => d = e
    BY <1>2, <1>4 DEF CallInv, NumbersApart
  <2> QED
    BY <2>1, <2>2, <2>3 DEF NumbersApart
<1>6. Marks'
  BY <1>2 DEF CallInv, Marks
<1>7. OneOp'
  BY <1>2, <1>4 DEF CallInv, OneOp
<1>8. MoverOnly'
  BY <1>2 DEF CallInv, MoverOnly
<1>9. NoNewList
  BY <1>2, <1>4 DEF NoNewList, Snapshot, Listing
<1> QED
  BY <1>5, <1>6, <1>7, <1>8, <1>9 DEF CallInv

\* A step the mover has no part in.
LEMMA MoveKept ==
  ASSUME MoveInv, Mover \in Callers, send'[Mover] = send[Mover], relinking' = relinking, unsettled' = unsettled,
         tmux' = tmux, stdin' = stdin, stdout' = stdout
  PROVE  MoveInv'
<1>1. (Mover \in Holding)' <=> Mover \in Holding
  BY DEF Holding
<1>2. \A b : Snapshot(Mover, b)' <=> Snapshot(Mover, b)
  BY DEF Snapshot, Listing
<1>3. Relinks' /\ MovesHeld'
  BY DEF MoveInv, Relinks, MovesHeld
<1>4. ClosesHeld'
  BY <1>1, <1>2 DEF MoveInv, ClosesHeld, Unlinked, Snapshot, Listing
<1> QED
  BY <1>3, <1>4 DEF MoveInv

\* The mover between commands: it has its snapshot, or lets go of its window,
\* or goes on with its move.
LEMMA MoverLeft ==
  ASSUME MoveInv, Mover \in Callers, send'[Mover].at \in {"ready", "queued", "idle"}, Relinks',
         unsettled \subseteq unsettled', tmux' = tmux, stdin' = stdin, stdout' = stdout,
         \/ Mover \in Holding
         \/ relinking \subseteq unsettled'
         \/ relinking' = relinking /\ send[Mover].at # "waiting"
  PROVE  MoveInv'
<1>1. Mover \notin Holding' /\ \A b : ~Snapshot(Mover, b)'
  BY DEF Holding, Snapshot, Listing
<1>2. MovesHeld'
  <2> SUFFICES ASSUME NEW i \in 1 .. Len(stdin), stdin[i].op \in Windows PROVE stdin[i].op \in unsettled'
    BY DEF MovesHeld
  <2>1. \/ stdin[i].op \in unsettled
        \/ stdin[i].op \in relinking /\ send[Mover].at = "waiting"
    BY DEF MoveInv, MovesHeld
  <2> QED
    BY <2>1 DEF Holding
<1>3. ClosesHeld'
  <2> SUFFICES ASSUME NEW i \in 1 .. Len(stdout), stdout[i].kind = "close"
               PROVE  \/ tmux[stdout[i].window] = "closed" \/ stdout[i].window \in unsettled'
                      \/ stdout[i].window \in relinking'
    BY <1>1 DEF ClosesHeld, Unlinked, Snapshot, Listing
  <2>1. \/ tmux[stdout[i].window] = "closed" \/ stdout[i].window \in unsettled
        \/ stdout[i].window \in relinking /\ Mover \notin Holding
    BY DEF MoveInv, ClosesHeld, Unlinked
  <2> QED
    BY <2>1
<1> QED
  BY <1>2, <1>3 DEF MoveInv

LEMMA GuardKept ==
  ASSUME Guarded, NoNewList, tmux' = tmux, app' = app, addedAt' = addedAt, Excused \subseteq Excused'
  PROVE  Guarded' /\ \A w \in Windows : Known(w)' => Known(w)
<1>1. Live' = Live /\ Shown' = Shown /\ Holding' \subseteq Callers
  BY DEF Live, Shown, Holding
<1>2. \A c \in Callers : c \in Holding' => c \in Holding /\ Named(c)' = Named(c)
  BY DEF NoNewList, Named
<1>3. \A c \in Callers : \A w : c \in Holding' => (TooNew(c, w) => TooNew(c, w)')
  BY DEF NoNewList, TooNew
<1>4. Guarded'
  BY <1>1, <1>2, <1>3 DEF Guarded
<1>5. \A w \in Windows : Known(w)' => Known(w)
  BY <1>1, <1>2 DEF Known
<1> QED
  BY <1>4, <1>5

\* The attacher, the worker and the mover are callers, and three.
LEMMA TheCallers ==
  /\ Attacher \in Callers /\ Worker \in Callers /\ Mover \in Callers
  /\ Attacher # Mover /\ Worker # Mover
  BY WindowsAssumption

\* A caller that begins a list or the renumbering after a move.
LEMMA Began ==
  ASSUME IInv, WindowInv, NEW c \in Callers, NEW op \in {"list", "renumber"}, NEW m \in Nat, m <= generation,
         Ready(c, op, m), c = Mover => send[c].at = "answered",
         UNCHANGED <<negotiation, tmux, set, relinking, overlapped, unsettled>>
  PROVE  WindowInv'
<1> DEFINE r == [NoSend EXCEPT !.at = "ready", !.op = op, !.mark = m]
<1>1. /\ r \in Sends /\ r.at = "ready" /\ r.op = op /\ r.mark = m
      /\ send' = [send EXCEPT ![c] = r] /\ send \in [Callers -> Sends] /\ op \notin Windows
  <2>1. op \in Ops /\ op \notin Windows
    BY WindowsAssumption DEF Ops
  <2>2. r \in Sends /\ r.at = "ready"
    BY <2>1, FreshSend
  <2>3. r.op = op /\ r.mark = m
    BY DEF NoSend
  <2> QED
    BY <2>1, <2>2, <2>3, SendTypes DEF Ready
<1> HIDE DEF r
<1>2. /\ queue' = queue /\ stdin' = stdin /\ stdout' = stdout /\ sent' = sent /\ generation' = generation
      /\ app' = app /\ addedAt' = addedAt /\ tmux' = tmux
      /\ relinking' = relinking /\ overlapped' = overlapped /\ unsettled' = unsettled
  BY DEF negotiation, set
<1>3. CallInv' /\ NoNewList
  BY <1>1, <1>2, CallerLeft DEF WindowInv
<1>4. Guarded' /\ \A w \in Windows : Known(w)' => Known(w)
  BY <1>2, <1>3, GuardKept DEF WindowInv, TellInv, Excused
<1>5. TellInv'
  BY <1>2, <1>3, <1>4, TellKept DEF WindowInv, TellInv
<1>6. TabTypes'
  BY <1>2 DEF WindowInv, TabTypes
<1>7. CASE c # Mover
  <2>1. send'[Mover] = send[Mover]
    BY <1>1, <1>7, TheCallers
  <2>2. MoveInv'
    BY <1>2, <2>1, MoveKept, TheCallers DEF WindowInv
  <2> QED
    BY <1>3, <1>5, <1>6, <2>2 DEF WindowInv
<1>8. CASE c = Mover
  <2>1. send'[Mover] = r /\ send[Mover].at = "answered"
    BY <1>1, <1>8
  <2>2. Relinks'
    BY <1>1, <2>1 DEF Relinks
  <2>3. MoveInv'
    BY <1>1, <1>2, <2>1, <2>2, MoverLeft, TheCallers DEF WindowInv
  <2> QED
    BY <1>3, <1>5, <1>6, <2>3 DEF WindowInv
<1> QED
  BY <1>7, <1>8

LEMMA MoveBegun ==
  ASSUME IInv, WindowInv, NEW w \in Windows, MoveWindow(w)
  PROVE  WindowInv'
<1> DEFINE r == [NoSend EXCEPT !.at = "ready", !.op = w, !.mark = 0]
<1>1. /\ r \in Sends /\ r.at = "ready" /\ r.op = w /\ r.mark = 0
      /\ send' = [send EXCEPT ![Mover] = r] /\ send \in [Callers -> Sends] /\ send[Mover].at = "idle"
  <2>1. w \in Ops
    BY DEF Ops
  <2>2. r \in Sends /\ r.at = "ready"
    BY <2>1, FreshSend
  <2>3. r.op = w /\ r.mark = 0
    BY DEF NoSend
  <2> QED
    BY <2>2, <2>3, SendTypes DEF Ready, MoveWindow
<1> HIDE DEF r
<1>2. /\ queue' = queue /\ stdin' = stdin /\ stdout' = stdout /\ sent' = sent /\ generation' = generation
      /\ app' = app /\ addedAt' = addedAt /\ tmux' = tmux
      /\ relinking' = {w} /\ overlapped' = overlapped /\ unsettled' = unsettled
  BY DEF MoveWindow, negotiation, set, external, witness
<1>3. CallInv' /\ NoNewList
  <2>1. r.mark <= generation
    BY <1>1, SendTypes
  <2> QED
    BY <1>1, <1>2, <2>1, CallerLeft, TheCallers DEF WindowInv
<1>4. Guarded' /\ \A v \in Windows : Known(v)' => Known(v)
  BY <1>2, <1>3, GuardKept DEF WindowInv, TellInv, Excused
<1>5. TellInv'
  BY <1>2, <1>3, <1>4, TellKept DEF WindowInv, TellInv
<1>6. TabTypes'
  BY <1>2 DEF WindowInv, TabTypes
<1>7. send'[Mover] = r
  BY <1>1, TheCallers
<1>8. Relinks' /\ relinking = {}
  BY <1>1, <1>2, <1>7 DEF Relinks, WindowInv, MoveInv
<1>9. MoveInv'
  BY <1>1, <1>2, <1>7, <1>8, MoverLeft, TheCallers DEF WindowInv
<1> QED
  BY <1>3, <1>5, <1>6, <1>9 DEF WindowInv

\* A caller that returns with an error; the mover lets go of its window.
LEMMA Failing ==
  ASSUME IInv, WindowInv, NEW c \in Callers, Return(c),
         IF c = Mover THEN Release ELSE UNCHANGED <<relinking, unsettled>>,
         queue' = queue, stdin' = stdin, stdout' = stdout, sent' = sent, generation' = generation,
         app' = app, addedAt' = addedAt, tmux' = tmux, overlapped' = overlapped
  PROVE  WindowInv'
<1>1. /\ NoSend \in Sends /\ NoSend.at = "idle" /\ NoSend.mark = 0 /\ NoSend.op = "none" /\ "none" \notin Windows
      /\ send' = [send EXCEPT ![c] = NoSend] /\ send \in [Callers -> Sends]
  <2>1. NoSend.mark = 0 /\ NoSend.op = "none"
    BY DEF NoSend
  <2> QED
    BY <2>1, FreshSend, SendTypes, WindowsAssumption DEF Return
<1>2. unsettled \subseteq unsettled' /\ relinking' \subseteq relinking
  BY DEF Release
<1>3. CallInv' /\ NoNewList
  <2>1. NoSend.mark <= generation
    BY <1>1, SendTypes
  <2> QED
    BY <1>1, <2>1, CallerLeft DEF WindowInv
<1>4. Guarded' /\ \A w \in Windows : Known(w)' => Known(w)
  BY <1>2, <1>3, GuardKept DEF WindowInv, TellInv, Excused
<1>5. TellInv'
  BY <1>3, <1>4, TellKept DEF WindowInv, TellInv
<1>6. TabTypes'
  BY <1>2 DEF WindowInv, TabTypes
<1>7. CASE c # Mover
  <2>1. send'[Mover] = send[Mover] /\ relinking' = relinking /\ unsettled' = unsettled
    BY <1>1, <1>7, TheCallers
  <2>2. MoveInv'
    BY <2>1, MoveKept, TheCallers DEF WindowInv
  <2> QED
    BY <1>3, <1>5, <1>6, <2>2 DEF WindowInv
<1>8. CASE c = Mover
  <2>1. send'[Mover] = NoSend /\ relinking' = {} /\ relinking \subseteq unsettled'
    BY <1>1, <1>8 DEF Release
  <2>2. Relinks'
    BY <1>1, <2>1 DEF Relinks
  <2>3. MoveInv'
    BY <1>1, <1>2, <2>1, <2>2, MoverLeft, TheCallers DEF WindowInv
  <2> QED
    BY <1>3, <1>5, <1>6, <2>3 DEF WindowInv
<1> QED
  BY <1>7, <1>8

-----------------------------------------------------------------------------
(* Merging a snapshot.                                                     *)

\* A window shown after a merge is named by the snapshot, or was shown before.
LEMMA Merging ==
  ASSUME IInv, WindowInv, NEW c \in Callers, c \in Holding, Return(c), Overtaking(c), TabTypes',
         \A w \in Windows : app'[w] # "absent" => w \in Named(c) \/ (w \in Shown /\ addedAt'[w] = addedAt[w]),
         relinking' = IF c = Mover THEN {} ELSE relinking,
         queue' = queue, stdin' = stdin, stdout' = stdout, sent' = sent, generation' = generation,
         tmux' = tmux, unsettled' = unsettled
  PROVE  WindowInv'
<1>1. /\ NoSend \in Sends /\ NoSend.at = "idle" /\ NoSend.mark = 0 /\ NoSend.op = "none" /\ "none" \notin Windows
      /\ send' = [send EXCEPT ![c] = NoSend] /\ send \in [Callers -> Sends]
  <2>1. NoSend.mark = 0 /\ NoSend.op = "none"
    BY DEF NoSend
  <2> QED
    BY <2>1, FreshSend, SendTypes, WindowsAssumption DEF Return
<1>2. /\ send'[c] = NoSend /\ \A d \in Callers : d # c => send'[d] = send[d]
      /\ Live' = Live /\ Live \subseteq Windows /\ Holding \subseteq Callers
      /\ overlapped \subseteq overlapped'
  BY <1>1 DEF Live, Holding, Overtaking
<1>3. CallInv' /\ NoNewList
  <2>1. NoSend.mark <= generation
    BY <1>1, SendTypes
  <2> QED
    BY <1>1, <2>1, CallerLeft DEF WindowInv
<1>4. \A w \in Windows : Known(w)' => Known(w)
  <2>1. \A d \in Callers : d \in Holding' => d \in Holding /\ Named(d)' = Named(d)
    BY <1>3 DEF NoNewList, Named
  <2>2. \A w \in Windows : w \in Shown' => Known(w)
    BY DEF Shown, Known
  <2>3. Holding' \subseteq Callers
    BY DEF Holding
  <2> QED
    BY <2>1, <2>2, <2>3 DEF Known
<1>5. Guarded'
  <2> SUFFICES ASSUME NEW d \in Callers, d \in Holding', NEW w \in Live, app'[w] # "absent"
               PROVE  w \in Named(d)' \/ w \in Excused' \/ TooNew(d, w)'
    BY <1>2 DEF Guarded, Holding, Shown
  <2>1. d # c /\ d \in Holding /\ send'[d] = send[d] /\ w \in Windows
    BY <1>1, <1>2 DEF Holding
  <2>2. Named(d)' = Named(d) /\ Excused \subseteq Excused'
    BY <1>2, <2>1 DEF Named, Excused
  <2>3. CASE w \in Named(c)
    <3>1. Numbered(c) /\ Numbered(d) /\ send[c].id # send[d].id /\ send[c].id \in Nat /\ send[d].id \in Nat
      BY <2>1, SendTypes DEF Numbered, Accepted, Holding, WindowInv, CallInv, NumbersApart
    <3>2. CASE send[d].id < send[c].id
      <4>1. overlapped' = overlapped \cup Named(c)
        BY <2>1, <3>2 DEF Overtaking
      <4> QED
        BY <2>3, <4>1 DEF Excused
    <3>3. CASE send[c].id < send[d].id
      <4>1. w \in Named(d)
        BY <2>1, <2>3, <3>3 DEF WindowInv, TellInv, Fresher
      <4> QED
        BY <2>2, <4>1
    <3> QED
      BY <3>1, <3>2, <3>3
  <2>4. CASE w \in Shown /\ addedAt'[w] = addedAt[w]
    <3>1. w \in Named(d) \/ w \in Excused \/ TooNew(d, w)
      BY <2>1, <2>4 DEF WindowInv, TellInv, Guarded
    <3>2. TooNew(d, w) => TooNew(d, w)'
      BY <2>1, <2>4 DEF TooNew
    <3> QED
      BY <2>2, <3>1, <3>2
  <2> QED
    BY <2>1, <2>3, <2>4
<1>6. TellInv'
  BY <1>3, <1>4, <1>5, TellKept DEF WindowInv, TellInv
<1>7. CASE c # Mover
  <2>1. send'[Mover] = send[Mover]
    BY <1>2, <1>7, TheCallers
  <2>2. MoveInv'
    BY <1>7, <2>1, MoveKept, TheCallers DEF WindowInv
  <2> QED
    BY <1>3, <1>6, <2>2 DEF WindowInv
<1>8. CASE c = Mover
  <2>1. send'[Mover] = NoSend
    BY <1>2, <1>8
  <2>2. Relinks'
    BY <1>1, <1>8, <2>1 DEF Relinks
  <2>3. MoveInv'
    BY <1>1, <1>8, <2>1, <2>2, MoverLeft, TheCallers DEF WindowInv
  <2> QED
    BY <1>3, <1>6, <2>3 DEF WindowInv
<1> QED
  BY <1>7, <1>8

LEMMA Merged ==
  ASSUME IInv, WindowInv, NEW c \in Callers, Reconcile(c)
  PROVE  WindowInv'
<1>1. /\ c \in Holding /\ Return(c) /\ Overtaking(c) /\ generation' = generation
      /\ relinking' = IF c = Mover THEN {} ELSE relinking
      /\ queue' = queue /\ stdin' = stdin /\ stdout' = stdout /\ sent' = sent
      /\ tmux' = tmux /\ unsettled' = unsettled
  BY DEF Reconcile, Merge, negotiation, external
<1>2. app' = [w \in Windows |-> CASE w \in Named(c) -> NameIn(c, w)
                                  [] w \notin Named(c) /\ TooNew(c, w) -> app[w]
                                  [] OTHER -> "absent"]
  BY DEF Reconcile, Merge
<1>3. addedAt' = [w \in Windows |-> IF w \notin Named(c) /\ TooNew(c, w) THEN addedAt[w] ELSE 0]
  BY DEF Reconcile, Merge
<1>4. \A w \in Windows : app'[w] # "absent" => w \in Named(c) \/ (w \in Shown /\ addedAt'[w] = addedAt[w])
  BY <1>2, <1>3 DEF Shown
<1>5. TabTypes'
  <2>1. \A w \in Windows : app'[w] \in Names \cup {"unnamed", "absent"}
    <3> SUFFICES ASSUME NEW w \in Windows PROVE app'[w] \in Names \cup {"unnamed", "absent"}
      OBVIOUS
    <3>1. CASE w \in Named(c)
      BY <1>2, <3>1, NamesListed
    <3>2. CASE w \notin Named(c) /\ TooNew(c, w)
      BY <1>2, <3>2 DEF WindowInv, TabTypes
    <3>3. CASE w \notin Named(c) /\ ~TooNew(c, w)
      BY <1>2, <3>3
    <3> QED
      BY <3>1, <3>2, <3>3
  <2>2. addedAt' \in [Windows -> Nat]
    BY <1>3 DEF WindowInv, TabTypes
  <2>3. app' \in [Windows -> Names \cup {"unnamed", "absent"}]
    BY <1>2, <2>1
  <2> QED
    BY <1>1, <2>2, <2>3 DEF WindowInv, TabTypes
<1> QED
  BY <1>1, <1>4, <1>5, Merging

LEMMA Installed ==
  ASSUME IInv, WindowInv, Attached
  PROVE  WindowInv'
<1> DEFINE c == Attacher
<1>1. /\ c \in Callers /\ c # Mover /\ c \in Holding /\ Return(c) /\ Overtaking(c) /\ generation' = generation
      /\ relinking' = IF c = Mover THEN {} ELSE relinking
      /\ queue' = queue /\ stdin' = stdin /\ stdout' = stdout /\ sent' = sent
      /\ tmux' = tmux /\ unsettled' = unsettled
  BY TheCallers DEF Attached, Install, negotiation, external
<1>2. /\ app' = [w \in Windows |-> IF w \in Named(c) THEN NameIn(c, w) ELSE app[w]]
      /\ addedAt' = [w \in Windows |-> IF w \in Named(c) THEN 0 ELSE addedAt[w]]
  BY DEF Attached, Install
<1>3. \A w \in Windows : app'[w] # "absent" => w \in Named(c) \/ (w \in Shown /\ addedAt'[w] = addedAt[w])
  BY <1>2 DEF Shown
<1>4. TabTypes'
  BY <1>1, <1>2, NamesListed DEF WindowInv, TabTypes
<1> HIDE DEF c
<1> QED
  BY <1>1, <1>3, <1>4, Merging

-----------------------------------------------------------------------------
(* Sending.                                                                *)

LEMMA SlotTaken ==
  ASSUME IInv, WindowInv, NEW c \in Callers, Enqueue(c), UNCHANGED others
  PROVE  WindowInv'
<1>1. /\ send[c].at = "ready" /\ sent' = sent + 1 /\ queue' = queue \o <<sent + 1>>
      /\ send' = [send EXCEPT ![c].at = "queued", ![c].id = sent + 1]
      /\ stdin' = stdin /\ stdout' = stdout /\ generation' = generation
      /\ app' = app /\ addedAt' = addedAt /\ tmux' = tmux
      /\ relinking' = relinking /\ overlapped' = overlapped /\ unsettled' = unsettled
  BY DEF Enqueue, others, set, external, witness
<1>2. send \in [Callers -> Sends] /\ sent \in Nat /\ \A d \in Callers : send[d].id \in Nat
  BY SendTypes
<1>3. /\ send'[c].at = "queued" /\ send'[c].id = sent + 1
      /\ send'[c].op = send[c].op /\ send'[c].mark = send[c].mark
      /\ \A d \in Callers : d # c => send'[d] = send[d]
  BY <1>1, <1>2 DEF Sends
<1>4. First' = First
  <2>1. <<sent + 1>> \in Seq(Nat) /\ Len(<<sent + 1>>) = 1
    BY <1>2
  <2>2. Len(queue') = Len(queue) + 1 /\ Len(queue) \in Nat
    BY <1>1, <2>1, SendTypes, ConcatProperties
  <2> QED
    BY <1>1, <1>2, <2>2 DEF First
<1>5. \A d \in Callers : /\ Numbered(d)' => d = c \/ Numbered(d)
                         /\ Accepted(d)' => d # c /\ Accepted(d)
                         /\ send'[d].at = "waiting" => d # c
                         /\ d \in Holding' => d # c /\ d \in Holding
  BY <1>3 DEF Numbered, Accepted, Holding
<1>6. NumbersApart'
  <2>1. \A d \in Callers : Numbered(d)' => send'[d].id <= sent'
    BY <1>1, <1>2, <1>3, <1>5 DEF WindowInv, CallInv, NumbersApart
  <2>2. \A d \in Callers : Accepted(d)' => send'[d].id < First'
    BY <1>3, <1>4, <1>5 DEF WindowInv, CallInv, NumbersApart
  <2>3. \A d, e \in Callers : Numbered(d)' /\ Numbered(e)' /\ send'[d].id = send'[e].id => d = e
    <3> SUFFICES ASSUME NEW d \in Callers, NEW e \in Callers, Numbered(d)', Numbered(e)', send'[d].id = send'[e].id
                 PROVE  d = e
      OBVIOUS
    <3>1. \A f \in Callers : Numbered(f) => send[f].id <= sent
      BY DEF WindowInv, CallInv, NumbersApart
    <3>2. CASE d = c \/ e = c
      BY <1>2, <1>3, <1>5, <3>1, <3>2
    <3>3. CASE d # c /\ e # c
      BY <1>3, <1>5, <3>3 DEF WindowInv, CallInv, NumbersApart
    <3> QED
      BY <3>2, <3>3
  <2> QED
    BY <2>1, <2>2, <2>3 DEF NumbersApart
<1>7. Marks'
  BY <1>1, <1>3 DEF WindowInv, CallInv, Marks
<1>8. OneOp'
  <2>1. \A d \in Callers : send'[d].at = "waiting" => send'[d] = send[d]
    BY <1>3, <1>5
  <2>2. stdin' = stdin
    BY <1>1
  <2>3. OneOp
    BY DEF WindowInv, CallInv
  <2> QED
    BY <2>1, <2>2, <2>3 DEF OneOp
<1>9. MoverOnly'
  BY <1>3 DEF WindowInv, CallInv, MoverOnly
<1>10. NoNewList
  BY <1>3, <1>5 DEF NoNewList, Snapshot, Listing
<1>11. Guarded' /\ \A w \in Windows : Known(w)' => Known(w)
  BY <1>1, <1>10, GuardKept DEF WindowInv, TellInv, Excused
<1>12. TellInv'
  BY <1>1, <1>10, <1>11, TellKept DEF WindowInv, TellInv
<1>13. TabTypes'
  BY <1>1 DEF WindowInv, TabTypes
<1>14. MoveInv'
  <2>1. CASE c # Mover
    <3>1. send'[Mover] = send[Mover]
      BY <1>3, <2>1, TheCallers
    <3> QED
      BY <1>1, <3>1, MoveKept, TheCallers DEF WindowInv
  <2>2. CASE c = Mover
    <3>1. send'[Mover].at = "queued" /\ send[Mover].at = "ready" /\ send'[Mover].op = send[Mover].op
      BY <1>1, <1>3, <2>2
    <3>2. Relinks'
      BY <1>1, <3>1 DEF WindowInv, MoveInv, Relinks
    <3> QED
      BY <1>1, <3>1, <3>2, MoverLeft, TheCallers DEF WindowInv
  <2> QED
    BY <2>1, <2>2
<1> QED
  BY <1>6, <1>7, <1>8, <1>9, <1>12, <1>13, <1>14 DEF WindowInv, CallInv

LEMMA LineWritten ==
  ASSUME IInv, WindowInv, NEW c \in Callers, Write(c), UNCHANGED others
  PROVE  WindowInv'
<1> DEFINE line == [id |-> send[c].id, op |-> send[c].op]
<1>1. /\ send[c].at = "queued" /\ stdin' = stdin \o <<line>>
      /\ send' = [send EXCEPT ![c].at = "waiting"]
      /\ queue' = queue /\ stdout' = stdout /\ sent' = sent /\ generation' = generation
      /\ app' = app /\ addedAt' = addedAt /\ tmux' = tmux
      /\ relinking' = relinking /\ overlapped' = overlapped /\ unsettled' = unsettled
  BY DEF Write, others, set, external, witness
<1>2. /\ send \in [Callers -> Sends] /\ sent \in Nat /\ stdin \in Seq(Command) /\ Len(stdin) \in Nat
      /\ Past \in Int /\ Past = sent - Held - Len(stdin) + 1 /\ First = sent - Len(queue) + 1
  BY SendTypes
<1>3. /\ send'[c].at = "waiting" /\ send'[c].id = send[c].id
      /\ send'[c].op = send[c].op /\ send'[c].mark = send[c].mark
      /\ \A d \in Callers : d # c => send'[d] = send[d]
  BY <1>1, <1>2 DEF Sends
<1>4. send[c].id = sent /\ Past = sent - Len(stdin)
  <2>1. Held = 1
    BY <1>1 DEF Held
  <2>2. send[c].id = sent
    BY <1>1 DEF IInv, WriterLast
  <2> QED
    BY <1>2, <2>1, <2>2
<1>5. line \in Command /\ line.id = sent /\ line.op = send[c].op
  BY <1>2, <1>4 DEF Command, Sends
<1> HIDE DEF line
<1>6. /\ Len(stdin') = Len(stdin) + 1
      /\ \A i \in 1 .. Len(stdin) : stdin'[i] = stdin[i]
      /\ stdin'[Len(stdin) + 1] = line
  <2>1. <<line>> \in Seq(Command) /\ Len(<<line>>) = 1 /\ <<line>>[1] = line
    BY <1>5
  <2> QED
    BY <1>1, <1>2, <2>1, ConcatProperties
\* The line is new: no line and no reply carries its number.
<1>7. \A i \in 1 .. Len(stdin) : stdin[i].id # sent
  BY <1>2, <1>4 DEF IInv, LinesInOrder
<1>8. \A i \in 1 .. Len(stdout) : IsReply(stdout[i]) => stdout[i].id # sent
  BY <1>2, <1>4 DEF IInv, RepliesInOrder
<1>9. First' = First /\ Numbered(c)
  BY <1>1 DEF First, Numbered
<1>10. \A d \in Callers : /\ Numbered(d)' <=> Numbered(d)
                          /\ Accepted(d)' => Accepted(d)
                          /\ d \in Holding' => d # c /\ d \in Holding
                          /\ send'[d].id = send[d].id
  BY <1>1, <1>3 DEF Numbered, Accepted, Holding
<1>11. NumbersApart'
  BY <1>1, <1>9, <1>10 DEF WindowInv, CallInv, NumbersApart
<1>12. Marks' /\ MoverOnly'
  BY <1>1, <1>3 DEF WindowInv, CallInv, Marks, MoverOnly
<1>13. OneOp'
  <2> SUFFICES ASSUME NEW i \in 1 .. Len(stdin'), NEW d \in Callers, send'[d].at = "waiting",
                      send'[d].id = stdin'[i].id
               PROVE  stdin'[i].op = send'[d].op
    BY DEF OneOp
  <2>1. CASE i \in 1 .. Len(stdin)
    <3>1. d # c
      BY <1>3, <1>4, <1>6, <1>7, <2>1
    <3> QED
      BY <1>3, <1>6, <2>1, <3>1 DEF WindowInv, CallInv, OneOp
  <2>2. CASE i = Len(stdin) + 1
    <3>1. Numbered(d) /\ send[d].id = send[c].id
      BY <1>4, <1>5, <1>6, <1>10, <2>2 DEF Numbered
    <3>2. d = c
      BY <1>9, <3>1 DEF WindowInv, CallInv, NumbersApart
    <3> QED
      BY <1>3, <1>5, <1>6, <2>2, <3>2
  <2> QED
    BY <1>2, <1>6, <2>1, <2>2
<1>14. NoNewList
  BY <1>3, <1>4, <1>8, <1>10 DEF NoNewList, Snapshot, Listing
<1>15. Guarded' /\ \A w \in Windows : Known(w)' => Known(w)
  BY <1>1, <1>14, GuardKept DEF WindowInv, TellInv, Excused
<1>16. TellInv'
  BY <1>1, <1>14, <1>15, TellKept DEF WindowInv, TellInv
<1>17. TabTypes'
  BY <1>1 DEF WindowInv, TabTypes
<1>18. Relinks'
  BY <1>1, <1>3, TheCallers DEF WindowInv, MoveInv, Relinks
<1>19. MovesHeld'
  <2> SUFFICES ASSUME NEW i \in 1 .. Len(stdin'), stdin'[i].op \in Windows
               PROVE  \/ stdin'[i].op \in unsettled
                      \/ stdin'[i].op \in relinking /\ send'[Mover].at = "waiting" /\ send'[Mover].id = stdin'[i].id
    BY <1>1 DEF MovesHeld
  <2>1. CASE i \in 1 .. Len(stdin)
    <3>1. \/ stdin[i].op \in unsettled
          \/ stdin[i].op \in relinking /\ send[Mover].at = "waiting" /\ send[Mover].id = stdin[i].id
      BY <1>6, <2>1 DEF WindowInv, MoveInv, MovesHeld
    <3>2. send[Mover].at = "waiting" => send'[Mover] = send[Mover]
      BY <1>1, <1>3, TheCallers
    <3> QED
      BY <1>6, <2>1, <3>1, <3>2
  <2>2. CASE i = Len(stdin) + 1
    <3>1. stdin'[i] = line /\ send[c].op \in Windows
      BY <1>5, <1>6, <2>2
    <3>2. c = Mover
      BY <3>1 DEF WindowInv, CallInv, MoverOnly
    <3>3. send[c].op \in relinking
      BY <1>1, <3>1, <3>2 DEF WindowInv, MoveInv, Relinks
    <3> QED
      BY <1>3, <1>4, <1>5, <3>1, <3>2, <3>3
  <2> QED
    BY <1>2, <1>6, <2>1, <2>2
<1>20. ClosesHeld'
  <2>1. \A i \in 1 .. Len(stdout) : Unlinked(i) => Unlinked(i)'
    <3> SUFFICES ASSUME NEW i \in 1 .. Len(stdout), Unlinked(i), NEW j \in 1 .. i
                 PROVE  ~Snapshot(Mover, stdout[j])'
      BY <1>1, <1>10, TheCallers DEF Unlinked
    <3>1. j \in 1 .. Len(stdout)
      BY SendTypes
    <3>2. Snapshot(Mover, stdout[j])' => Snapshot(Mover, stdout[j])
      BY <1>1, <1>14, <3>1, TheCallers DEF NoNewList, Snapshot
    <3> QED
      BY <3>2 DEF Unlinked
  <2> QED
    BY <1>1, <2>1 DEF WindowInv, MoveInv, ClosesHeld
<1> QED
  BY <1>11, <1>12, <1>13, <1>16, <1>17, <1>18, <1>19, <1>20 DEF WindowInv, CallInv, MoveInv

-----------------------------------------------------------------------------
(* Reading the stream.                                                     *)

\* The windows announced closed, as the block at the head is read.
LEMMA ClosesShifted ==
  ASSUME ClosesHeld, stdout \in Seq(Blocks), stdout # <<>>, stdout' = Tail(stdout),
         tmux' = tmux, relinking' = relinking, unsettled' = unsettled,
         Listing(Mover)' => Listing(Mover) /\ send'[Mover].id = send[Mover].id,
         Mover \in Holding' => Mover \in Holding \/ Snapshot(Mover, Head(stdout))
  PROVE  ClosesHeld'
<1>1. /\ Len(stdout') \in Nat /\ Len(stdout) = Len(stdout') + 1
      /\ \A i \in 1 .. Len(stdout') : stdout'[i] = stdout[i + 1]
      /\ Head(stdout) = stdout[1]
  BY HeadTailProperties, LenProperties
<1> SUFFICES ASSUME NEW i \in 1 .. Len(stdout'), stdout'[i].kind = "close"
             PROVE  \/ tmux'[stdout'[i].window] = "closed" \/ stdout'[i].window \in unsettled'
                    \/ Unlinked(i)'
  BY DEF ClosesHeld
<1>2. i + 1 \in 1 .. Len(stdout) /\ stdout'[i] = stdout[i + 1] /\ 1 \in 1 .. i + 1
  BY <1>1
<1>3. CASE Unlinked(i + 1)
  <2>1. Mover \notin Holding'
    BY <1>1, <1>2, <1>3 DEF Unlinked
  <2>2. ASSUME NEW j \in 1 .. i PROVE ~Snapshot(Mover, stdout[j])'
    <3>1. j + 1 \in 1 .. i + 1 /\ stdout'[j] = stdout[j + 1]
      BY <1>1
    <3>2. ~Snapshot(Mover, stdout[j + 1])
      BY <1>3, <3>1 DEF Unlinked
    <3> QED
      BY <3>1, <3>2 DEF Snapshot, IsReply
  <2> QED
    BY <1>2, <1>3, <2>1, <2>2 DEF Unlinked
<1>4. \/ tmux[stdout[i + 1].window] = "closed" \/ stdout[i + 1].window \in unsettled
      \/ Unlinked(i + 1)
  BY <1>2 DEF ClosesHeld
<1> QED
  BY <1>2, <1>3, <1>4

LEMMA SnapshotRead ==
  ASSUME IInv, WindowInv, FeedReply, UNCHANGED others
  PROVE  WindowInv'
<1> DEFINE b == Head(stdout)
           W == Waiting(Head(queue))
<1>0. send' = [c \in Callers |->
                 IF c \in W
                 THEN [send[c] EXCEPT !.at = "answered", !.from = b.id, !.reply = b.data, !.error = b.error]
                 ELSE send[c]]
  BY DEF FeedReply
<1>1. /\ stdout # <<>> /\ IsReply(b) /\ queue' = Tail(queue) /\ stdout' = Tail(stdout)
      /\ stdin' = stdin /\ sent' = sent /\ generation' = generation
      /\ app' = app /\ addedAt' = addedAt /\ tmux' = tmux
      /\ relinking' = relinking /\ overlapped' = overlapped /\ unsettled' = unsettled
  BY DEF FeedReply, others, set, external, witness, IsReply
<1>2. /\ queue # <<>> /\ Head(queue) = First /\ b.id = First /\ b \in Answer /\ First < Past
      /\ b = stdout[1] /\ Told(b) = {pair[1] : pair \in b.data} /\ 1 \in 1 .. Len(stdout)
  <2>1. queue # <<>> /\ Head(queue) = First /\ b.id = First /\ b \in Answer /\ First < Past
    BY <1>1, HeadsMeet
  <2>2. stdout \in Seq(Blocks)
    BY SendTypes
  <2>3. b = stdout[1] /\ 1 \in 1 .. Len(stdout)
    BY <1>1, <2>2, HeadTailProperties, LenProperties
  <2>4. Told(b) = {pair[1] : pair \in b.data}
    BY <1>1 DEF Told
  <2> QED
    BY <2>1, <2>3, <2>4
<1>3. send \in [Callers -> Sends] /\ sent \in Nat /\ First \in Int /\ stdout \in Seq(Blocks)
  BY SendTypes, Bounds
<1>4. First' = First + 1
  <2>1. Len(queue) = Len(queue') + 1 /\ Len(queue') \in Nat
    <3>1. queue \in Seq(Nat)
      BY SendTypes
    <3> QED
      BY <1>1, <1>2, <3>1, HeadTailProperties, LenProperties
  <2>2. First = sent - Len(queue) + 1 /\ First' = sent' - Len(queue') + 1
    BY DEF First
  <2> QED
    BY <1>1, <1>3, <2>1, <2>2
<1>5. \A c \in Callers : /\ c \notin W => send'[c] = send[c]
                         /\ c \in W => /\ send[c].at = "waiting" /\ send'[c].at = "answered" /\ send[c].id = First
                                       /\ send'[c].reply = b.data
                         /\ send'[c].id = send[c].id /\ send'[c].op = send[c].op /\ send'[c].mark = send[c].mark
  BY <1>0, <1>2, <1>3 DEF Waiting, Sends
<1> HIDE DEF W, b
<1>6. \A c \in Callers : /\ Numbered(c)' => Numbered(c)
                         /\ Accepted(c)' => Accepted(c) \/ c \in W
                         /\ send'[c].at = "waiting" => send[c].at = "waiting"
                         /\ Listing(c)' => Listing(c)
  BY <1>5 DEF Numbered, Accepted, Listing
\* Who holds a snapshot held it, or has just read the one it waited for.
<1>7. ASSUME NEW c \in Callers, c \in Holding'
      PROVE  \/ c \in Holding /\ send'[c] = send[c] /\ Named(c)' = Named(c) /\ send[c].id < First
             \/ c \in W /\ Snapshot(c, stdout[1]) /\ send[c].id = First /\ Named(c)' = Told(b)
  <2>1. CASE c \in W
    <3>1. Named(c)' = Told(b)
      BY <1>2, <1>5, <2>1 DEF Named
    <3>2. send[c].op = "list"
      BY <1>5, <1>7 DEF Holding
    <3> QED
      BY <1>1, <1>2, <1>5, <2>1, <3>1, <3>2 DEF Snapshot, Listing
  <2>2. CASE c \notin W
    <3>1. send'[c] = send[c] /\ c \in Holding /\ Named(c)' = Named(c)
      BY <1>5, <1>7, <2>2 DEF Holding, Named
    <3>2. Accepted(c)
      BY <3>1 DEF Accepted, Holding
    <3> QED
      BY <3>1, <3>2 DEF WindowInv, CallInv, NumbersApart
  <2> QED
    BY <2>1, <2>2
<1>8. NumbersApart'
  <2>1. \A c \in Callers : Numbered(c)' => send'[c].id <= sent'
    BY <1>1, <1>5, <1>6 DEF WindowInv, CallInv, NumbersApart
  <2>2. \A c \in Callers : Accepted(c)' => send'[c].id < First'
    <3>1. \A c \in Callers : Accepted(c) => send[c].id < First
      BY DEF WindowInv, CallInv, NumbersApart
    <3>2. \A c \in Callers : send[c].id \in Nat
      BY SendTypes
    <3> QED
      BY <1>3, <1>4, <1>5, <1>6, <3>1, <3>2
  <2>3. \A c, d \in Callers : Numbered(c)' /\ Numbered(d)' /\ send'[c].id = send'[d].id => c = d
    BY <1>5, <1>6 DEF WindowInv, CallInv, NumbersApart
  <2> QED
    BY <2>1, <2>2, <2>3 DEF NumbersApart
<1>9. Marks' /\ MoverOnly'
  BY <1>1, <1>5 DEF WindowInv, CallInv, Marks, MoverOnly
<1>10. OneOp'
  <2>1. OneOp
    BY DEF WindowInv, CallInv
  <2> QED
    BY <1>1, <1>5, <1>6, <2>1 DEF OneOp
<1>11. Live' = Live /\ Live \subseteq Windows /\ Shown' = Shown /\ Holding' \subseteq Callers
  BY <1>1 DEF Live, Shown, Holding
<1>12. Born' /\ Complete'
  <2>1. \A w \in Windows : Known(w)' => Known(w) \/ w \in Told(Head(stdout))
    BY <1>7, <1>11 DEF Known, b
  <2> QED
    BY <1>1, <1>3, <1>5, <1>6, <2>1, TellShifted DEF WindowInv, TellInv
\* A snapshot just read holds all that the client has been told of.
<1>13. ASSUME NEW c \in Callers, Snapshot(c, stdout[1]), NEW w \in Live, Known(w)
       PROVE  w \in Told(b)
  <2>1. KnownBefore(w, 1)
    BY <1>13 DEF KnownBefore
  <2> QED
    BY <1>2, <1>13, <2>1 DEF WindowInv, TellInv, Complete
<1>14. Fresher'
  <2> SUFFICES ASSUME NEW c \in Callers, c \in Holding', NEW d \in Callers, d \in Holding',
                      send'[d].id < send'[c].id, NEW w \in Live, w \in Named(d)'
               PROVE  w \in Named(c)'
    BY <1>11 DEF Fresher
  <2>1. d \in Holding /\ Named(d)' = Named(d)
    <3>1. send[c].id \in Nat /\ send[d].id \in Nat /\ send[d].id < send[c].id
      BY <1>5, SendTypes
    <3> QED
      BY <1>3, <1>7, <3>1
  <2>2. CASE c \in Holding /\ Named(c)' = Named(c)
    BY <1>5, <2>1, <2>2 DEF WindowInv, TellInv, Fresher
  <2>3. CASE Snapshot(c, stdout[1]) /\ Named(c)' = Told(b)
    <3>1. Known(w)
      BY <2>1 DEF Known
    <3> QED
      BY <1>13, <2>3, <3>1
  <2> QED
    BY <1>7, <2>2, <2>3
<1>15. Guarded'
  <2> SUFFICES ASSUME NEW c \in Callers, c \in Holding', NEW w \in Live, w \in Shown
               PROVE  w \in Named(c)' \/ w \in Excused' \/ TooNew(c, w)'
    BY <1>11 DEF Guarded
  <2>1. CASE c \in Holding /\ Named(c)' = Named(c)
    <3>1. w \in Named(c) \/ w \in Excused \/ TooNew(c, w)
      BY <2>1 DEF WindowInv, TellInv, Guarded
    <3>2. Excused' = Excused /\ (TooNew(c, w) => TooNew(c, w)')
      BY <1>1, <1>5 DEF Excused, TooNew
    <3> QED
      BY <2>1, <3>1, <3>2
  <2>2. CASE Snapshot(c, stdout[1]) /\ Named(c)' = Told(b)
    <3>1. Known(w)
      BY DEF Known
    <3> QED
      BY <1>13, <2>2, <3>1
  <2> QED
    BY <1>7, <2>1, <2>2
<1>16. TabTypes'
  BY <1>1 DEF WindowInv, TabTypes
<1>17. Relinks'
  <2>1. send'[Mover].at = "idle" <=> send[Mover].at = "idle"
    BY <1>5, TheCallers
  <2> QED
    BY <1>1, <1>5, <2>1, TheCallers DEF WindowInv, MoveInv, Relinks
<1>18. MovesHeld'
  <2> SUFFICES ASSUME NEW i \in 1 .. Len(stdin), stdin[i].op \in Windows, stdin[i].op \notin unsettled
               PROVE  stdin[i].op \in relinking /\ send'[Mover].at = "waiting" /\ send'[Mover].id = stdin[i].id
    BY <1>1 DEF MovesHeld
  <2>1. stdin[i].op \in relinking /\ send[Mover].at = "waiting" /\ send[Mover].id = stdin[i].id
    BY DEF WindowInv, MoveInv, MovesHeld
  <2>2. stdin[i].id = Past + i - 1 /\ Past \in Int /\ i \in Nat /\ i >= 1
    BY SendTypes DEF IInv, LinesInOrder
  <2>3. Mover \notin W
    BY <1>2, <1>3, <1>5, <2>1, <2>2, TheCallers
  <2> QED
    BY <1>5, <2>1, <2>3, TheCallers
<1>19. ClosesHeld'
  <2>1. Mover \in Holding' => Mover \in Holding \/ Snapshot(Mover, Head(stdout))
    BY <1>2, <1>7, TheCallers DEF b
  <2>2. Listing(Mover)' => Listing(Mover) /\ send'[Mover].id = send[Mover].id
    BY <1>5, <1>6, TheCallers
  <2> QED
    BY <1>1, <1>3, <2>1, <2>2, ClosesShifted DEF WindowInv, MoveInv
<1> QED
  BY <1>8, <1>9, <1>10, <1>12, <1>14, <1>15, <1>16, <1>17, <1>18, <1>19
  DEF WindowInv, CallInv, TellInv, MoveInv

LEMMA ServerBlockRead ==
  ASSUME IInv, WindowInv, FeedServer, UNCHANGED others
  PROVE  WindowInv'
<1>1. /\ stdout # <<>> /\ Head(stdout).kind = "server" /\ stdout' = Tail(stdout)
      /\ queue' = queue /\ stdin' = stdin /\ sent' = sent /\ send' = send /\ generation' = generation
      /\ app' = app /\ addedAt' = addedAt /\ tmux' = tmux
      /\ relinking' = relinking /\ overlapped' = overlapped /\ unsettled' = unsettled
  BY DEF FeedServer, others, set, external, witness
<1>2. stdout \in Seq(Blocks) /\ First' = First
  BY <1>1, SendTypes DEF First
<1>3. /\ Live' = Live /\ Shown' = Shown /\ Holding' = Holding /\ Excused' = Excused
      /\ \A c \in Callers : /\ Named(c)' = Named(c)
                            /\ Numbered(c)' <=> Numbered(c)
                            /\ Accepted(c)' <=> Accepted(c)
                            /\ Listing(c)' <=> Listing(c)
                            /\ \A w \in Windows : TooNew(c, w)' <=> TooNew(c, w)
  BY <1>1 DEF Live, Shown, Holding, Excused, Named, Numbered, Accepted, Listing, TooNew
<1>4. Holding \subseteq Callers /\ Live \subseteq Windows
  BY DEF Holding, Live
<1>5. CallInv'
  <2>1. NumbersApart'
    BY <1>1, <1>2, <1>3 DEF WindowInv, CallInv, NumbersApart
  <2>2. Marks' /\ OneOp' /\ MoverOnly'
    BY <1>1 DEF WindowInv, CallInv, Marks, OneOp, MoverOnly
  <2> QED
    BY <2>1, <2>2 DEF CallInv
<1>6. Born' /\ Complete'
  <2>1. \A w \in Windows : Known(w)' => Known(w)
    BY <1>3, <1>4 DEF Known
  <2> QED
    BY <1>1, <1>2, <1>3, <2>1, TellShifted DEF WindowInv, TellInv
<1>7. Fresher' /\ Guarded'
  BY <1>1, <1>3, <1>4 DEF WindowInv, TellInv, Fresher, Guarded
<1>8. Relinks' /\ MovesHeld' /\ TabTypes'
  BY <1>1 DEF WindowInv, MoveInv, Relinks, MovesHeld, TabTypes
<1>9. ClosesHeld'
  BY <1>1, <1>2, <1>3, ClosesShifted, TheCallers DEF WindowInv, MoveInv
<1> QED
  BY <1>5, <1>6, <1>7, <1>8, <1>9 DEF WindowInv, TellInv, MoveInv

\* What a notification does to the set: it shows its own window at most, and
\* counts it as new.
LEMMA Folded ==
  ASSUME IInv, TabTypes, NEW note \in Notice, Fold(note)
  PROVE  /\ app' \in [Windows -> Names \cup {"unnamed", "absent"}] /\ addedAt' \in [Windows -> Nat]
         /\ generation' >= generation
         /\ \A w \in Windows : app'[w] # "absent" =>
              \/ w \in Shown /\ addedAt'[w] = addedAt[w]
              \/ w = note.window /\ addedAt'[w] = generation + 1
         /\ \A w \in Windows : w \in Shown /\ app'[w] = "absent" =>
              note.kind = "close" /\ w = note.window /\ w \notin relinking
<1>1. note.window \in Windows /\ note.name \in Names /\ note.kind \in {"add", "close", "renamed"}
  BY DEF Notice
<1>2. generation \in Nat /\ generation + 1 \in Nat /\ generation + 1 >= generation
  BY SendTypes
<1>3. app \in [Windows -> Names \cup {"unnamed", "absent"}] /\ addedAt \in [Windows -> Nat]
  BY DEF TabTypes
<1>4. CASE note.kind = "add"
  <2>1. CASE note.window \in Shown
    <3>1. app' = app /\ addedAt' = addedAt /\ generation' = generation
      BY <1>4, <2>1 DEF Fold, set
    <3> QED
      BY <1>2, <1>3, <3>1 DEF Shown
  <2>2. CASE note.window \notin Shown
    <3>1. /\ generation' = generation + 1
          /\ addedAt' = [addedAt EXCEPT ![note.window] = generation + 1]
          /\ app' = [app EXCEPT ![note.window] = "unnamed"]
      BY <1>4, <2>2 DEF Fold
    <3> QED
      BY <1>1, <1>2, <1>3, <2>2, <3>1 DEF Shown
  <2> QED
    BY <2>1, <2>2
<1>5. CASE note.kind = "close"
  <2>1. /\ generation' = generation
        /\ addedAt' = IF note.window \in relinking THEN addedAt ELSE [addedAt EXCEPT ![note.window] = 0]
        /\ app' = IF note.window \in relinking THEN app ELSE [app EXCEPT ![note.window] = "absent"]
    BY <1>5 DEF Fold, RelinkHeld
  <2> QED
    BY <1>1, <1>2, <1>3, <1>5, <2>1 DEF Shown
<1>6. CASE note.kind = "renamed"
  <2>1. /\ generation' = generation /\ addedAt' = addedAt
        /\ app' = IF note.window \in Shown THEN [app EXCEPT ![note.window] = note.name] ELSE app
    BY <1>6 DEF Fold
  <2>2. note.name # "absent"
    BY <1>1, WindowsAssumption
  <2> QED
    BY <1>1, <1>2, <1>3, <2>1, <2>2 DEF Shown
<1> QED
  BY <1>1, <1>4, <1>5, <1>6

LEMMA NoteRead ==
  ASSUME IInv, WindowInv, FeedNote
  PROVE  WindowInv'
<1> DEFINE note == Head(stdout)
<1>1. /\ stdout # <<>> /\ note.kind \in {"add", "close", "renamed"} /\ Fold(note) /\ stdout' = Tail(stdout)
      /\ queue' = queue /\ stdin' = stdin /\ sent' = sent /\ send' = send /\ tmux' = tmux
      /\ relinking' = relinking /\ overlapped' = overlapped /\ unsettled' = unsettled
  BY DEF FeedNote, external
<1>2. stdout \in Seq(Blocks) /\ First' = First /\ generation \in Nat
  BY <1>1, SendTypes DEF First
<1>3. note \in Notice /\ Told(note) = {note.window}
  <2>1. note \in Blocks
    BY <1>1, <1>2, HeadTailProperties
  <2>2. ~IsReply(note) /\ note.kind # "server" /\ note \in Notice
    BY <1>1, <2>1, BlockTypes
  <2> QED
    BY <2>2 DEF Told
<1>4. /\ app' \in [Windows -> Names \cup {"unnamed", "absent"}] /\ addedAt' \in [Windows -> Nat]
      /\ generation' >= generation /\ generation' \in Nat
      /\ \A w \in Windows : w \in Shown' =>
           \/ w \in Shown /\ addedAt'[w] = addedAt[w]
           \/ w = note.window /\ addedAt'[w] = generation + 1
  <2>1. generation' \in Nat
    BY <1>1, GenerationGrows
  <2> QED
    BY <1>1, <1>3, <2>1, Folded DEF WindowInv, Shown
<1> HIDE DEF note
<1>5. /\ Live' = Live /\ Holding' = Holding /\ Excused' = Excused
      /\ \A c \in Callers : /\ Named(c)' = Named(c)
                            /\ Numbered(c)' <=> Numbered(c)
                            /\ Accepted(c)' <=> Accepted(c)
                            /\ Listing(c)' <=> Listing(c)
  BY <1>1 DEF Live, Holding, Excused, Named, Numbered, Accepted, Listing
<1>6. Holding \subseteq Callers /\ Live \subseteq Windows /\ Shown' \subseteq Windows
  BY DEF Holding, Live, Shown
<1>7. CallInv'
  <2>1. NumbersApart'
    BY <1>1, <1>2, <1>5 DEF WindowInv, CallInv, NumbersApart
  <2>2. OneOp' /\ MoverOnly'
    BY <1>1 DEF WindowInv, CallInv, OneOp, MoverOnly
  <2>3. Marks'
    <3>1. \A c \in Callers : send[c].mark \in Nat /\ send[c].mark <= generation
      BY SendTypes DEF WindowInv, CallInv, Marks
    <3> QED
      BY <1>1, <1>2, <1>4, <3>1 DEF Marks
  <2> QED
    BY <2>1, <2>2, <2>3 DEF CallInv
<1>8. Born' /\ Complete'
  <2>1. \A w \in Windows : Known(w)' => Known(w) \/ w \in Told(Head(stdout))
    BY <1>3, <1>4, <1>5, <1>6 DEF Known, note
  <2> QED
    BY <1>1, <1>2, <1>5, <2>1, TellShifted DEF WindowInv, TellInv
<1>9. Fresher'
  BY <1>1, <1>5, <1>6 DEF WindowInv, TellInv, Fresher
<1>10. Guarded'
  <2> SUFFICES ASSUME NEW c \in Holding, NEW w \in Live, w \in Shown'
               PROVE  w \in Named(c) \/ w \in Excused \/ TooNew(c, w)'
    BY <1>5, <1>6 DEF Guarded
  <2>1. c \in Callers /\ w \in Windows /\ send'[c].mark = send[c].mark
    BY <1>1, <1>6
  <2>2. CASE w \in Shown /\ addedAt'[w] = addedAt[w]
    <3>1. w \in Named(c) \/ w \in Excused \/ TooNew(c, w)
      BY <2>2 DEF WindowInv, TellInv, Guarded
    <3> QED
      BY <2>1, <2>2, <3>1 DEF TooNew
  <2>3. CASE addedAt'[w] = generation + 1
    <3>1. send[c].mark \in Nat /\ send[c].mark <= generation
      BY <2>1, SendTypes DEF WindowInv, CallInv, Marks
    <3> QED
      BY <1>2, <2>1, <2>3, <3>1 DEF TooNew
  <2> QED
    BY <1>4, <2>1, <2>2, <2>3
<1>11. Relinks' /\ MovesHeld' /\ TabTypes'
  BY <1>1, <1>4 DEF WindowInv, MoveInv, Relinks, MovesHeld, TabTypes
<1>12. ClosesHeld'
  BY <1>1, <1>2, <1>5, ClosesShifted, TheCallers DEF WindowInv, MoveInv
<1> QED
  BY <1>7, <1>8, <1>9, <1>10, <1>11, <1>12 DEF WindowInv, TellInv, MoveInv

\* The stream is over: nothing is on its way, and every caller has an error.
LEMMA StreamOver ==
  ASSUME IInv, WindowInv, Fail, generation' = generation, app' = app, addedAt' = addedAt, tmux' = tmux,
         relinking' = relinking, overlapped' = overlapped, unsettled' = unsettled
  PROVE  WindowInv'
<1>1. /\ stdin' = <<>> /\ stdout' = <<>> /\ sent' = sent
      /\ Len(stdin') = 0 /\ Len(stdout') = 0
  BY DEF Fail
<1>2. send \in [Callers -> Sends]
  BY SendTypes
<1>3. \A c \in Callers : /\ send'[c].at = "idle" /\ send'[c].mark = 0 /\ send'[c].op = "none" /\ send[c].at = "idle"
                         \/ /\ send'[c].at = "answered" /\ send'[c].error /\ send[c].at # "idle"
                            /\ send'[c].mark = send[c].mark /\ send'[c].op = send[c].op
  BY <1>2 DEF Fail, NoSend, Sends
<1>4. \A c \in Callers : ~Numbered(c)' /\ ~Accepted(c)' /\ ~Listing(c)' /\ send'[c].at # "waiting" /\ c \notin Holding'
  BY <1>3 DEF Numbered, Accepted, Listing, Holding
<1>5. CallInv'
  <2>1. NumbersApart' /\ OneOp'
    BY <1>4 DEF NumbersApart, OneOp
  <2>2. Marks'
    <3>1. \A c \in Callers : send[c].mark \in Nat /\ send[c].mark <= generation
      BY SendTypes DEF WindowInv, CallInv, Marks
    <3>2. generation \in Nat
      BY SendTypes
    <3> QED
      BY <1>3, <3>1, <3>2 DEF Marks
  <2>3. MoverOnly'
    BY <1>3, WindowsAssumption DEF WindowInv, CallInv, MoverOnly
  <2> QED
    BY <2>1, <2>2, <2>3 DEF CallInv
<1>6. Holding' = {} /\ Shown' = Shown /\ Shown \subseteq Windows
  BY <1>4 DEF Holding, Shown
<1>7. Born'
  <2> SUFFICES ASSUME NEW w \in Windows, NEW n, n = Len(stdout'), KnownBefore(w, n + 1)'
               PROVE  tmux[w] # "unborn"
    BY DEF Born, KnownBefore
  <2>1. w \in Shown
    BY <1>1, <1>6 DEF KnownBefore, Known
  <2>2. KnownBefore(w, Len(stdout) + 1)
    BY <2>1 DEF KnownBefore, Known
  <2> QED
    BY <2>2 DEF WindowInv, TellInv, Born
<1>8. Complete' /\ Fresher' /\ Guarded'
  BY <1>1, <1>6 DEF Complete, Fresher, Guarded
<1>9. MovesHeld' /\ ClosesHeld'
  BY <1>1 DEF MovesHeld, ClosesHeld
<1>10. Relinks'
  <2>1. /\ send'[Mover].at = "idle" <=> send[Mover].at = "idle"
        /\ send'[Mover].at # "idle" => send'[Mover].op = send[Mover].op
    BY <1>3, TheCallers
  <2> QED
    BY <2>1 DEF WindowInv, MoveInv, Relinks
<1>11. TabTypes'
  BY DEF WindowInv, TabTypes
<1> QED
  BY <1>5, <1>7, <1>8, <1>9, <1>10, <1>11 DEF WindowInv, TellInv, MoveInv

-----------------------------------------------------------------------------
(* tmux.                                                                   *)

LEMMA ClosesAppended ==
  ASSUME ClosesHeld, send' = send, relinking' = relinking, unsettled' = unsettled,
         stdout \in Seq(Blocks), stdout' \in Seq(Blocks), Len(stdout) <= Len(stdout'),
         \A i \in 1 .. Len(stdout) : stdout'[i] = stdout[i],
         \A w \in Windows : tmux[w] = "closed" => tmux'[w] = "closed",
         \A i \in Len(stdout) + 1 .. Len(stdout') : stdout'[i].kind = "close" =>
             tmux'[stdout'[i].window] = "closed" \/ stdout'[i].window \in unsettled \/ Unlinked(i)'
  PROVE  ClosesHeld'
<1>0. Len(stdout) \in Nat /\ Len(stdout') \in Nat
  BY LenProperties
<1> SUFFICES ASSUME NEW i \in 1 .. Len(stdout'), stdout'[i].kind = "close"
             PROVE  tmux'[stdout'[i].window] = "closed" \/ stdout'[i].window \in unsettled' \/ Unlinked(i)'
  BY DEF ClosesHeld
<1>1. CASE i \in 1 .. Len(stdout)
  <2>1. stdout'[i] = stdout[i] /\ stdout[i] \in Blocks
    BY <1>1
  <2>2. stdout[i].window \in Windows
    BY <2>1, BlockTypes
  <2>3. CASE Unlinked(i)
    <3>1. \A j \in 1 .. i : j \in 1 .. Len(stdout)
      BY <1>0, <1>1
    <3>2. \A j \in 1 .. i : ~Snapshot(Mover, stdout[j])'
      BY <2>3, <3>1 DEF Unlinked, Snapshot, Listing, IsReply
    <3> QED
      BY <2>1, <2>3, <3>2 DEF Unlinked, Holding
  <2>4. tmux[stdout[i].window] = "closed" \/ stdout[i].window \in unsettled \/ Unlinked(i)
    BY <1>1, <2>1 DEF ClosesHeld
  <2> QED
    BY <2>1, <2>2, <2>3, <2>4
<1>2. CASE i \in Len(stdout) + 1 .. Len(stdout')
  BY <1>2
<1> QED
  BY <1>0, <1>1, <1>2

\* One block more.
LEMMA BlockAppended ==
  ASSUME stdout \in Seq(Blocks), NEW b \in Blocks, stdout' = stdout \o <<b>>
  PROVE  /\ stdout' \in Seq(Blocks) /\ Len(stdout) <= Len(stdout')
         /\ \A i \in 1 .. Len(stdout) : stdout'[i] = stdout[i]
         /\ \A i \in Len(stdout) + 1 .. Len(stdout') : stdout'[i] = b
<1>1. <<b>> \in Seq(Blocks) /\ Len(<<b>>) = 1 /\ <<b>>[1] = b
  OBVIOUS
<1>2. /\ stdout' \in Seq(Blocks) /\ Len(stdout) \in Nat /\ Len(stdout') = Len(stdout) + 1
      /\ \A i \in 1 .. Len(stdout) : stdout'[i] = stdout[i]
      /\ stdout'[Len(stdout) + 1] = b
  BY <1>1, ConcatProperties, LenProperties
<1> QED
  BY <1>2

\* Nothing about the callers and the tabs changes.
LEMMA CallsKept ==
  ASSUME WindowInv, send' = send, sent' = sent, queue' = queue, stdin' = stdin, generation' = generation,
         relinking' = relinking, unsettled' = unsettled
  PROVE  CallInv' /\ Relinks' /\ MovesHeld'
<1>1. First' = First
  BY DEF First
<1>2. \A c \in Callers : /\ Numbered(c)' <=> Numbered(c)
                         /\ Accepted(c)' <=> Accepted(c)
  BY DEF Numbered, Accepted
<1>3. NumbersApart'
  BY <1>1, <1>2 DEF WindowInv, CallInv, NumbersApart
<1>4. Marks' /\ OneOp' /\ MoverOnly'
  BY DEF WindowInv, CallInv, Marks, OneOp, MoverOnly
<1>5. Relinks' /\ MovesHeld'
  BY DEF WindowInv, MoveInv, Relinks, MovesHeld
<1> QED
  BY <1>3, <1>4, <1>5 DEF CallInv

LEMMA WindowChanged ==
  ASSUME IInv, WindowInv, NEW w \in Windows, NEW state \in Names \cup {"closed"}, NEW b \in Notice,
         tmux[w] \in Names \cup {"unborn"}, tmux[w] = "unborn" => state \in Names,
         b.window = w, b.kind = "close" => state = "closed", Change(w, state, b)
  PROVE  WindowInv'
<1>1. /\ tmux' = [tmux EXCEPT ![w] = state] /\ stdout' = stdout \o <<b>>
      /\ queue' = queue /\ stdin' = stdin /\ sent' = sent /\ send' = send /\ generation' = generation
      /\ app' = app /\ addedAt' = addedAt
      /\ relinking' = relinking /\ overlapped' = overlapped /\ unsettled' = unsettled
  BY DEF Change, set, witness
<1>2. tmux \in [Windows -> Names \cup {"unborn", "closed"}] /\ stdout \in Seq(Blocks)
  BY SendTypes DEF WindowInv, TabTypes
<1>3. b \in Blocks /\ ~IsReply(b) /\ Told(b) = {w}
  <2>1. b.kind \in {"add", "close", "renamed"} /\ b \in Blocks
    BY DEF Notice, Blocks
  <2> QED
    BY <2>1 DEF IsReply, Told
<1>4. /\ stdout' \in Seq(Blocks) /\ Len(stdout) <= Len(stdout')
      /\ \A i \in 1 .. Len(stdout) : stdout'[i] = stdout[i]
      /\ \A i \in Len(stdout) + 1 .. Len(stdout') : stdout'[i] = b
  BY <1>1, <1>2, <1>3, BlockAppended
<1>5. state # "unborn" /\ tmux[w] # "closed"
  BY WindowsAssumption
<1>6. tmux'[w] = state /\ \A v \in Windows : v # w => tmux'[v] = tmux[v]
  BY <1>1, <1>2
<1>7. TellInv'
  <2>1. \A v \in Windows : tmux[v] # "unborn" => tmux'[v] # "unborn" /\ (v \in Live' => v \in Live)
    <3> SUFFICES ASSUME NEW v \in Windows, tmux[v] # "unborn"
                 PROVE  tmux'[v] # "unborn" /\ (tmux'[v] \in Names => tmux[v] \in Names)
      BY DEF Live
    <3> QED
      BY <1>5, <1>6
  <2>2. \A i \in Len(stdout) + 1 .. Len(stdout') :
             /\ \A v \in Told(stdout'[i]) : tmux'[v] # "unborn"
             /\ \A c \in Callers : Snapshot(c, stdout'[i]) => Live' \subseteq Told(stdout'[i])
    BY <1>3, <1>4, <1>5, <1>6 DEF Snapshot
  <2>3. TellInv
    BY DEF WindowInv
  <2> QED
    BY <1>1, <1>2, <1>4, <2>1, <2>2, <2>3, TellAppended
<1>8. ClosesHeld'
  <2>1. \A v \in Windows : tmux[v] = "closed" => tmux'[v] = "closed"
    BY <1>5, <1>6
  <2>2. \A i \in Len(stdout) + 1 .. Len(stdout') : stdout'[i].kind = "close" => tmux'[stdout'[i].window] = "closed"
    BY <1>4, <1>6
  <2> QED
    BY <1>1, <1>2, <1>4, <2>1, <2>2, ClosesAppended DEF WindowInv, MoveInv
<1>9. CallInv' /\ Relinks' /\ MovesHeld'
  BY <1>1, CallsKept
<1>10. TabTypes'
  BY <1>1, <1>2 DEF WindowInv, TabTypes
<1> QED
  BY <1>7, <1>8, <1>9, <1>10 DEF WindowInv, MoveInv

LEMMA ServerSpoke ==
  ASSUME IInv, WindowInv, TmuxServerBlock
  PROVE  WindowInv'
<1>1. /\ stdout' = stdout \o <<ServerBlock>> /\ tmux' = tmux
      /\ queue' = queue /\ stdin' = stdin /\ sent' = sent /\ send' = send /\ generation' = generation
      /\ app' = app /\ addedAt' = addedAt
      /\ relinking' = relinking /\ overlapped' = overlapped /\ unsettled' = unsettled
  BY DEF TmuxServerBlock, set, external, witness
<1>2. /\ ServerBlock \in Blocks /\ ~IsReply(ServerBlock) /\ Told(ServerBlock) = {}
      /\ ServerBlock.kind # "close" /\ stdout \in Seq(Blocks)
  BY SendTypes DEF ServerBlock, Blocks, IsReply, Told
<1>3. /\ stdout' \in Seq(Blocks) /\ Len(stdout) <= Len(stdout')
      /\ \A i \in 1 .. Len(stdout) : stdout'[i] = stdout[i]
      /\ \A i \in Len(stdout) + 1 .. Len(stdout') : stdout'[i] = ServerBlock
  BY <1>1, <1>2, BlockAppended
<1>4. TellInv'
  <2>1. \A w \in Windows : tmux[w] # "unborn" => tmux'[w] # "unborn" /\ (w \in Live' => w \in Live)
    BY <1>1 DEF Live
  <2>2. \A i \in Len(stdout) + 1 .. Len(stdout') :
             /\ \A w \in Told(stdout'[i]) : tmux'[w] # "unborn"
             /\ \A c \in Callers : Snapshot(c, stdout'[i]) => Live' \subseteq Told(stdout'[i])
    BY <1>2, <1>3 DEF Snapshot
  <2> QED
    BY <1>1, <1>2, <1>3, <2>1, <2>2, TellAppended DEF WindowInv
<1>5. ClosesHeld'
  <2>1. \A i \in Len(stdout) + 1 .. Len(stdout') : stdout'[i].kind # "close"
    BY <1>2, <1>3
  <2> QED
    BY <1>1, <1>2, <1>3, <2>1, ClosesAppended DEF WindowInv, MoveInv
<1>6. CallInv' /\ Relinks' /\ MovesHeld'
  BY <1>1, CallsKept
<1>7. TabTypes'
  BY <1>1 DEF WindowInv, TabTypes
<1> QED
  BY <1>4, <1>5, <1>6, <1>7 DEF WindowInv, MoveInv

\* What a command makes tmux say: the list of its windows, an answer without
\* rows, or the close of the window the command names.
Lists(b, command)   == /\ IsReply(b) /\ b.id = command.id /\ command.op = "list"
                       /\ b.data = {<<w, tmux[w]>> : w \in Live} /\ ~b.error
Answers(b, command) == IsReply(b) /\ b.id = command.id /\ command.op # "list" /\ b.data = {}
Unlinks(b, command) == /\ b.kind = "close" /\ b.window = command.op
                       /\ command.op \in Live /\ command.op \in Windows

LEMMA Executing ==
  ASSUME IInv, NEW command \in Command, NEW out \in Executed(command)
  PROVE  /\ out \in Seq(Blocks) /\ Len(out) \in Nat
         /\ \A i \in 1 .. Len(out) :
              Lists(out[i], command) \/ Answers(out[i], command) \/ Unlinks(out[i], command)
<1>1. ASSUME NEW data \in Rows, NEW error \in BOOLEAN
      PROVE  /\ Reply(command, data, error) \in Blocks /\ IsReply(Reply(command, data, error))
             /\ Reply(command, data, error).id = command.id /\ Reply(command, data, error).data = data
             /\ Reply(command, data, error).error = error
  BY DEF Reply, Blocks, Answer, Command, IsReply
<1>2. {} \in Rows /\ {<<w, tmux[w]>> : w \in Live} \in Rows
  BY DEF Rows, Live
<1>3. ASSUME NEW b \in Blocks, out = <<b>>, Lists(b, command) \/ Answers(b, command)
      PROVE  /\ out \in Seq(Blocks) /\ Len(out) \in Nat
             /\ \A i \in 1 .. Len(out) : Lists(out[i], command) \/ Answers(out[i], command)
  BY <1>3
<1>4. CASE command.op = "list"
  <2> DEFINE b == Reply(command, {<<w, tmux[w]>> : w \in Live}, FALSE)
  <2>1. b \in Blocks /\ Lists(b, command)
    BY <1>1, <1>2, <1>4 DEF Lists
  <2>2. out = <<b>>
    BY <1>4 DEF Executed
  <2> HIDE DEF b
  <2> QED
    BY <1>3, <2>1, <2>2
<1>5. CASE command.op # "list" /\ (command.op = "renumber" \/ command.op \notin Live)
  <2>1. PICK error \in BOOLEAN : out = <<Reply(command, {}, error)>>
    BY <1>5 DEF Executed
  <2> DEFINE b == Reply(command, {}, error)
  <2>2. b \in Blocks /\ Answers(b, command)
    BY <1>1, <1>2, <1>5 DEF Answers
  <2>3. out = <<b>>
    BY <2>1
  <2> HIDE DEF b
  <2> QED
    BY <1>3, <2>2, <2>3
<1>6. CASE command.op # "list" /\ command.op # "renumber" /\ command.op \in Live
  <2> DEFINE unlink == Note("close", command.op, tmux[command.op])
             answer == Reply(command, {}, FALSE)
  <2>1. out = <<unlink, answer>> \/ out = <<answer, unlink>>
    BY <1>6 DEF Executed
  <2>2. answer \in Blocks /\ Answers(answer, command)
    BY <1>1, <1>2, <1>6 DEF Answers
  <2>3. unlink \in Blocks /\ Unlinks(unlink, command)
    <3>1. command.op \in Windows /\ tmux[command.op] \in Names
      BY <1>6 DEF Live
    <3>2. unlink.kind = "close" /\ unlink.window = command.op
      BY DEF Note
    <3> QED
      BY <1>6, <3>1, <3>2, Notes DEF Unlinks
  <2> HIDE DEF unlink, answer
  <2>4. ASSUME NEW a \in Blocks, NEW b \in Blocks
        PROVE  <<a, b>> \in Seq(Blocks) /\ Len(<<a, b>>) = 2 /\ <<a, b>>[1] = a /\ <<a, b>>[2] = b
    OBVIOUS
  <2>5. CASE out = <<unlink, answer>>
    <3>1. out \in Seq(Blocks) /\ Len(out) = 2 /\ out[1] = unlink /\ out[2] = answer
      BY <2>2, <2>3, <2>4, <2>5
    <3>2. \A i \in 1 .. Len(out) : i = 1 \/ i = 2
      BY <3>1
    <3> QED
      BY <2>2, <2>3, <3>1, <3>2
  <2>6. CASE out = <<answer, unlink>>
    <3>1. out \in Seq(Blocks) /\ Len(out) = 2 /\ out[1] = answer /\ out[2] = unlink
      BY <2>2, <2>3, <2>4, <2>6
    <3>2. \A i \in 1 .. Len(out) : i = 1 \/ i = 2
      BY <3>1
    <3> QED
      BY <2>2, <2>3, <3>1, <3>2
  <2> QED
    BY <2>1, <2>5, <2>6
<1> QED
  BY <1>4, <1>5, <1>6

\* The stream with what a command makes tmux say behind it.
LEMMA OutputAppended ==
  ASSUME IInv, NEW command \in Command, NEW out \in Executed(command), stdout' = stdout \o out
  PROVE  /\ stdout' \in Seq(Blocks) /\ Len(stdout) <= Len(stdout') /\ stdout \in Seq(Blocks)
         /\ \A i \in 1 .. Len(stdout) : stdout'[i] = stdout[i]
         /\ \A i \in Len(stdout) + 1 .. Len(stdout') :
              \/ Lists(stdout'[i], command)
              \/ Answers(stdout'[i], command)
              \/ Unlinks(stdout'[i], command)
<1>1. /\ out \in Seq(Blocks) /\ Len(out) \in Nat
      /\ \A i \in 1 .. Len(out) :
            Lists(out[i], command) \/ Answers(out[i], command) \/ Unlinks(out[i], command)
  BY Executing
<1>2. stdout \in Seq(Blocks) /\ Len(stdout) \in Nat
  BY SendTypes
<1>3. /\ stdout' \in Seq(Blocks) /\ Len(stdout') = Len(stdout) + Len(out)
      /\ \A i \in 1 .. Len(stdout) + Len(out) :
           stdout'[i] = IF i <= Len(stdout) THEN stdout[i] ELSE out[i - Len(stdout)]
  BY <1>1, <1>2, ConcatProperties
<1>4. \A i \in 1 .. Len(stdout) : stdout'[i] = stdout[i]
  BY <1>1, <1>2, <1>3
<1>5. \A i \in Len(stdout) + 1 .. Len(stdout') : i - Len(stdout) \in 1 .. Len(out) /\ stdout'[i] = out[i - Len(stdout)]
  BY <1>1, <1>2, <1>3
<1> QED
  BY <1>1, <1>2, <1>3, <1>4, <1>5

LEMMA CommandExecuted ==
  ASSUME IInv, WindowInv, TmuxExecutes
  PROVE  WindowInv'
<1> DEFINE command == Head(stdin)
<1>1. /\ stdin # <<>> /\ stdin' = Tail(stdin) /\ tmux' = tmux
      /\ queue' = queue /\ sent' = sent /\ send' = send /\ generation' = generation
      /\ app' = app /\ addedAt' = addedAt
      /\ relinking' = relinking /\ overlapped' = overlapped /\ unsettled' = unsettled
  BY DEF TmuxExecutes, set, external, witness
<1>2. PICK out \in Executed(command) : stdout' = stdout \o out
  BY DEF TmuxExecutes
<1>3. /\ command \in Command /\ command = stdin[1] /\ 1 \in 1 .. Len(stdin)
      /\ Len(stdin') \in Nat /\ Len(stdin) = Len(stdin') + 1
      /\ \A i \in 1 .. Len(stdin') : stdin'[i] = stdin[i + 1] /\ i + 1 \in 1 .. Len(stdin)
  <2>1. stdin \in Seq(Command)
    BY SendTypes
  <2> QED
    BY <1>1, <2>1, HeadTailProperties, LenProperties
<1> HIDE DEF command
<1>4. /\ stdout' \in Seq(Blocks) /\ Len(stdout) <= Len(stdout') /\ stdout \in Seq(Blocks)
      /\ \A i \in 1 .. Len(stdout) : stdout'[i] = stdout[i]
      /\ \A i \in Len(stdout) + 1 .. Len(stdout') :
           \/ Lists(stdout'[i], command)
           \/ Answers(stdout'[i], command)
           \/ Unlinks(stdout'[i], command)
  BY <1>2, <1>3, OutputAppended
<1>5. \A c \in Callers : send[c].at = "waiting" /\ send[c].id = command.id => command.op = send[c].op
  BY <1>3 DEF WindowInv, CallInv, OneOp
<1>6. Live' = Live /\ Live \subseteq Windows
  BY <1>1 DEF Live
<1>7. TellInv'
  <2>1. \A w \in Windows : tmux[w] # "unborn" => tmux'[w] # "unborn" /\ (w \in Live' => w \in Live)
    BY <1>1, <1>6
  <2>2. \A w \in Live : tmux[w] # "unborn"
    BY WindowsAssumption DEF Live
  <2>3. ASSUME NEW i \in Len(stdout) + 1 .. Len(stdout')
        PROVE  /\ \A w \in Told(stdout'[i]) : tmux'[w] # "unborn"
               /\ \A c \in Callers : Snapshot(c, stdout'[i]) => Live' \subseteq Told(stdout'[i])
    <3>1. CASE Lists(stdout'[i], command)
      <4>1. Told(stdout'[i]) = Live
        <5>1. Told(stdout'[i]) = {pair[1] : pair \in {<<w, tmux[w]>> : w \in Live}}
          BY <3>1 DEF Lists, Told
        <5>2. {pair[1] : pair \in {<<w, tmux[w]>> : w \in Live}} = Live
          <6>1. \A w \in Live : <<w, tmux[w]>>[1] = w
            OBVIOUS
          <6>2. \A pair \in {<<w, tmux[w]>> : w \in Live} : pair[1] \in Live
            BY <6>1
          <6>3. \A w \in Live : \E pair \in {<<v, tmux[v]>> : v \in Live} : pair[1] = w
            BY <6>1
          <6> QED
            BY <6>2, <6>3
        <5> QED
          BY <5>1, <5>2
      <4> QED
        BY <1>1, <1>6, <2>2, <4>1
    <3>2. CASE Answers(stdout'[i], command)
      <4>1. Told(stdout'[i]) = {}
        BY <3>2 DEF Answers, Told
      <4>2. \A c \in Callers : ~Snapshot(c, stdout'[i])
        BY <1>5, <3>2 DEF Answers, Snapshot, Listing
      <4> QED
        BY <4>1, <4>2
    <3>3. CASE Unlinks(stdout'[i], command)
      <4>1. Told(stdout'[i]) = {command.op} /\ ~IsReply(stdout'[i]) /\ command.op \in Live
        BY <3>3 DEF Unlinks, Told, IsReply
      <4> QED
        BY <1>1, <2>2, <4>1 DEF Snapshot
    <3> QED
      BY <1>4, <3>1, <3>2, <3>3
  <2>4. TellInv
    BY DEF WindowInv
  <2> QED
    BY <1>1, <1>4, <2>1, <2>3, <2>4, TellAppended
\* A close is the unlink of a move: the move is in hand, or has ended.
<1>8. ClosesHeld'
  <2>1. ASSUME NEW i \in Len(stdout) + 1 .. Len(stdout'), stdout'[i].kind = "close"
        PROVE  stdout'[i].window \in unsettled \/ Unlinked(i)'
    <3>1. stdout'[i].window = command.op /\ command.op \in Windows
      BY <1>4, <2>1 DEF Lists, Answers, Unlinks, IsReply
    <3>2. \/ command.op \in unsettled
          \/ command.op \in relinking /\ send[Mover].at = "waiting" /\ send[Mover].id = command.id
      BY <1>3, <3>1 DEF WindowInv, MoveInv, MovesHeld
    <3>3. CASE command.op \in relinking /\ send[Mover].at = "waiting" /\ send[Mover].id = command.id
      <4>1. send[Mover].op # "list"
        BY <1>5, <3>1, <3>3, WindowsAssumption
      <4>2. Mover \notin Holding' /\ \A b : ~Snapshot(Mover, b)'
        BY <1>1, <4>1 DEF Holding, Snapshot, Listing
      <4> QED
        BY <1>1, <3>1, <3>3, <4>2 DEF Unlinked, Snapshot, Listing
    <3> QED
      BY <3>1, <3>2, <3>3
  <2> QED
    BY <1>1, <1>4, <2>1, ClosesAppended DEF WindowInv, MoveInv
<1>9. NumbersApart' /\ Marks' /\ MoverOnly' /\ Relinks' /\ TabTypes'
  <2>1. First' = First /\ \A c \in Callers : (Numbered(c)' <=> Numbered(c)) /\ (Accepted(c)' <=> Accepted(c))
    BY <1>1 DEF First, Numbered, Accepted
  <2>2. NumbersApart'
    BY <1>1, <2>1 DEF WindowInv, CallInv, NumbersApart
  <2>3. Marks' /\ MoverOnly' /\ Relinks'
    BY <1>1 DEF WindowInv, CallInv, MoveInv, Marks, MoverOnly, Relinks
  <2>4. TabTypes'
    BY <1>1 DEF WindowInv, TabTypes
  <2> QED
    BY <2>2, <2>3, <2>4
<1>10. OneOp' /\ MovesHeld'
  <2>1. OneOp /\ MovesHeld
    BY DEF WindowInv, CallInv, MoveInv
  <2>2. OneOp'
    BY <1>1, <1>3, <2>1 DEF OneOp
  <2>3. MovesHeld'
    BY <1>1, <1>3, <2>1 DEF MovesHeld
  <2> QED
    BY <2>2, <2>3
<1> QED
  BY <1>7, <1>8, <1>9, <1>10 DEF WindowInv, CallInv, MoveInv

-----------------------------------------------------------------------------
(* The invariant.                                                          *)

LEMMA WindowInit ==
  ASSUME Init
  PROVE  WindowInv
<1>1. /\ stdin = <<>> /\ stdout = <<>> /\ Len(stdin) = 0 /\ Len(stdout) = 0
      /\ send = [c \in Callers |-> NoSend] /\ generation = 0
      /\ app = [w \in Windows |-> "absent"] /\ addedAt = [w \in Windows |-> 0] /\ relinking = {}
      /\ \E n \in Names : tmux = [w \in Windows |-> IF w \in Opened THEN n ELSE "unborn"]
  BY DEF Init, GatewayInit
<1>2. \A c \in Callers : send[c].at = "idle" /\ send[c].mark = 0 /\ send[c].op = "none"
  BY <1>1 DEF NoSend
<1>3. TabTypes
  BY <1>1 DEF TabTypes
<1>4. CallInv
  <2>1. NumbersApart /\ OneOp
    BY <1>2 DEF NumbersApart, OneOp, Numbered, Accepted
  <2>2. Marks /\ MoverOnly
    BY <1>1, <1>2, WindowsAssumption DEF Marks, MoverOnly
  <2> QED
    BY <2>1, <2>2 DEF CallInv
<1>5. TellInv
  <2>1. Holding = {} /\ Shown = {}
    BY <1>1, <1>2 DEF Holding, Shown
  <2>2. Complete /\ Fresher /\ Guarded
    BY <1>1, <2>1 DEF Complete, Fresher, Guarded
  <2>3. \A w \in Windows : ~KnownBefore(w, Len(stdout) + 1)
    BY <1>1, <2>1 DEF KnownBefore, Known
  <2> QED
    BY <2>2, <2>3 DEF TellInv, Born
<1>6. MoveInv
  BY <1>1, <1>2, TheCallers DEF MoveInv, Relinks, MovesHeld, ClosesHeld
<1> QED
  BY <1>3, <1>4, <1>5, <1>6 DEF WindowInv

LEMMA WindowStep ==
  ASSUME IInv, WindowInv, [Next]_wvars
  PROVE  WindowInv'
<1>1. CASE (FeedReply \/ FeedDesync \/ FeedServer) /\ UNCHANGED others
  <2>1. CASE FeedReply
    BY <1>1, <2>1, SnapshotRead
  <2>2. CASE FeedDesync
    BY <1>1, <2>2, StreamOver DEF FeedDesync, others, set, external, witness
  <2>3. CASE FeedServer
    BY <1>1, <2>3, ServerBlockRead
  <2> QED
    BY <1>1, <2>1, <2>2, <2>3
<1>2. CASE FeedNote
  BY <1>2, NoteRead
<1>3. ASSUME NEW c \in Callers, (Enqueue(c) \/ Write(c)) /\ UNCHANGED others PROVE WindowInv'
  BY <1>3, SlotTaken, LineWritten
<1>4. CASE Negotiate
  BY <1>4, Began, TheCallers, Bounds DEF Negotiate, BeginList, external, witness
<1>5. CASE Attached
  BY <1>5, Installed
<1>6. CASE RunReconcile
  BY <1>6, Began, TheCallers, Bounds DEF RunReconcile, BeginList, external, witness
<1>7. CASE Renumber
  BY <1>7, Began, TheCallers, Bounds DEF Renumber, Moved, external, witness
<1>8. CASE Resync
  BY <1>8, Began, TheCallers, Bounds DEF Resync, Moved, BeginList, external, witness
<1>9. ASSUME NEW c \in Callers, Reconcile(c) PROVE WindowInv'
  BY <1>9, Merged
<1>10. ASSUME NEW c \in Callers, CallerFails(c) PROVE WindowInv'
  BY <1>10, Failing DEF CallerFails, negotiation, external, set
<1>11. ASSUME NEW w \in Windows, TmuxAdds(w) PROVE WindowInv'
  <2>1. PICK n \in Names : Change(w, n, Note("add", w, n)) /\ tmux[w] = "unborn"
    BY <1>11 DEF TmuxAdds
  <2>2. /\ Note("add", w, n) \in Notice
        /\ Note("add", w, n).window = w /\ Note("add", w, n).kind # "close"
    BY DEF Note, Notice
  <2> QED
    BY <2>1, <2>2, WindowChanged
<1>12. ASSUME NEW w \in Windows, TmuxCloses(w) PROVE WindowInv'
  <2>1. tmux[w] \in Names /\ Change(w, "closed", Note("close", w, tmux[w])) /\ tmux[w] # "unborn"
    BY <1>12, WindowsAssumption DEF TmuxCloses, Live
  <2>2. Note("close", w, tmux[w]) \in Notice /\ Note("close", w, tmux[w]).window = w
    BY <2>1 DEF Note, Notice
  <2> QED
    BY <2>1, <2>2, WindowChanged
<1>13. ASSUME NEW w \in Windows, TmuxRenames(w) PROVE WindowInv'
  <2>1. PICK n \in Names : Change(w, n, Note("renamed", w, n))
    BY <1>13 DEF TmuxRenames
  <2>2. tmux[w] \in Names
    BY <1>13 DEF TmuxRenames, Live
  <2>3. /\ Note("renamed", w, n) \in Notice
        /\ Note("renamed", w, n).window = w /\ Note("renamed", w, n).kind # "close"
    BY DEF Note, Notice
  <2> QED
    BY <2>1, <2>2, <2>3, WindowChanged
<1>14. ASSUME NEW w \in Windows, MoveWindow(w) PROVE WindowInv'
  BY <1>14, MoveBegun
<1>15. CASE TmuxServerBlock
  BY <1>15, ServerSpoke
<1>16. CASE CancelMove
  BY <1>16, Failing, TheCallers DEF CancelMove, GiveUp, external, set
<1>17. CASE StreamEnds
  BY <1>17, StreamOver DEF StreamEnds, external, set, witness
<1>18. CASE TmuxExecutes
  BY <1>18, CommandExecuted
<1>19. CASE UNCHANGED wvars
  <2>1. /\ stdin' = stdin /\ stdout' = stdout /\ queue' = queue /\ sent' = sent /\ send' = send
        /\ generation' = generation /\ app' = app /\ addedAt' = addedAt /\ tmux' = tmux
        /\ relinking' = relinking /\ overlapped' = overlapped /\ unsettled' = unsettled
    BY <1>19 DEF wvars
  <2>2. CallInv' /\ Relinks' /\ MovesHeld'
    BY <2>1, CallsKept
  <2>3. NoNewList
    BY <2>1 DEF NoNewList, Snapshot, Listing, Holding
  <2>4. Guarded' /\ \A w \in Windows : Known(w)' => Known(w)
    BY <2>1, <2>3, GuardKept DEF WindowInv, TellInv, Excused
  <2>5. TellInv'
    BY <2>1, <2>3, <2>4, TellKept DEF WindowInv, TellInv
  <2>6. MoveInv'
    BY <2>1, MoveKept, TheCallers DEF WindowInv
  <2>7. TabTypes'
    BY <2>1 DEF WindowInv, TabTypes
  <2> QED
    BY <2>2, <2>5, <2>6, <2>7 DEF WindowInv
<1> QED
  BY <1>1, <1>2, <1>3, <1>4, <1>5, <1>6, <1>7, <1>8, <1>9, <1>10, <1>11, <1>12, <1>13, <1>14,
     <1>15, <1>16, <1>17, <1>18, <1>19
  DEF Next, Client, Outside

LEMMA WindowInvariance == Spec => [](IInv /\ WindowInv)
<1> QED
  BY InitHolds, Inductive, WindowInit, WindowStep, PTL DEF Spec

\* Only a close that is heard, and a merge, take a tab away; and they take that
\* of a window tmux has closed, or of one of the two exceptions.
LEMMA TabTaken ==
  ASSUME IInv, WindowInv, [Next]_wvars, NEW w \in Windows, w \in Shown, app'[w] = "absent", w \in Live
  PROVE  w \in Excused
<1>0. app[w] # "absent"
  BY DEF Shown
<1>1. CASE FeedNote
  <2> DEFINE note == Head(stdout)
  <2>1. stdout \in Seq(Blocks) /\ stdout # <<>> /\ note.kind \in {"add", "close", "renamed"} /\ Fold(note)
    BY <1>1, SendTypes DEF FeedNote
  <2>2. note = stdout[1] /\ note \in Blocks /\ 1 \in 1 .. Len(stdout)
    BY <2>1, HeadTailProperties, LenProperties
  <2>3. note \in Notice
    BY <2>1, <2>2, BlockTypes
  <2> HIDE DEF note
  <2>4. note.kind = "close" /\ w = note.window /\ w \notin relinking
    BY <2>1, <2>3, Folded DEF WindowInv
  <2>5. tmux[w] = "closed" \/ w \in unsettled
    BY <2>2, <2>4 DEF WindowInv, MoveInv, ClosesHeld, Unlinked
  <2>6. tmux[w] # "closed"
    BY WindowsAssumption DEF Live
  <2> QED
    BY <2>5, <2>6 DEF Excused
<1>2. ASSUME NEW c \in Callers, Reconcile(c) PROVE w \in Excused
  <2>1. /\ c \in Holding
        /\ app' = [v \in Windows |-> CASE v \in Named(c) -> NameIn(c, v)
                                       [] v \notin Named(c) /\ TooNew(c, v) -> app[v]
                                       [] OTHER -> "absent"]
    BY <1>2 DEF Reconcile, Merge
  <2>2. w \notin Named(c)
    <3>1. w \in Named(c) => NameIn(c, w) # "absent"
      BY NamesListed, WindowsAssumption
    <3> QED
      BY <2>1, <3>1
  <2>3. ~TooNew(c, w)
    BY <1>0, <2>1, <2>2
  <2> QED
    BY <2>1, <2>2, <2>3 DEF WindowInv, TellInv, Guarded
<1>3. CASE Attached
  <2>1. /\ Attacher \in Callers
        /\ app' = [v \in Windows |-> IF v \in Named(Attacher) THEN NameIn(Attacher, v) ELSE app[v]]
    BY <1>3, TheCallers DEF Attached, Install
  <2>2. w \in Named(Attacher) => NameIn(Attacher, w) # "absent"
    BY <2>1, NamesListed, WindowsAssumption
  <2> QED
    BY <1>0, <2>1, <2>2
<1>4. CASE app' = app
  BY <1>0, <1>4
<1> QED
  BY <1>1, <1>2, <1>3, <1>4
  DEF Next, Client, Outside, others, set, wvars, Negotiate, RunReconcile, Renumber, Resync, CallerFails,
      TmuxAdds, TmuxCloses, TmuxRenames, Change, MoveWindow, TmuxServerBlock, CancelMove, StreamEnds, TmuxExecutes

\* A tab is not closed for a window that is still there (#278), however many
\* clients list, however tmux orders what it announces and what it answers,
\* and whatever fails: neither by a snapshot older than the window nor by the
\* unlink of a move.  The exceptions are the property's own.
THEOREM NoPhantomCloseHolds == Spec => NoPhantomClose
<1>1. IInv /\ WindowInv /\ [Next]_wvars =>
        [\A w \in Windows : (w \in Shown /\ app'[w] = "absent" /\ w \in Live) => w \in overlapped \cup unsettled]_wvars
  BY TabTaken DEF Excused
<1> QED
  BY <1>1, WindowInvariance, PTL DEF Spec, NoPhantomClose

-----------------------------------------------------------------------------
(* The tabs: what a snapshot, a tab or a notification says of a window is  *)
(* true of tmux, or is corrected by what comes behind it in the stream.    *)

After(kind, w, i) == \E j \in i + 1 .. Len(stdout) : stdout[j].kind = kind /\ stdout[j].window = w

\* Nobody was told of a window that is announced as added.
AddsNew == \A i \in 1 .. Len(stdout) : stdout[i].kind = "add" =>
  ~KnownBefore(stdout[i].window, i) /\ stdout[i].window \notin relinking
\* A window a move holds was added before the move lists.
HeldOld ==
  /\ \A w \in Windows : addedAt[w] <= generation
  /\ \A w \in relinking : tmux[w] # "unborn" /\ (send[Mover].op = "list" => addedAt[w] <= send[Mover].mark)
\* As long as the stream is up a list succeeds.
ListsSucceed ==
  /\ \A c \in Callers : c # Mover /\ send[c].at # "idle" => send[c].op = "list" /\ ~send[c].error
  /\ \A c \in Callers, i \in 1 .. Len(stdout) : Snapshot(c, stdout[i]) => ~stdout[i].error

Orderly == AddsNew /\ HeldOld /\ ListsSucceed

\* Who has a window tmux has closed is told so, or was while a snapshot was read.
GoneTold  == \A i \in 1 .. Len(stdout) : IsReply(stdout[i]) \/ stdout[i].kind = "add" =>
  \A w \in Told(stdout[i]) \ Live : After("close", w, i)
GoneHeld  == \A c \in Holding : \A w \in Named(c) \ Live : After("close", w, 0) \/ w \in late
GoneShown == \A w \in Shown \ Live : After("close", w, 0) \/ w \in relinking \/ w \in late \/ w \in Excused

\* Who lacks a window tmux has is told of it.
HereTold  == \A c \in Callers, i \in 1 .. Len(stdout) : Snapshot(c, stdout[i]) =>
  \A w \in Live : w \in Told(stdout[i]) \/ After("add", w, i)
HereHeld  == \A c \in Holding : \A w \in Live :
  w \in Named(c) \/ After("add", w, 0) \/ w \in Shown \/ w \in Excused
HereShown == attached => \A w \in Live : After("add", w, 0) \/ w \in Shown \/ w \in Excused

\* A list of the worker's that will name the window.
Coming(w) ==
  \/ requested
  \/ send[Worker].at \in {"ready", "queued"}
  \/ Listing(Worker) /\ \A i \in 1 .. Len(stdout) : Snapshot(Worker, stdout[i]) => w \in Told(stdout[i])
  \/ Worker \in Holding /\ w \in Named(Worker)

\* Who has another name than tmux is told the window's name, or will list it.
NameLast  == \A i \in 1 .. Len(stdout) : stdout[i].kind = "renamed" /\ stdout[i].window \in Live =>
  stdout[i].name = tmux[stdout[i].window] \/ After("renamed", stdout[i].window, i)
NameTold  == \A i \in 1 .. Len(stdout) : IsReply(stdout[i]) =>
  \A pair \in stdout[i].data : pair[1] \in Live => pair[2] = tmux[pair[1]] \/ After("renamed", pair[1], i)
NameHeld  == \A c \in Holding : \A pair \in send[c].reply : pair[1] \in Live =>
  pair[2] = tmux[pair[1]] \/ After("renamed", pair[1], 0) \/ pair[1] \in late
NameShown == \A w \in Shown \cap Live :
  \/ app[w] = tmux[w] \/ After("renamed", w, 0) \/ w \in late
  \/ app[w] = "unnamed" /\ Coming(w)

InStream == GoneTold /\ HereTold /\ NameLast /\ NameTold
InHand   == GoneHeld /\ HereHeld /\ NameHeld
OnScreen == GoneShown /\ HereShown /\ NameShown
TabInv   == ~closed => Orderly /\ InStream /\ InHand /\ OnScreen

-----------------------------------------------------------------------------
(* Steps that leave the stream and the tabs alone.                         *)

\* Nothing a window was known by is added, and a held window was known.
LEMMA AddsNewKept ==
  ASSUME AddsNew, stdout' = stdout, \A w \in Windows : Known(w)' => Known(w), stdout \in Seq(Blocks),
         \A w \in relinking' : w \in relinking \/ w \in Shown
  PROVE  AddsNew'
<1> SUFFICES ASSUME NEW i \in 1 .. Len(stdout), stdout[i].kind = "add"
             PROVE  ~KnownBefore(stdout[i].window, i)' /\ stdout[i].window \notin relinking'
  BY DEF AddsNew, KnownBefore, Told, IsReply
<1> DEFINE w == stdout[i].window
<1>1. ~KnownBefore(w, i) /\ w \notin relinking
  BY DEF AddsNew
<1>2. w \in Windows
  BY BlockTypes
<1>3. ~KnownBefore(w, i)'
  BY <1>1, <1>2 DEF KnownBefore, Told, IsReply
<1>4. w \notin Shown
  BY <1>1 DEF KnownBefore, Known
<1> QED
  BY <1>1, <1>3, <1>4

LEMMA Calm ==
  ASSUME TabInv, ~closed, NoNewList, Orderly', stdout' = stdout, tmux' = tmux, app' = app,
         attached' = attached, late \subseteq late', Excused \subseteq Excused',
         \A w \in relinking : w \in relinking' \/ w \in Excused',
         \A w \in Windows : Coming(w) => Coming(w)'
  PROVE  TabInv'
<1>1. /\ Live' = Live /\ Live \subseteq Windows /\ Shown' = Shown /\ Shown \subseteq Windows
      /\ \A k, w, i : After(k, w, i)' <=> After(k, w, i)
  BY DEF Live, Shown, After
<1>2. \A c \in Callers : c \in Holding' => c \in Holding /\ Named(c)' = Named(c) /\ send'[c] = send[c]
  BY DEF NoNewList, Named
<1>3. Holding' \subseteq Callers
  BY DEF Holding
<1>4. \A c \in Callers, i \in 1 .. Len(stdout) : Snapshot(c, stdout[i])' => Snapshot(c, stdout[i])
  BY DEF NoNewList, Snapshot
<1>5. GoneTold' /\ NameLast' /\ NameTold'
  BY <1>1 DEF TabInv, InStream, GoneTold, NameLast, NameTold, Told, IsReply
<1>6. HereTold'
  BY <1>1, <1>4 DEF TabInv, InStream, HereTold, Told, IsReply
<1>7. GoneHeld'
  BY <1>1, <1>2, <1>3 DEF TabInv, InHand, GoneHeld
<1>8. HereHeld'
  BY <1>1, <1>2, <1>3 DEF TabInv, InHand, HereHeld
<1>9. NameHeld'
  BY <1>1, <1>2, <1>3 DEF TabInv, InHand, NameHeld
<1>10. GoneShown' /\ HereShown'
  BY <1>1 DEF TabInv, OnScreen, GoneShown, HereShown
<1>11. NameShown'
  BY <1>1 DEF TabInv, OnScreen, NameShown
<1> QED
  BY <1>5, <1>6, <1>7, <1>8, <1>9, <1>10, <1>11 DEF TabInv, InStream, InHand, OnScreen

\* A step of a caller's that begins or ends a command.
LEMMA CallsOn ==
  ASSUME TabInv, ~closed, NoNewList, HeldOld', stdout \in Seq(Blocks),
         stdout' = stdout, tmux' = tmux, app' = app, attached' = attached,
         late \subseteq late', Excused \subseteq Excused',
         \A w \in relinking : w \in relinking' \/ w \in Excused',
         \A w \in relinking' : w \in relinking \/ w \in Shown,
         \A c \in Callers : c # Mover /\ send'[c].at # "idle" => send'[c].op = "list" /\ ~send'[c].error,
         \A w \in Windows : Coming(w) => Coming(w)'
  PROVE  TabInv'
<1>1. \A w \in Windows : Known(w)' => Known(w)
  <2>1. Shown' = Shown /\ Holding' \subseteq Callers
    BY DEF Shown, Holding
  <2>2. \A c \in Callers : c \in Holding' => c \in Holding /\ Named(c)' = Named(c)
    BY DEF NoNewList, Named
  <2> QED
    BY <2>1, <2>2 DEF Known
<1>2. AddsNew'
  BY <1>1, AddsNewKept DEF TabInv, Orderly
<1>3. \A c \in Callers, i \in 1 .. Len(stdout) : Snapshot(c, stdout[i])' => Snapshot(c, stdout[i])
  BY DEF NoNewList, Snapshot
<1>4. ListsSucceed'
  BY <1>3 DEF TabInv, Orderly, ListsSucceed, Snapshot, Listing, IsReply
<1> QED
  BY <1>2, <1>4, Calm DEF Orderly

\* The list that will name a window is on its way still, if the worker's call
\* is as it was.
LEMMA ComingKept ==
  ASSUME NEW w, Coming(w), requested => requested', send'[Worker] = send[Worker], stdout' = stdout
  PROVE  Coming(w)'
<1>1. (Worker \in Holding)' <=> Worker \in Holding
  BY DEF Holding
<1>2. \A i \in 1 .. Len(stdout) : Snapshot(Worker, stdout[i])' <=> Snapshot(Worker, stdout[i])
  BY DEF Snapshot, Listing, IsReply
<1> QED
  BY <1>1, <1>2 DEF Coming, Listing, Named, Told, IsReply

\* A caller that begins a list or the renumbering after a move.
LEMMA BeganTabs ==
  ASSUME IInv, WindowInv, TabInv, ~closed, NEW c \in Callers, NEW op \in {"list", "renumber"}, NEW m \in Nat,
         op = "list" => m = generation, Ready(c, op, m), c # Mover => op = "list",
         m <= generation,
         c = Worker => requested /\ send[Worker].at = "idle",
         c # Worker => requested' = requested,
         UNCHANGED <<negotiation, external, set, attached, relinking, witness>>
  PROVE  TabInv'
<1> DEFINE r == [NoSend EXCEPT !.at = "ready", !.op = op, !.mark = m]
<1>1. /\ r \in Sends /\ r.at = "ready" /\ r.op = op /\ r.mark = m /\ ~r.error
      /\ send' = [send EXCEPT ![c] = r] /\ send \in [Callers -> Sends] /\ op \notin Windows
  <2>1. op \in Ops /\ op \notin Windows
    BY WindowsAssumption DEF Ops
  <2>2. r \in Sends /\ r.at = "ready"
    BY <2>1, FreshSend
  <2>3. r.op = op /\ r.mark = m /\ r.error = FALSE
    BY DEF NoSend
  <2> QED
    BY <2>1, <2>2, <2>3, SendTypes DEF Ready
<1> HIDE DEF r
<1>2. /\ queue' = queue /\ stdin' = stdin /\ stdout' = stdout /\ sent' = sent /\ generation' = generation
      /\ app' = app /\ addedAt' = addedAt /\ tmux' = tmux /\ attached' = attached
      /\ relinking' = relinking /\ late' = late /\ Excused' = Excused
  BY DEF negotiation, set, external, witness, Excused
<1>3. NoNewList
  BY <1>1, <1>2, CallerLeft DEF WindowInv
<1>4. send'[c] = r /\ \A d \in Callers : d # c => send'[d] = send[d]
  BY <1>1
<1>5. HeldOld'
  <2>1. \A w \in relinking : w \in Windows
    BY DEF WindowInv, TabTypes
  <2>2. \A w \in Windows : addedAt[w] <= generation
    BY DEF TabInv, Orderly, HeldOld
  <2>3. \A w \in relinking : send'[Mover].op = "list" => addedAt[w] <= send'[Mover].mark
    <3>1. CASE c = Mover
      BY <1>1, <1>4, <2>1, <2>2, <3>1
    <3>2. CASE c # Mover
      BY <1>4, <3>2, TheCallers DEF TabInv, Orderly, HeldOld
    <3> QED
      BY <3>1, <3>2
  <2> QED
    BY <1>2, <2>2, <2>3 DEF TabInv, Orderly, HeldOld
<1>6. \A d \in Callers : d # Mover /\ send'[d].at # "idle" => send'[d].op = "list" /\ ~send'[d].error
  BY <1>1, <1>4 DEF TabInv, Orderly, ListsSucceed
<1>7. ASSUME NEW w \in Windows, Coming(w) PROVE Coming(w)'
  <2>1. CASE c = Worker
    BY <1>1, <1>4, <2>1 DEF Coming
  <2>2. CASE c # Worker
    BY <1>2, <1>4, <1>7, <2>2, ComingKept, TheCallers
  <2> QED
    BY <2>1, <2>2
<1>8. stdout \in Seq(Blocks)
  BY SendTypes
<1> QED
  BY <1>2, <1>3, <1>5, <1>6, <1>7, <1>8, CallsOn

LEMMA MoveBegunTabs ==
  ASSUME IInv, WindowInv, TabInv, ~closed, NEW w \in Windows, MoveWindow(w)
  PROVE  TabInv'
<1> DEFINE r == [NoSend EXCEPT !.at = "ready", !.op = w, !.mark = 0]
<1>1. /\ r \in Sends /\ r.at = "ready" /\ r.op = w /\ r.mark = 0
      /\ send' = [send EXCEPT ![Mover] = r] /\ send \in [Callers -> Sends] /\ send[Mover].at = "idle"
  <2>1. w \in Ops
    BY DEF Ops
  <2>2. r \in Sends /\ r.at = "ready"
    BY <2>1, FreshSend
  <2>3. r.op = w /\ r.mark = 0
    BY DEF NoSend
  <2> QED
    BY <2>2, <2>3, SendTypes DEF Ready, MoveWindow
<1> HIDE DEF r
<1>2. /\ queue' = queue /\ stdin' = stdin /\ stdout' = stdout /\ sent' = sent /\ generation' = generation
      /\ app' = app /\ addedAt' = addedAt /\ tmux' = tmux /\ attached' = attached /\ requested' = requested
      /\ relinking' = {w} /\ w \in Shown /\ late' = late /\ Excused' = Excused
  BY DEF MoveWindow, negotiation, set, external, witness, Excused
<1>3. NoNewList
  <2>1. r.mark <= generation
    BY <1>1, SendTypes
  <2> QED
    BY <1>1, <1>2, <2>1, CallerLeft, TheCallers DEF WindowInv
<1>4. send'[Mover] = r /\ \A d \in Callers : d # Mover => send'[d] = send[d]
  BY <1>1, TheCallers
<1>5. relinking = {}
  BY <1>1 DEF Relinks, WindowInv, MoveInv
\* It is shown, so tmux has opened it.
<1>6. HeldOld'
  <2>1. tmux[w] # "unborn"
    <3>1. KnownBefore(w, Len(stdout) + 1)
      BY <1>2 DEF KnownBefore, Known
    <3> QED
      BY <3>1 DEF WindowInv, TellInv, Born
  <2>2. send'[Mover].op # "list"
    BY <1>1, <1>4, WindowsAssumption
  <2>3. \A v \in Windows : addedAt'[v] <= generation'
    BY <1>2 DEF TabInv, Orderly, HeldOld
  <2>4. \A v \in relinking' : tmux'[v] # "unborn"
    BY <1>2, <2>1
  <2> QED
    BY <2>2, <2>3, <2>4 DEF HeldOld
<1>7. \A d \in Callers : d # Mover /\ send'[d].at # "idle" => send'[d].op = "list" /\ ~send'[d].error
  BY <1>4 DEF TabInv, Orderly, ListsSucceed
<1>8. \A v \in Windows : Coming(v) => Coming(v)'
  BY <1>2, <1>4, ComingKept, TheCallers
<1>9. stdout \in Seq(Blocks)
  BY SendTypes
<1> QED
  BY <1>2, <1>3, <1>5, <1>6, <1>7, <1>8, <1>9, CallsOn

\* Only the mover fails: it lets go of its window, which is unsettled.
LEMMA FailingTabs ==
  ASSUME IInv, WindowInv, TabInv, ~closed, Return(Mover), Release,
         queue' = queue, stdin' = stdin, stdout' = stdout, sent' = sent, generation' = generation,
         app' = app, addedAt' = addedAt, tmux' = tmux, attached' = attached, requested' = requested,
         late' = late, overlapped' = overlapped
  PROVE  TabInv'
<1>1. /\ NoSend \in Sends /\ NoSend.at = "idle" /\ NoSend.mark = 0 /\ NoSend.op = "none" /\ "none" \notin Windows
      /\ send' = [send EXCEPT ![Mover] = NoSend] /\ send \in [Callers -> Sends]
  <2>1. NoSend.mark = 0 /\ NoSend.op = "none"
    BY DEF NoSend
  <2> QED
    BY <2>1, FreshSend, SendTypes, WindowsAssumption DEF Return
<1>2. relinking' = {} /\ \A w \in relinking : w \in Excused'
  BY DEF Release, Excused
<1>3. NoNewList
  <2>1. NoSend.mark <= generation
    BY <1>1, SendTypes
  <2> QED
    BY <1>1, <2>1, CallerLeft, TheCallers DEF WindowInv
<1>4. send'[Mover] = NoSend /\ \A d \in Callers : d # Mover => send'[d] = send[d]
  BY <1>1, TheCallers
<1>5. HeldOld'
  BY <1>2 DEF TabInv, Orderly, HeldOld
<1>6. \A d \in Callers : d # Mover /\ send'[d].at # "idle" => send'[d].op = "list" /\ ~send'[d].error
  BY <1>4 DEF TabInv, Orderly, ListsSucceed
<1>7. \A w \in Windows : Coming(w) => Coming(w)'
  BY <1>4, ComingKept, TheCallers
<1>8. Excused \subseteq Excused' /\ stdout \in Seq(Blocks)
  BY SendTypes DEF Release, Excused
<1> QED
  BY <1>2, <1>3, <1>5, <1>6, <1>7, <1>8, CallsOn

LEMMA SlotTakenTabs ==
  ASSUME IInv, WindowInv, TabInv, ~closed, NEW c \in Callers, Enqueue(c), UNCHANGED others
  PROVE  TabInv'
<1>1. /\ send[c].at = "ready" /\ send' = [send EXCEPT ![c].at = "queued", ![c].id = sent + 1]
      /\ stdout' = stdout /\ generation' = generation /\ app' = app /\ addedAt' = addedAt /\ tmux' = tmux
      /\ relinking' = relinking /\ attached' = attached /\ requested' = requested
      /\ late' = late /\ Excused' = Excused
  BY DEF Enqueue, others, set, external, witness, Excused
<1>2. send \in [Callers -> Sends] /\ stdout \in Seq(Blocks)
  BY SendTypes
<1>3. /\ send'[c].at = "queued" /\ send'[c].op = send[c].op /\ send'[c].mark = send[c].mark
      /\ send'[c].error = send[c].error
      /\ \A d \in Callers : d # c => send'[d] = send[d]
  BY <1>1, <1>2 DEF Sends
<1>4. NoNewList
  BY <1>3 DEF NoNewList, Snapshot, Listing, Holding
<1>5. HeldOld'
  BY <1>1, <1>3, TheCallers DEF TabInv, Orderly, HeldOld
<1>6. \A d \in Callers : d # Mover /\ send'[d].at # "idle" => send'[d].op = "list" /\ ~send'[d].error
  BY <1>1, <1>3 DEF TabInv, Orderly, ListsSucceed
<1>7. ASSUME NEW w \in Windows, Coming(w) PROVE Coming(w)'
  <2>1. CASE c = Worker
    BY <1>3, <2>1 DEF Coming
  <2>2. CASE c # Worker
    BY <1>1, <1>3, <1>7, <2>2, ComingKept, TheCallers
  <2> QED
    BY <2>1, <2>2
<1> QED
  BY <1>1, <1>2, <1>4, <1>5, <1>6, <1>7, CallsOn

\* No reply carries the number of a line being written.
LEMMA LineWrittenTabs ==
  ASSUME IInv, WindowInv, TabInv, ~closed, NEW c \in Callers, Write(c), UNCHANGED others
  PROVE  TabInv'
<1>1. /\ send[c].at = "queued" /\ send' = [send EXCEPT ![c].at = "waiting"]
      /\ stdout' = stdout /\ generation' = generation /\ app' = app /\ addedAt' = addedAt /\ tmux' = tmux
      /\ relinking' = relinking /\ attached' = attached /\ requested' = requested
      /\ late' = late /\ Excused' = Excused
  BY DEF Write, others, set, external, witness, Excused
<1>2. send \in [Callers -> Sends] /\ stdout \in Seq(Blocks)
  BY SendTypes
<1>3. /\ send'[c].at = "waiting" /\ send'[c].id = send[c].id
      /\ send'[c].op = send[c].op /\ send'[c].mark = send[c].mark /\ send'[c].error = send[c].error
      /\ \A d \in Callers : d # c => send'[d] = send[d]
  BY <1>1, <1>2 DEF Sends
<1>4. \A i \in 1 .. Len(stdout) : IsReply(stdout[i]) => stdout[i].id # send[c].id
  <2>1. send[c].id = sent /\ Held = 1
    BY <1>1 DEF Held, IInv, WriterLast
  <2>2. Past = sent - Len(stdin) /\ Len(stdin) \in Nat /\ sent \in Nat
    BY <2>1, SendTypes
  <2> QED
    BY <2>1, <2>2 DEF IInv, RepliesInOrder
<1>5. \A d \in Callers : d \in Holding' => d # c /\ d \in Holding
  BY <1>3 DEF Holding
<1>6. NoNewList
  BY <1>3, <1>4, <1>5 DEF NoNewList, Snapshot, Listing
<1>7. HeldOld'
  BY <1>1, <1>3, TheCallers DEF TabInv, Orderly, HeldOld
<1>8. \A d \in Callers : d # Mover /\ send'[d].at # "idle" => send'[d].op = "list" /\ ~send'[d].error
  BY <1>1, <1>3 DEF TabInv, Orderly, ListsSucceed
<1>9. ASSUME NEW w \in Windows, Coming(w) PROVE Coming(w)'
  <2>1. CASE c = Worker
    <3>1. send[Worker].op = "list"
      BY <1>1, <2>1, TheCallers DEF TabInv, Orderly, ListsSucceed
    <3>2. Listing(Worker)'
      BY <1>3, <2>1, <3>1 DEF Listing
    <3>3. \A i \in 1 .. Len(stdout) : ~Snapshot(Worker, stdout[i])'
      BY <1>1, <1>3, <1>4, <2>1 DEF Snapshot, IsReply
    <3> QED
      BY <1>1, <3>2, <3>3 DEF Coming, Snapshot, Listing, IsReply
  <2>2. CASE c # Worker
    BY <1>1, <1>3, <1>9, <2>2, ComingKept, TheCallers
  <2> QED
    BY <2>1, <2>2
<1> QED
  BY <1>1, <1>2, <1>6, <1>7, <1>8, <1>9, CallsOn

-----------------------------------------------------------------------------
(* Merging a snapshot.                                                     *)

\* Every window the snapshot names is shown under its name; another that stays
\* was shown, and is too new for a snapshot of the mover's.
LEMMA MergingTabs ==
  ASSUME IInv, WindowInv, TabInv, ~closed, NEW c \in Callers, c \in Holding, Return(c), Excused \subseteq Excused',
         \A w \in Windows : w \in Named(c) => app'[w] = NameIn(c, w),
         \A w \in Windows : w \notin Named(c) /\ app'[w] # "absent" =>
            app'[w] = app[w] /\ (c = Mover => TooNew(Mover, w)),
         \A w \in Windows : addedAt'[w] \in {0, addedAt[w]},
         \A w \in Shown \cap Live : app'[w] = "absent" => w \in Excused,
         relinking' = IF c = Mover THEN {} ELSE relinking,
         queue' = queue, stdin' = stdin, stdout' = stdout, sent' = sent, generation' = generation,
         tmux' = tmux, requested' = requested, late' = late
  PROVE  TabInv'
<1>1. /\ NoSend \in Sends /\ NoSend.at = "idle" /\ NoSend.mark = 0 /\ NoSend.op = "none" /\ "none" \notin Windows
      /\ send' = [send EXCEPT ![c] = NoSend] /\ send \in [Callers -> Sends]
  <2>1. NoSend.mark = 0 /\ NoSend.op = "none"
    BY DEF NoSend
  <2> QED
    BY <2>1, FreshSend, SendTypes, WindowsAssumption DEF Return
<1>2. send'[c] = NoSend /\ \A d \in Callers : d # c => send'[d] = send[d]
  BY <1>1
<1>3. NoNewList
  <2>1. NoSend.mark <= generation
    BY <1>1, SendTypes
  <2> QED
    BY <1>1, <2>1, CallerLeft DEF WindowInv
<1>4. /\ \A d \in Callers : d \in Holding' => d \in Holding /\ Named(d)' = Named(d) /\ send'[d] = send[d]
      /\ \A d \in Callers, i \in 1 .. Len(stdout) : Snapshot(d, stdout[i])' => Snapshot(d, stdout[i])
      /\ Holding' \subseteq Callers
  BY <1>3 DEF NoNewList, Named, Snapshot, Holding
<1>5. /\ Live' = Live /\ Live \subseteq Windows /\ Shown \subseteq Windows /\ Shown' \subseteq Windows
      /\ \A k, w, i : After(k, w, i)' <=> After(k, w, i)
  BY DEF Live, Shown, After
\* A window shown after it is named by the snapshot, or was shown before.
<1>6. \A w \in Windows : w \in Shown' => w \in Named(c) \/ (w \in Shown /\ app'[w] = app[w] /\ (c = Mover => TooNew(Mover, w)))
  BY DEF Shown
<1>7. \A w \in Named(c) : w \in Shown' /\ app'[w] = NameIn(c, w)
  <2>1. \A w \in Named(c) : w \in Windows /\ NameIn(c, w) # "absent"
    BY NamesListed, WindowsAssumption
  <2> QED
    BY <2>1 DEF Shown
<1>8. \A w \in Shown \cap Live : w \in Shown' \/ w \in Excused'
  BY DEF Shown
<1>9. AddsNew'
  <2>1. \A w \in Windows : Known(w)' => Known(w)
    BY <1>4, <1>6 DEF Known
  <2>2. stdout \in Seq(Blocks)
    BY SendTypes
  <2> QED
    BY <2>1, <2>2, AddsNewKept DEF TabInv, Orderly
<1>10. HeldOld'
  <2>1. \A w \in Windows : addedAt[w] <= generation /\ addedAt[w] \in Nat /\ addedAt'[w] <= addedAt[w] /\ addedAt'[w] \in Nat
    BY DEF TabInv, Orderly, HeldOld, WindowInv, TabTypes
  <2>2. generation \in Nat /\ send[Mover].mark \in Nat
    BY SendTypes, TheCallers
  <2>3. \A w \in Windows : addedAt'[w] <= generation'
    BY <2>1, <2>2
  <2>4. CASE c = Mover
    BY <2>3, <2>4 DEF HeldOld
  <2>5. CASE c # Mover
    <3>1. send'[Mover] = send[Mover] /\ relinking' = relinking /\ relinking \subseteq Windows
      BY <1>2, <2>5, TheCallers DEF WindowInv, TabTypes
    <3>2. \A w \in relinking : tmux[w] # "unborn" /\ (send[Mover].op = "list" => addedAt[w] <= send[Mover].mark)
      BY DEF TabInv, Orderly, HeldOld
    <3>3. \A w \in relinking : send[Mover].op = "list" => addedAt'[w] <= send[Mover].mark
      BY <2>1, <2>2, <3>1, <3>2
    <3> QED
      BY <2>3, <3>1, <3>2, <3>3 DEF HeldOld
  <2> QED
    BY <2>4, <2>5
<1>11. ListsSucceed'
  <2>1. \A d \in Callers : d # Mover /\ send'[d].at # "idle" => send'[d].op = "list" /\ ~send'[d].error
    BY <1>1, <1>2 DEF TabInv, Orderly, ListsSucceed
  <2>2. \A d \in Callers, i \in 1 .. Len(stdout) : Snapshot(d, stdout[i])' => ~stdout[i].error
    BY <1>4 DEF TabInv, Orderly, ListsSucceed
  <2> QED
    BY <2>1, <2>2 DEF ListsSucceed, Snapshot, Listing, IsReply
<1>12. InStream'
  <2>1. GoneTold' /\ NameLast' /\ NameTold'
    BY <1>5 DEF TabInv, InStream, GoneTold, NameLast, NameTold, Told, IsReply
  <2>2. HereTold'
    BY <1>4, <1>5 DEF TabInv, InStream, HereTold, Told, IsReply
  <2> QED
    BY <2>1, <2>2 DEF InStream
<1>13. InHand'
  <2>1. GoneHeld'
    BY <1>4, <1>5 DEF TabInv, InHand, GoneHeld
  <2>2. HereHeld'
    BY <1>4, <1>5, <1>8 DEF TabInv, InHand, HereHeld
  <2>3. NameHeld'
    BY <1>4, <1>5 DEF TabInv, InHand, NameHeld
  <2> QED
    BY <2>1, <2>2, <2>3 DEF InHand
<1>14. GoneShown'
  <2> SUFFICES ASSUME NEW w \in Windows, w \in Shown', w \notin Live
               PROVE  After("close", w, 0) \/ w \in relinking' \/ w \in late' \/ w \in Excused'
    BY <1>5 DEF GoneShown
  <2>1. CASE w \in Named(c)
    BY <2>1 DEF TabInv, InHand, GoneHeld
  <2>2. CASE w \in Shown /\ (c = Mover => TooNew(Mover, w))
    <3>1. After("close", w, 0) \/ w \in relinking \/ w \in late \/ w \in Excused
      BY <2>2 DEF TabInv, OnScreen, GoneShown
    <3>2. ASSUME c = Mover, w \in relinking PROVE FALSE
      <4>1. addedAt[w] <= send[Mover].mark
        BY <3>2 DEF TabInv, Orderly, HeldOld, Holding
      <4>2. addedAt[w] > send[Mover].mark /\ addedAt[w] \in Nat /\ send[Mover].mark \in Nat
        BY <2>2, <3>2, SendTypes, TheCallers DEF TooNew, WindowInv, TabTypes
      <4> QED
        BY <4>1, <4>2
    <3> QED
      BY <3>1, <3>2
  <2> QED
    BY <1>6, <2>1, <2>2
\* What the snapshot names is shown; what it lacks is told of, or is excused.
<1>15. HereShown'
  <2>1. \A w \in Live : w \in Named(c) \/ After("add", w, 0) \/ w \in Shown \/ w \in Excused
    BY DEF TabInv, InHand, HereHeld
  <2>2. \A w \in Live : After("add", w, 0) \/ w \in Shown' \/ w \in Excused'
    BY <1>7, <1>8, <2>1
  <2> QED
    BY <1>5, <2>2 DEF HereShown
<1>16. NameShown'
  <2> SUFFICES ASSUME NEW w \in Windows, w \in Shown', w \in Live
               PROVE  \/ app'[w] = tmux[w] \/ After("renamed", w, 0) \/ w \in late
                      \/ app'[w] = "unnamed" /\ Coming(w)'
    BY <1>5 DEF NameShown
  <2>1. CASE w \in Named(c)
    <3> DEFINE p == CHOOSE pair \in send[c].reply : pair[1] = w
    <3>1. \E pair \in send[c].reply : pair[1] = w
      BY <2>1 DEF Named
    <3>2. p \in send[c].reply /\ p[1] = w
      BY <3>1
    <3>3. p[2] = tmux[w] \/ After("renamed", w, 0) \/ w \in late
      BY <3>2 DEF TabInv, InHand, NameHeld
    <3>4. app'[w] = p[2]
      BY <1>7, <2>1 DEF NameIn
    <3> QED
      BY <3>3, <3>4
  <2>2. CASE w \notin Named(c)
    <3>1. w \in Shown /\ app'[w] = app[w]
      BY <1>6, <2>2
    <3>2. \/ app[w] = tmux[w] \/ After("renamed", w, 0) \/ w \in late
          \/ app[w] = "unnamed" /\ Coming(w)
      BY <3>1 DEF TabInv, OnScreen, NameShown
    <3>3. Coming(w) => Coming(w)'
      <4>1. CASE c = Worker
        BY <2>2, <4>1 DEF Coming, Holding, Listing
      <4>2. CASE c # Worker
        BY <1>2, <4>2, ComingKept, TheCallers
      <4> QED
        BY <4>1, <4>2
    <3> QED
      BY <3>1, <3>2, <3>3
  <2> QED
    BY <2>1, <2>2
<1> QED
  BY <1>9, <1>10, <1>11, <1>12, <1>13, <1>14, <1>15, <1>16 DEF TabInv, Orderly, OnScreen

LEMMA MergedTabs ==
  ASSUME IInv, WindowInv, TabInv, ~closed, NEW c \in Callers, Reconcile(c)
  PROVE  TabInv'
<1>1. /\ c \in Holding /\ Return(c) /\ Overtaking(c) /\ generation' = generation
      /\ relinking' = IF c = Mover THEN {} ELSE relinking
      /\ queue' = queue /\ stdin' = stdin /\ stdout' = stdout /\ sent' = sent
      /\ tmux' = tmux /\ unsettled' = unsettled /\ requested' = requested /\ late' = late
  BY DEF Reconcile, Merge, negotiation, external
<1>2. app' = [w \in Windows |-> CASE w \in Named(c) -> NameIn(c, w)
                                  [] w \notin Named(c) /\ TooNew(c, w) -> app[w]
                                  [] OTHER -> "absent"]
  BY DEF Reconcile, Merge
<1>3. addedAt' = [w \in Windows |-> IF w \notin Named(c) /\ TooNew(c, w) THEN addedAt[w] ELSE 0]
  BY DEF Reconcile, Merge
<1>4. \A w \in Windows : w \in Named(c) => app'[w] = NameIn(c, w)
  BY <1>2
<1>5. \A w \in Windows : w \notin Named(c) /\ app'[w] # "absent" => app'[w] = app[w] /\ TooNew(c, w)
  BY <1>2
<1>6. \A w \in Windows : addedAt'[w] \in {0, addedAt[w]}
  BY <1>3
<1>7. \A w \in Shown \cap Live : app'[w] = "absent" => w \in Excused
  <2>1. \A w \in Shown : w \in Windows
    BY DEF Shown
  <2>2. [Next]_wvars
    BY DEF Next, Client
  <2> QED
    BY <2>1, <2>2, TabTaken
<1>8. Excused \subseteq Excused'
  BY <1>1 DEF Excused, Overtaking
<1> QED
  BY <1>1, <1>4, <1>5, <1>6, <1>7, <1>8, MergingTabs

LEMMA InstalledTabs ==
  ASSUME IInv, WindowInv, TabInv, ~closed, Attached
  PROVE  TabInv'
<1> DEFINE c == Attacher
<1>1. /\ c \in Callers /\ c # Mover /\ c \in Holding /\ Return(c) /\ Overtaking(c) /\ generation' = generation
      /\ relinking' = IF c = Mover THEN {} ELSE relinking
      /\ queue' = queue /\ stdin' = stdin /\ stdout' = stdout /\ sent' = sent
      /\ tmux' = tmux /\ unsettled' = unsettled /\ requested' = requested /\ late' = late
  BY TheCallers DEF Attached, Install, negotiation, external
<1>2. /\ app' = [w \in Windows |-> IF w \in Named(c) THEN NameIn(c, w) ELSE app[w]]
      /\ addedAt' = [w \in Windows |-> IF w \in Named(c) THEN 0 ELSE addedAt[w]]
  BY DEF Attached, Install
<1>3. \A w \in Windows : w \in Named(c) => app'[w] = NameIn(c, w)
  BY <1>2
<1>4. \A w \in Windows : w \notin Named(c) => app'[w] = app[w]
  BY <1>2
<1>5. \A w \in Windows : addedAt'[w] \in {0, addedAt[w]}
  BY <1>2
<1>6. \A w \in Shown \cap Live : app'[w] = "absent" => w \in Excused
  <2>1. \A w \in Shown : w \in Windows
    BY DEF Shown
  <2>2. [Next]_wvars
    BY DEF Next, Client
  <2> QED
    BY <2>1, <2>2, TabTaken
<1>7. Excused \subseteq Excused'
  BY <1>1 DEF Excused, Overtaking
<1> HIDE DEF c
<1> QED
  BY <1>1, <1>3, <1>4, <1>5, <1>6, <1>7, MergingTabs

-----------------------------------------------------------------------------
(* Reading the stream.                                                     *)

LEMMA Shifted ==
  ASSUME stdout \in Seq(Blocks), stdout # <<>>, stdout' = Tail(stdout)
  PROVE  /\ Len(stdout') \in Nat /\ Len(stdout) = Len(stdout') + 1 /\ Head(stdout) = stdout[1]
         /\ 1 \in 1 .. Len(stdout)
         /\ \A i \in 1 .. Len(stdout') : stdout'[i] = stdout[i + 1] /\ i + 1 \in 1 .. Len(stdout)
         /\ \A k, w : \A i \in Nat : After(k, w, i + 1) => After(k, w, i)'
         /\ \A k, w : After(k, w, 0) => After(k, w, 0)' \/ (stdout[1].kind = k /\ stdout[1].window = w)
<1>1. /\ Len(stdout') \in Nat /\ Len(stdout) = Len(stdout') + 1 /\ Head(stdout) = stdout[1]
      /\ \A i \in 1 .. Len(stdout') : stdout'[i] = stdout[i + 1]
  BY HeadTailProperties, LenProperties
<1>2. ASSUME NEW k, NEW w, NEW i \in Nat, NEW j \in (i + 1) + 1 .. Len(stdout),
             stdout[j].kind = k, stdout[j].window = w
      PROVE  \E n \in i + 1 .. Len(stdout') : stdout'[n].kind = k /\ stdout'[n].window = w
  <2>1. j - 1 \in i + 1 .. Len(stdout') /\ j - 1 \in 1 .. Len(stdout') /\ (j - 1) + 1 = j
    BY <1>1
  <2>2. stdout'[j - 1] = stdout[j]
    BY <1>1, <2>1
  <2> QED
    BY <1>2, <2>1, <2>2
<1>3. \A k, w : \A i \in Nat : After(k, w, i + 1) => After(k, w, i)'
  BY <1>2 DEF After
<1>4. ASSUME NEW k, NEW w, After(k, w, 0), ~(stdout[1].kind = k /\ stdout[1].window = w)
      PROVE  After(k, w, 0)'
  <2>1. PICK j \in 0 + 1 .. Len(stdout) : stdout[j].kind = k /\ stdout[j].window = w
    BY <1>4 DEF After
  <2>2. j \in (0 + 1) + 1 .. Len(stdout)
    BY <1>1, <1>4, <2>1
  <2>3. After(k, w, 0 + 1)
    BY <2>1, <2>2 DEF After
  <2> QED
    BY <1>3, <2>3
<1> QED
  BY <1>1, <1>3, <1>4

\* The stream without its head tells what it told behind it.
LEMMA StreamShifted ==
  ASSUME InStream, stdout \in Seq(Blocks), stdout # <<>>, stdout' = Tail(stdout), tmux' = tmux,
         \A c \in Callers : Listing(c)' => Listing(c) /\ send'[c].id = send[c].id
  PROVE  InStream'
<1>1. /\ Len(stdout') \in Nat
      /\ \A i \in 1 .. Len(stdout') : stdout'[i] = stdout[i + 1] /\ i + 1 \in 1 .. Len(stdout) /\ i \in Nat
      /\ \A k, w : \A i \in Nat : After(k, w, i + 1) => After(k, w, i)'
  BY Shifted
<1>2. Live' = Live
  BY DEF Live
<1>3. GoneTold'
  <2>1. ASSUME NEW i \in 1 .. Len(stdout'), IsReply(stdout'[i]) \/ stdout'[i].kind = "add",
               NEW w \in Told(stdout'[i]) \ Live
        PROVE  After("close", w, i)'
    BY <1>1, <2>1 DEF InStream, GoneTold
  <2> QED
    BY <1>2, <2>1 DEF GoneTold, Told, IsReply
<1>4. HereTold'
  <2>1. ASSUME NEW c \in Callers, NEW i \in 1 .. Len(stdout'), Snapshot(c, stdout[i])', NEW w \in Live
        PROVE  w \in Told(stdout'[i]) \/ After("add", w, i)'
    <3>1. Snapshot(c, stdout[i + 1])
      BY <1>1, <2>1 DEF Snapshot, IsReply
    <3> QED
      BY <1>1, <3>1 DEF InStream, HereTold
  <2> QED
    BY <1>2, <2>1 DEF HereTold, Told, IsReply, Snapshot
<1>5. NameLast'
  <2>1. ASSUME NEW i \in 1 .. Len(stdout'), NEW w \in Live, stdout'[i].kind = "renamed", stdout'[i].window = w
        PROVE  stdout'[i].name = tmux[w] \/ After("renamed", w, i)'
    BY <1>1, <2>1 DEF InStream, NameLast
  <2> QED
    BY <1>2, <2>1 DEF NameLast, After
<1>6. NameTold'
  <2>1. ASSUME NEW i \in 1 .. Len(stdout'), IsReply(stdout'[i]), NEW pair \in stdout'[i].data, pair[1] \in Live
        PROVE  pair[2] = tmux[pair[1]] \/ After("renamed", pair[1], i)'
    BY <1>1, <2>1 DEF InStream, NameTold
  <2> QED
    BY <1>2, <2>1 DEF NameTold, IsReply
<1> QED
  BY <1>3, <1>4, <1>5, <1>6 DEF InStream

LEMMA AddsNewShifted ==
  ASSUME AddsNew, stdout \in Seq(Blocks), stdout # <<>>, stdout' = Tail(stdout), relinking' = relinking,
         \A w \in Windows : Known(w)' => Known(w) \/ w \in Told(Head(stdout))
  PROVE  AddsNew'
<1>1. /\ Len(stdout') \in Nat
      /\ \A i \in 1 .. Len(stdout') : stdout'[i] = stdout[i + 1] /\ i + 1 \in 1 .. Len(stdout)
  BY Shifted
<1> SUFFICES ASSUME NEW i \in 1 .. Len(stdout'), stdout'[i].kind = "add"
             PROVE  ~KnownBefore(stdout[i].window, i)' /\ stdout'[i].window \notin relinking
  BY DEF AddsNew, KnownBefore, Told, IsReply
<1>2. PICK w : w = stdout'[i].window
  OBVIOUS
<1>3. ~KnownBefore(w, i + 1) /\ w \notin relinking
  BY <1>1, <1>2 DEF AddsNew
<1>4. stdout[i + 1] \in Blocks /\ i \in 1 .. Len(stdout') + 1
  BY <1>1
<1>5. w \in Windows
  BY <1>1, <1>2, <1>4, BlockTypes
<1>6. ~KnownBefore(w, i)'
  BY <1>3, <1>4, <1>5, KnownShifted
<1>7. KnownBefore(stdout[i].window, i)' => KnownBefore(w, i)'
  BY <1>2 DEF KnownBefore, Known
<1> QED
  BY <1>2, <1>3, <1>6, <1>7

\* The list that will name a window, as the block at the head is read.
LEMMA ComingShifted ==
  ASSUME NEW w, Coming(w), stdout \in Seq(Blocks), stdout # <<>>, stdout' = Tail(stdout),
         requested => requested', send'[Worker] = send[Worker]
  PROVE  Coming(w)'
<1>1. (Worker \in Holding)' <=> Worker \in Holding
  BY DEF Holding
<1>2. ASSUME \A i \in 1 .. Len(stdout) : Snapshot(Worker, stdout[i]) => w \in Told(stdout[i]),
             NEW i \in 1 .. Len(stdout'), Snapshot(Worker, stdout[i])'
      PROVE  w \in Told(stdout'[i])
  <2>1. stdout'[i] = stdout[i + 1] /\ i + 1 \in 1 .. Len(stdout)
    BY Shifted
  <2>2. Snapshot(Worker, stdout[i + 1])
    BY <1>2, <2>1 DEF Snapshot, Listing, IsReply
  <2> QED
    BY <1>2, <2>1, <2>2
<1>3. \A i \in 1 .. Len(stdout') : Told(stdout[i])' = Told(stdout'[i])
  BY DEF Told, IsReply
<1> QED
  BY <1>1, <1>2, <1>3 DEF Coming, Listing, Named

\* A block that is no notification is read: who takes a snapshot from it has in
\* hand what the stream had.
LEMMA BlockReadTabs ==
  ASSUME TabInv, ~closed, stdout \in Seq(Blocks), stdout # <<>>, stdout' = Tail(stdout),
         stdout[1].kind \notin {"add", "close", "renamed"}, Orderly',
         tmux' = tmux, app' = app, attached' = attached, relinking' = relinking, late' = late, Excused' = Excused,
         \A c \in Callers : Listing(c)' => Listing(c) /\ send'[c].id = send[c].id,
         \A c \in Callers : c \in Holding' =>
            \/ c \in Holding /\ send'[c].reply = send[c].reply
            \/ Snapshot(c, stdout[1]) /\ send'[c].reply = stdout[1].data,
         \A w \in Windows : Coming(w) => Coming(w)'
  PROVE  TabInv'
<1>1. /\ 1 \in 1 .. Len(stdout)
      /\ \A k, w : After(k, w, 0 + 1) => After(k, w, 0)'
      /\ \A k, w : After(k, w, 0) => After(k, w, 0)' \/ (stdout[1].kind = k /\ stdout[1].window = w)
  BY Shifted
<1>2. \A k \in {"add", "close", "renamed"}, w \in Windows : After(k, w, 0) \/ After(k, w, 1) => After(k, w, 0)'
  BY <1>1
<1>3. Live' = Live /\ Live \subseteq Windows /\ Shown' = Shown /\ Shown \subseteq Windows /\ Holding' \subseteq Callers
  BY DEF Live, Shown, Holding
<1>4. stdout[1] \in Blocks
  BY <1>1
<1>5. InStream'
  BY StreamShifted DEF TabInv
<1>6. ASSUME NEW c \in Callers, c \in Holding'
      PROVE  \/ c \in Holding /\ Named(c)' = Named(c)
             \/ Snapshot(c, stdout[1]) /\ Named(c)' = Told(stdout[1])
  BY <1>6 DEF Named, Told, Snapshot
<1>7. GoneHeld'
  <2> SUFFICES ASSUME NEW c \in Callers, c \in Holding', NEW w, w \in Named(c)' \ Live
               PROVE  After("close", w, 0)' \/ w \in late'
    BY <1>3 DEF GoneHeld
  <2>1. CASE c \in Holding /\ Named(c)' = Named(c)
    BY <1>1, <2>1 DEF TabInv, InHand, GoneHeld
  <2>2. CASE Snapshot(c, stdout[1]) /\ Named(c)' = Told(stdout[1])
    BY <1>1, <2>2 DEF TabInv, InStream, GoneTold, Snapshot
  <2> QED
    BY <1>6, <2>1, <2>2
<1>8. HereHeld'
  <2> SUFFICES ASSUME NEW c \in Callers, c \in Holding', NEW w \in Live
               PROVE  w \in Named(c)' \/ After("add", w, 0)' \/ w \in Shown \/ w \in Excused
    BY <1>3 DEF HereHeld
  <2>1. CASE c \in Holding /\ Named(c)' = Named(c)
    BY <1>1, <2>1 DEF TabInv, InHand, HereHeld
  <2>2. CASE Snapshot(c, stdout[1]) /\ Named(c)' = Told(stdout[1])
    BY <1>1, <2>2 DEF TabInv, InStream, HereTold
  <2> QED
    BY <1>6, <2>1, <2>2
<1>9. NameHeld'
  <2> SUFFICES ASSUME NEW c \in Callers, c \in Holding', NEW pair \in send'[c].reply, pair[1] \in Live
               PROVE  pair[2] = tmux[pair[1]] \/ After("renamed", pair[1], 0)' \/ pair[1] \in late
    BY <1>3 DEF NameHeld
  <2>1. CASE c \in Holding /\ send'[c].reply = send[c].reply
    BY <1>1, <2>1 DEF TabInv, InHand, NameHeld
  <2>2. CASE Snapshot(c, stdout[1]) /\ send'[c].reply = stdout[1].data
    BY <1>1, <2>2 DEF TabInv, InStream, NameTold, Snapshot
  <2> QED
    BY <2>1, <2>2
<1>10. GoneShown'
  BY <1>2, <1>3 DEF TabInv, OnScreen, GoneShown
<1>11. HereShown'
  BY <1>2, <1>3 DEF TabInv, OnScreen, HereShown
<1>12. NameShown'
  BY <1>2, <1>3 DEF TabInv, OnScreen, NameShown
<1> QED
  BY <1>5, <1>7, <1>8, <1>9, <1>10, <1>11, <1>12 DEF TabInv, InHand, OnScreen

LEMMA ServerBlockReadTabs ==
  ASSUME IInv, WindowInv, TabInv, ~closed, FeedServer, UNCHANGED others
  PROVE  TabInv'
<1>1. /\ stdout # <<>> /\ stdout' = Tail(stdout) /\ send' = send /\ tmux' = tmux /\ app' = app
      /\ addedAt' = addedAt /\ generation' = generation /\ requested' = requested /\ attached' = attached
      /\ relinking' = relinking /\ late' = late /\ Excused' = Excused
  BY DEF FeedServer, others, set, external, witness, Excused
<1>2. stdout \in Seq(Blocks)
  BY SendTypes
<1>3. Head(stdout) = stdout[1] /\ stdout[1].kind \notin {"add", "close", "renamed"}
  BY <1>1, <1>2, Shifted DEF FeedServer
<1>4. /\ Shown' = Shown /\ Holding' = Holding /\ Holding \subseteq Callers
      /\ \A c \in Callers : Named(c)' = Named(c) /\ (Listing(c)' <=> Listing(c))
  BY <1>1 DEF Shown, Holding, Named, Listing
<1>5. AddsNew'
  <2>1. \A w \in Windows : Known(w)' => Known(w)
    BY <1>4 DEF Known
  <2> QED
    BY <1>1, <1>2, <2>1, AddsNewShifted DEF TabInv, Orderly
<1>6. HeldOld'
  BY <1>1 DEF TabInv, Orderly, HeldOld
<1>7. ListsSucceed'
  <2>1. \A c \in Callers : c # Mover /\ send[c].at # "idle" => send[c].op = "list" /\ ~send[c].error
    BY DEF TabInv, Orderly, ListsSucceed
  <2>2. ASSUME NEW c \in Callers, NEW i \in 1 .. Len(stdout'), Snapshot(c, stdout[i])' PROVE ~stdout'[i].error
    <3>1. stdout'[i] = stdout[i + 1] /\ i + 1 \in 1 .. Len(stdout)
      BY <1>1, <1>2, Shifted
    <3>2. Snapshot(c, stdout[i + 1])
      BY <1>1, <1>4, <2>2, <3>1 DEF Snapshot, IsReply
    <3> QED
      BY <3>1, <3>2 DEF TabInv, Orderly, ListsSucceed
  <2> QED
    BY <1>1, <2>1, <2>2 DEF ListsSucceed, Snapshot
<1>8. \A w \in Windows : Coming(w) => Coming(w)'
  BY <1>1, <1>2, ComingShifted
<1> QED
  BY <1>1, <1>2, <1>3, <1>4, <1>5, <1>6, <1>7, <1>8, BlockReadTabs DEF Orderly

LEMMA SnapshotReadTabs ==
  ASSUME IInv, WindowInv, TabInv, ~closed, FeedReply, UNCHANGED others
  PROVE  TabInv'
<1> DEFINE b == Head(stdout)
           W == Waiting(Head(queue))
<1>0. send' = [c \in Callers |->
                 IF c \in W
                 THEN [send[c] EXCEPT !.at = "answered", !.from = b.id, !.reply = b.data, !.error = b.error]
                 ELSE send[c]]
  BY DEF FeedReply
<1>1. /\ stdout # <<>> /\ IsReply(b) /\ stdout' = Tail(stdout) /\ tmux' = tmux /\ app' = app
      /\ addedAt' = addedAt /\ generation' = generation /\ requested' = requested /\ attached' = attached
      /\ relinking' = relinking /\ late' = late /\ Excused' = Excused
  BY DEF FeedReply, others, set, external, witness, IsReply, Excused
<1>2. /\ Head(queue) = First /\ b.id = First /\ b \in Answer
      /\ b = stdout[1] /\ 1 \in 1 .. Len(stdout) /\ stdout \in Seq(Blocks)
  <2>1. Head(queue) = First /\ b.id = First /\ b \in Answer
    BY <1>1, HeadsMeet
  <2>2. stdout \in Seq(Blocks)
    BY SendTypes
  <2>3. b = stdout[1] /\ 1 \in 1 .. Len(stdout)
    BY <1>1, <2>2, Shifted
  <2> QED
    BY <2>1, <2>2, <2>3
<1>3. send \in [Callers -> Sends]
  BY SendTypes
<1>4. \A c \in Callers : /\ c \notin W => send'[c] = send[c]
                         /\ c \in W => /\ send[c].at = "waiting" /\ send'[c].at = "answered" /\ send[c].id = First
                                       /\ send'[c].reply = b.data /\ send'[c].error = b.error
                         /\ send'[c].id = send[c].id /\ send'[c].op = send[c].op /\ send'[c].mark = send[c].mark
  BY <1>0, <1>2, <1>3 DEF Waiting, Sends
<1> HIDE DEF W, b
<1>5. \A c \in Callers : Listing(c)' => c \notin W /\ Listing(c) /\ send'[c].id = send[c].id
  BY <1>4 DEF Listing
<1>6. \A c \in Callers : c \in W /\ send[c].op = "list" => Snapshot(c, stdout[1])
  BY <1>1, <1>2, <1>4 DEF Snapshot, Listing
<1>7. ASSUME NEW c \in Callers, c \in Holding'
      PROVE  \/ c \in Holding /\ send'[c].reply = send[c].reply
             \/ Snapshot(c, stdout[1]) /\ send'[c].reply = stdout[1].data
  <2>1. CASE c \in W
    BY <1>2, <1>4, <1>6, <1>7, <2>1 DEF Holding
  <2>2. CASE c \notin W
    BY <1>4, <1>7, <2>2 DEF Holding
  <2> QED
    BY <2>1, <2>2
<1>8. AddsNew'
  <2>1. \A w \in Windows : Known(w)' => Known(w) \/ w \in Told(Head(stdout))
    <3>1. Shown' = Shown /\ Holding' \subseteq Callers
      BY <1>1 DEF Shown, Holding
    <3>2. \A c \in Callers : c \in Holding' =>
            \/ c \in Holding /\ Named(c)' = Named(c)
            \/ Named(c)' = Told(stdout[1])
      BY <1>7 DEF Named, Told, Snapshot
    <3> QED
      BY <1>2, <3>1, <3>2 DEF Known, b
  <2> QED
    BY <1>1, <1>2, <2>1, AddsNewShifted DEF TabInv, Orderly
<1>9. HeldOld'
  BY <1>1, <1>4, TheCallers DEF TabInv, Orderly, HeldOld
<1>10. ListsSucceed'
  <2>1. ASSUME NEW c \in Callers, c # Mover, send'[c].at # "idle" PROVE send'[c].op = "list" /\ ~send'[c].error
    <3>1. CASE c \in W
      <4>1. send[c].op = "list"
        BY <1>4, <2>1, <3>1 DEF TabInv, Orderly, ListsSucceed
      <4>2. ~stdout[1].error
        BY <1>2, <1>6, <3>1, <4>1 DEF TabInv, Orderly, ListsSucceed
      <4> QED
        BY <1>2, <1>4, <3>1, <4>1, <4>2
    <3>2. CASE c \notin W
      BY <1>4, <2>1, <3>2 DEF TabInv, Orderly, ListsSucceed
    <3> QED
      BY <3>1, <3>2
  <2>2. ASSUME NEW c \in Callers, NEW i \in 1 .. Len(stdout'), Snapshot(c, stdout[i])' PROVE ~stdout'[i].error
    <3>1. stdout'[i] = stdout[i + 1] /\ i + 1 \in 1 .. Len(stdout)
      BY <1>1, <1>2, Shifted
    <3>2. Snapshot(c, stdout[i + 1])
      BY <1>5, <2>2, <3>1 DEF Snapshot, IsReply
    <3> QED
      BY <3>1, <3>2 DEF TabInv, Orderly, ListsSucceed
  <2> QED
    BY <2>1, <2>2 DEF ListsSucceed, Snapshot
<1>11. ASSUME NEW w \in Windows, Coming(w) PROVE Coming(w)'
  <2>1. CASE Worker \in W
    <3>1. send[Worker].op = "list"
      BY <1>4, <2>1, TheCallers DEF TabInv, Orderly, ListsSucceed
    <3>2. Snapshot(Worker, stdout[1])
      BY <1>6, <2>1, <3>1, TheCallers
    <3>3. CASE requested
      BY <1>1, <3>3 DEF Coming
    <3>4. CASE w \in Told(stdout[1])
      <4>1. ~stdout[1].error
        BY <1>2, <3>2, TheCallers DEF TabInv, Orderly, ListsSucceed
      <4>2. Worker \in Holding'
        BY <1>2, <1>4, <2>1, <3>1, <4>1, TheCallers DEF Holding
      <4>3. Named(Worker)' = Told(stdout[1])
        BY <1>2, <1>4, <2>1, <3>2, TheCallers DEF Named, Told, Snapshot
      <4> QED
        BY <3>4, <4>2, <4>3 DEF Coming
    <3> QED
      BY <1>2, <1>4, <1>11, <2>1, <3>2, <3>3, <3>4, TheCallers DEF Coming, Holding
  <2>2. CASE Worker \notin W
    BY <1>1, <1>2, <1>4, <1>11, <2>2, ComingShifted, TheCallers
  <2> QED
    BY <2>1, <2>2
<1>12. stdout[1].kind \notin {"add", "close", "renamed"}
  BY <1>1, <1>2 DEF IsReply
<1> QED
  BY <1>1, <1>2, <1>5, <1>7, <1>8, <1>9, <1>10, <1>11, <1>12, BlockReadTabs DEF Orderly

LEMMA NoteReadTabs ==
  ASSUME IInv, WindowInv, TabInv, ~closed, FeedNote
  PROVE  TabInv'
<1> DEFINE note == Head(stdout)
<1>1. /\ stdout # <<>> /\ note.kind \in {"add", "close", "renamed"} /\ Fold(note) /\ stdout' = Tail(stdout)
      /\ send' = send /\ tmux' = tmux /\ attached' = attached /\ relinking' = relinking /\ Excused' = Excused
      /\ late' = IF Holding # {} /\ note.kind # "add" THEN late \cup {note.window} ELSE late
  BY DEF FeedNote, external, Excused
<1>2. stdout \in Seq(Blocks) /\ generation \in Nat
  BY SendTypes
<1>3. /\ 1 \in 1 .. Len(stdout) /\ note = stdout[1]
      /\ \A k, w : After(k, w, 0 + 1) => After(k, w, 0)'
      /\ \A k, w : After(k, w, 0) => After(k, w, 0)' \/ (stdout[1].kind = k /\ stdout[1].window = w)
  BY <1>1, <1>2, Shifted
<1>4. note \in Notice /\ note.window \in Windows /\ Told(note) = {note.window}
  <2>1. note \in Blocks
    BY <1>2, <1>3
  <2>2. ~IsReply(note) /\ note.kind # "server" /\ note \in Notice /\ note.window \in Windows
    BY <1>1, <2>1, BlockTypes
  <2> QED
    BY <2>2 DEF Told
<1>5. \A k, w : /\ After(k, w, 1) => After(k, w, 0)'
                /\ After(k, w, 0) => After(k, w, 0)' \/ (note.kind = k /\ note.window = w)
  BY <1>3
<1>6. \A w \in Windows : w \in Shown' => w \in Shown \/ w = note.window
  BY <1>1, <1>4, Folded DEF WindowInv, Shown
<1>7. app \in [Windows -> Names \cup {"unnamed", "absent"}] /\ addedAt \in [Windows -> Nat]
  BY DEF WindowInv, TabTypes
<1>8. PICK v \in Windows : v = note.window
  BY <1>4
<1> HIDE DEF note
<1>9. /\ Live' = Live /\ Live \subseteq Windows /\ Shown \subseteq Windows /\ Shown' \subseteq Windows
      /\ Holding' = Holding /\ Holding \subseteq Callers
      /\ \A c \in Callers : Named(c)' = Named(c) /\ (Listing(c)' <=> Listing(c))
  BY <1>1 DEF Live, Shown, Holding, Named, Listing
<1>10. InStream'
  BY <1>1, <1>2, <1>9, StreamShifted DEF TabInv
<1>11. AddsNew'
  <2>1. \A w \in Windows : Known(w)' => Known(w) \/ w \in Told(Head(stdout))
    BY <1>4, <1>6, <1>9 DEF Known, note
  <2> QED
    BY <1>1, <1>2, <2>1, AddsNewShifted DEF TabInv, Orderly
<1>12. ListsSucceed'
  <2>1. \A c \in Callers : c # Mover /\ send[c].at # "idle" => send[c].op = "list" /\ ~send[c].error
    BY DEF TabInv, Orderly, ListsSucceed
  <2>2. ASSUME NEW c \in Callers, NEW i \in 1 .. Len(stdout'), Snapshot(c, stdout[i])' PROVE ~stdout'[i].error
    <3>1. stdout'[i] = stdout[i + 1] /\ i + 1 \in 1 .. Len(stdout)
      BY <1>1, <1>2, Shifted
    <3>2. Snapshot(c, stdout[i + 1])
      BY <1>1, <1>9, <2>2, <3>1 DEF Snapshot, IsReply
    <3> QED
      BY <3>1, <3>2 DEF TabInv, Orderly, ListsSucceed
  <2> QED
    BY <1>1, <2>1, <2>2 DEF ListsSucceed, Snapshot
<1>13. \A w \in Shown \cap Live : w \in Shown' \/ w \in Excused
  <2>1. [Next]_wvars
    BY DEF Next, Client
  <2> QED
    BY <1>9, <2>1, TabTaken DEF Shown
<1>14. requested => requested'
  BY <1>1 DEF Fold, RequestReconcile
<1>15. \A w \in Windows : Coming(w) => Coming(w)'
  BY <1>1, <1>2, <1>14, ComingShifted
\* What each notification does.
<1>16. ASSUME note.kind = "add"
       PROVE  /\ requested' /\ generation' = generation + 1 /\ v \notin Shown /\ v \notin relinking
              /\ addedAt' = [addedAt EXCEPT ![v] = generation + 1]
              /\ app' = [app EXCEPT ![v] = "unnamed"]
  <2>1. ~KnownBefore(v, 1) /\ v \notin relinking
    BY <1>3, <1>8, <1>16 DEF TabInv, Orderly, AddsNew
  <2>2. v \notin Shown
    BY <2>1 DEF KnownBefore, Known
  <2> QED
    BY <1>1, <1>8, <1>16, <2>1, <2>2 DEF Fold, RequestReconcile
<1>17. ASSUME note.kind = "close"
       PROVE  /\ generation' = generation
              /\ app' = IF v \in relinking THEN app ELSE [app EXCEPT ![v] = "absent"]
              /\ addedAt' = IF v \in relinking THEN addedAt ELSE [addedAt EXCEPT ![v] = 0]
  BY <1>1, <1>8, <1>17 DEF Fold, RelinkHeld
<1>18. ASSUME note.kind = "renamed"
       PROVE  /\ generation' = generation /\ addedAt' = addedAt
              /\ app' = IF v \in Shown THEN [app EXCEPT ![v] = note.name] ELSE app
  BY <1>1, <1>8, <1>18 DEF Fold
<1>19. HeldOld'
  <2>1. \A w \in Windows : addedAt[w] <= generation /\ addedAt[w] \in Nat
    BY <1>7 DEF TabInv, Orderly, HeldOld
  <2>2. \A w \in Windows : addedAt'[w] <= generation'
    <3>1. CASE note.kind = "add"
      BY <1>2, <1>7, <1>16, <2>1, <3>1
    <3>2. CASE note.kind = "close"
      BY <1>2, <1>7, <1>17, <2>1, <3>2
    <3>3. CASE note.kind = "renamed"
      BY <1>18, <2>1, <3>3
    <3> QED
      BY <1>1, <3>1, <3>2, <3>3
  <2>3. \A w \in relinking : addedAt'[w] = addedAt[w] \/ addedAt'[w] = 0
    <3>1. \A w \in relinking : w \in Windows
      BY DEF WindowInv, TabTypes
    <3>2. CASE note.kind = "add"
      BY <1>7, <1>16, <3>1, <3>2
    <3>3. CASE note.kind = "close"
      BY <1>7, <1>17, <3>1, <3>3
    <3>4. CASE note.kind = "renamed"
      BY <1>18, <3>4
    <3> QED
      BY <1>1, <3>2, <3>3, <3>4
  <2>4. \A w \in relinking : tmux[w] # "unborn" /\ (send[Mover].op = "list" => addedAt[w] <= send[Mover].mark)
    BY DEF TabInv, Orderly, HeldOld
  <2>5. send[Mover].mark \in Nat
    BY SendTypes, TheCallers
  <2>6. \A w \in relinking : send[Mover].op = "list" => addedAt'[w] <= send[Mover].mark
    BY <2>3, <2>4, <2>5
  <2> QED
    BY <1>1, <2>2, <2>4, <2>6 DEF HeldOld
<1>20. InHand'
  <2>1. \A c \in Holding : note.kind # "add" => note.window \in late'
    BY <1>1
  <2>2. late \subseteq late'
    BY <1>1
  <2>3. GoneHeld'
    <3>1. \A c \in Holding : \A w \in Named(c) \ Live : After("close", w, 0)' \/ w \in late'
      BY <1>5, <2>1, <2>2 DEF TabInv, InHand, GoneHeld
    <3> QED
      BY <1>9, <3>1 DEF GoneHeld
  <2>4. HereHeld'
    <3>1. \A c \in Holding : \A w \in Live : w \in Named(c) \/ After("add", w, 0) \/ w \in Shown \/ w \in Excused
      BY DEF TabInv, InHand, HereHeld
    <3>2. note.kind = "add" => v \in Shown'
      BY <1>7, <1>16 DEF Shown
    <3>3. \A c \in Holding : \A w \in Live : w \in Named(c) \/ After("add", w, 0)' \/ w \in Shown' \/ w \in Excused
      BY <1>5, <1>8, <1>13, <3>1, <3>2
    <3> QED
      BY <1>1, <1>9, <3>3 DEF HereHeld
  <2>5. NameHeld'
    <3>1. \A c \in Holding : \A pair \in send[c].reply : pair[1] \in Live =>
            pair[2] = tmux[pair[1]] \/ After("renamed", pair[1], 0)' \/ pair[1] \in late'
      BY <1>5, <2>1, <2>2 DEF TabInv, InHand, NameHeld
    <3> QED
      BY <1>1, <1>9, <3>1 DEF NameHeld
  <2> QED
    BY <2>3, <2>4, <2>5 DEF InHand
<1>21. GoneShown'
  <2> SUFFICES ASSUME NEW w \in Windows, w \in Shown', w \notin Live
               PROVE  After("close", w, 0)' \/ w \in relinking \/ w \in late' \/ w \in Excused
    BY <1>1, <1>9 DEF GoneShown
  <2>1. CASE w \notin Shown
    <3>1. w = v
      BY <1>6, <1>8, <2>1
    <3>2. note.kind = "add"
      <4>1. CASE note.kind = "close"
        BY <1>7, <1>17, <2>1, <3>1, <4>1 DEF Shown
      <4>2. CASE note.kind = "renamed"
        BY <1>18, <2>1, <3>1, <4>2 DEF Shown
      <4> QED
        BY <1>1, <4>1, <4>2
    <3>3. After("close", w, 1)
      BY <1>3, <1>4, <1>8, <3>1, <3>2 DEF TabInv, InStream, GoneTold
    <3> QED
      BY <1>5, <3>3
  <2>2. CASE w \in Shown
    <3>1. After("close", w, 0) \/ w \in relinking \/ w \in late \/ w \in Excused
      BY <2>2 DEF TabInv, OnScreen, GoneShown
    <3>2. ASSUME note.kind = "close", w = v PROVE w \in relinking
      BY <1>7, <1>17, <3>2 DEF Shown
    <3> QED
      BY <1>1, <1>5, <1>8, <3>1, <3>2
  <2> QED
    BY <2>1, <2>2
<1>22. HereShown'
  <2>1. attached => \A w \in Live : After("add", w, 0) \/ w \in Shown \/ w \in Excused
    BY DEF TabInv, OnScreen, HereShown
  <2>2. note.kind = "add" => v \in Shown'
    BY <1>7, <1>16 DEF Shown
  <2>3. attached => \A w \in Live : After("add", w, 0)' \/ w \in Shown' \/ w \in Excused
    BY <1>5, <1>8, <1>13, <2>1, <2>2
  <2> QED
    BY <1>1, <1>9, <2>3 DEF HereShown
<1>23. NameShown'
  <2> SUFFICES ASSUME NEW w \in Windows, w \in Shown', w \in Live
               PROVE  \/ app'[w] = tmux[w] \/ After("renamed", w, 0)' \/ w \in late'
                      \/ app'[w] = "unnamed" /\ Coming(w)'
    BY <1>1, <1>9 DEF NameShown
  <2>1. late \subseteq late'
    BY <1>1
  <2>2. ASSUME w \in Shown, app'[w] = app[w], ~(note.kind = "renamed" /\ w = v)
        PROVE  \/ app'[w] = tmux[w] \/ After("renamed", w, 0)' \/ w \in late'
               \/ app'[w] = "unnamed" /\ Coming(w)'
    <3>1. \/ app[w] = tmux[w] \/ After("renamed", w, 0) \/ w \in late
          \/ app[w] = "unnamed" /\ Coming(w)
      BY <2>2 DEF TabInv, OnScreen, NameShown
    <3> QED
      BY <1>5, <1>8, <1>15, <2>1, <2>2, <3>1
  <2>3. CASE note.kind = "add"
    <3>1. CASE w = v
      <4>1. app'[w] = "unnamed" /\ requested'
        BY <1>7, <1>16, <2>3, <3>1
      <4>2. Coming(w)'
        BY <4>1 DEF Coming
      <4> QED
        BY <4>1, <4>2
    <3>2. CASE w # v
      <4>1. app'[w] = app[w]
        BY <1>7, <1>16, <2>3, <3>2
      <4> QED
        BY <1>6, <1>8, <2>2, <2>3, <3>2, <4>1
    <3> QED
      BY <3>1, <3>2
  <2>4. CASE note.kind = "close"
    <3>1. app'[w] = app[w] /\ w \in Shown
      BY <1>7, <1>17, <2>4 DEF Shown
    <3> QED
      BY <2>2, <2>4, <3>1
  <2>5. CASE note.kind = "renamed"
    <3>1. CASE w = v
      <4>1. app'[w] = note.name
        BY <1>7, <1>18, <2>5, <3>1 DEF Shown
      <4>2. note.name = tmux[w] \/ After("renamed", w, 1)
        BY <1>3, <1>8, <2>5, <3>1 DEF TabInv, InStream, NameLast
      <4> QED
        BY <1>5, <4>1, <4>2
    <3>2. CASE w # v
      <4>1. app'[w] = app[w]
        BY <1>7, <1>18, <2>5, <3>2
      <4> QED
        BY <1>6, <1>8, <2>2, <3>2, <4>1
    <3> QED
      BY <3>1, <3>2
  <2> QED
    BY <1>1, <2>3, <2>4, <2>5
<1> QED
  BY <1>10, <1>11, <1>12, <1>19, <1>20, <1>21, <1>22, <1>23 DEF TabInv, Orderly, OnScreen

-----------------------------------------------------------------------------
(* tmux.                                                                   *)

\* What tmux says of its windows: what it adds, closes and renames it
\* announces, and what it announces or answers is how they are.
Announces ==
  /\ \A w \in Live \ Live' : \E j \in Len(stdout) + 1 .. Len(stdout') : stdout'[j].kind = "close" /\ stdout'[j].window = w
  /\ \A w \in Live' \ Live : \E j \in Len(stdout) + 1 .. Len(stdout') : stdout'[j].kind = "add" /\ stdout'[j].window = w
  /\ \A w \in Live' : tmux'[w] # tmux[w] =>
        \E j \in Len(stdout) + 1 .. Len(stdout') : stdout'[j].kind \in {"add", "renamed"} /\ stdout'[j].window = w
Truthful(j) ==
  /\ IsReply(stdout'[j]) => \A pair \in stdout'[j].data : pair[1] \in Live' /\ pair[2] = tmux'[pair[1]]
  /\ \A c \in Callers : Snapshot(c, stdout'[j]) => Live' \subseteq Told(stdout'[j]) /\ ~stdout'[j].error
  /\ stdout'[j].kind = "add" =>
        j = Len(stdout) + 1 /\ tmux[stdout'[j].window] = "unborn" /\ stdout'[j].window \in Live'
  /\ stdout'[j].kind = "renamed" => stdout'[j].window \in Live /\ stdout'[j].name = tmux'[stdout'[j].window]

LEMMA Appended ==
  ASSUME WindowInv, TabInv, ~closed, stdout \in Seq(Blocks), stdout' \in Seq(Blocks), Len(stdout) <= Len(stdout'),
         \A i \in 1 .. Len(stdout) : stdout'[i] = stdout[i],
         \A w \in Windows : tmux[w] # "unborn" => tmux'[w] # "unborn",
         Announces, \A j \in Len(stdout) + 1 .. Len(stdout') : Truthful(j),
         send' = send, app' = app, addedAt' = addedAt, generation' = generation, requested' = requested,
         attached' = attached, relinking' = relinking, late' = late, Excused' = Excused
  PROVE  TabInv'
<1>0. Len(stdout) \in Nat /\ Len(stdout') \in Nat
  BY LenProperties
<1>1. /\ Shown' = Shown /\ Shown \subseteq Windows /\ Holding' = Holding /\ Holding \subseteq Callers
      /\ Live \subseteq Windows /\ Live' \subseteq Windows
      /\ \A c \in Callers : Named(c)' = Named(c)
      /\ \A w \in Windows : Known(w)' => Known(w)
  BY DEF Shown, Holding, Live, Named, Known
<1>2. \A c \in Callers : \A b : Snapshot(c, b)' <=> Snapshot(c, b)
  BY DEF Snapshot, Listing
<1>3. \A k, w : \A i \in Nat : After(k, w, i) => After(k, w, i)'
  <2> SUFFICES ASSUME NEW k, NEW w, NEW i \in Nat, NEW j \in i + 1 .. Len(stdout), stdout[j].kind = k, stdout[j].window = w
               PROVE  \E n \in i + 1 .. Len(stdout') : stdout'[n].kind = k /\ stdout'[n].window = w
    BY DEF After
  <2>1. j \in 1 .. Len(stdout) /\ j \in i + 1 .. Len(stdout')
    BY <1>0
  <2> QED
    BY <2>1
\* What tmux announces comes after all that the stream held.
<1>4. ASSUME NEW k, NEW w, NEW i \in 0 .. Len(stdout), NEW j \in Len(stdout) + 1 .. Len(stdout'),
             stdout'[j].kind = k, stdout'[j].window = w
      PROVE  After(k, w, i)'
  <2>1. j \in i + 1 .. Len(stdout')
    BY <1>0
  <2> QED
    BY <1>4, <2>1 DEF After
<1>5. \A w \in Live \ Live' : \A i \in 0 .. Len(stdout) : After("close", w, i)'
  BY <1>4 DEF Announces
<1>6. \A w \in Live' \ Live : \A i \in 0 .. Len(stdout) : After("add", w, i)'
  BY <1>4 DEF Announces
\* A window tmux adds is one nobody knew.
<1>7. ASSUME NEW w \in Live', tmux[w] # "unborn" PROVE w \in Live
  <2>1. ASSUME w \notin Live PROVE FALSE
    <3>1. PICK j \in Len(stdout) + 1 .. Len(stdout') : stdout'[j].kind = "add" /\ stdout'[j].window = w
      BY <2>1 DEF Announces
    <3>2. Truthful(j)
      OBVIOUS
    <3> QED
      BY <1>7, <3>1, <3>2 DEF Truthful
  <2> QED
    BY <2>1
<1>8. ASSUME NEW w \in Windows, NEW i \in 1 .. Len(stdout) + 1, KnownBefore(w, i)
      PROVE  tmux[w] # "unborn"
  <2>1. \A j \in 1 .. (i - 1) : j \in 1 .. ((Len(stdout) + 1) - 1)
    BY <1>0
  <2>2. KnownBefore(w, Len(stdout) + 1)
    BY <1>8, <2>1 DEF KnownBefore
  <2> QED
    BY <2>2 DEF WindowInv, TellInv, Born
<1>9. ASSUME NEW w \in Windows, Known(w) PROVE tmux[w] # "unborn"
  <2>1. 1 \in 1 .. Len(stdout) + 1 /\ KnownBefore(w, 1)
    BY <1>0, <1>9 DEF KnownBefore
  <2> QED
    BY <1>8, <2>1
<1>10. ASSUME NEW i \in 1 .. Len(stdout), NEW w \in Told(stdout[i]) PROVE w \in Windows /\ tmux[w] # "unborn"
  <2>1. w \in Windows
    BY BlockTypes
  <2>2. i \in 1 .. ((Len(stdout) + 1) - 1) /\ Len(stdout) + 1 \in 1 .. Len(stdout) + 1
    BY <1>0
  <2>3. KnownBefore(w, Len(stdout) + 1)
    BY <2>2 DEF KnownBefore
  <2> QED
    BY <1>8, <2>1, <2>2, <2>3
<1>11. ASSUME NEW w \in Live', w \in Live, NEW i \in 0 .. Len(stdout) PROVE tmux'[w] = tmux[w] \/ After("renamed", w, i)'
  <2>1. SUFFICES ASSUME tmux'[w] # tmux[w] PROVE After("renamed", w, i)'
    OBVIOUS
  <2>2. PICK j \in Len(stdout) + 1 .. Len(stdout') : stdout'[j].kind \in {"add", "renamed"} /\ stdout'[j].window = w
    BY <2>1 DEF Announces
  <2>3. stdout'[j].kind # "add"
    <3>1. Truthful(j)
      OBVIOUS
    <3>2. tmux[w] # "unborn"
      BY <1>11, WindowsAssumption DEF Live
    <3> QED
      BY <2>2, <3>1, <3>2 DEF Truthful
  <2> QED
    BY <1>4, <2>2, <2>3
<1>12. \A i \in 1 .. Len(stdout') : i \in 1 .. Len(stdout) \/ i \in Len(stdout) + 1 .. Len(stdout')
  BY <1>0
<1>13. 0 \in 0 .. Len(stdout) /\ \A i \in 1 .. Len(stdout) : i \in 0 .. Len(stdout) /\ i \in Nat
  BY <1>0
<1>14. AddsNew'
  <2> SUFFICES ASSUME NEW i \in 1 .. Len(stdout'), stdout'[i].kind = "add"
               PROVE  ~KnownBefore(stdout[i].window, i)' /\ stdout'[i].window \notin relinking
    BY DEF AddsNew, KnownBefore, Told, IsReply
  <2>1. PICK w : w = stdout'[i].window
    OBVIOUS
  <2>2. stdout'[i] \in Blocks
    OBVIOUS
  <2>3. w \in Windows
    BY <2>1, <2>2, BlockTypes
  <2>4. i \in 1 .. Len(stdout) + 1 /\ ~KnownBefore(w, i) /\ w \notin relinking
    <3>1. CASE i \in 1 .. Len(stdout)
      <4>1. stdout[i].kind = "add" /\ stdout[i].window = w
        BY <2>1, <3>1
      <4>2. i \in 1 .. Len(stdout) + 1
        BY <1>0, <3>1
      <4> QED
        BY <3>1, <4>1, <4>2 DEF TabInv, Orderly, AddsNew
    <3>2. CASE i \in Len(stdout) + 1 .. Len(stdout')
      <4>1. i = Len(stdout) + 1 /\ tmux[w] = "unborn"
        BY <2>1, <3>2 DEF Truthful
      <4>2. i \in 1 .. Len(stdout) + 1
        BY <1>0, <4>1
      <4>3. ~KnownBefore(w, i)
        BY <1>8, <2>3, <4>1, <4>2
      <4>4. w \notin relinking
        BY <4>1 DEF TabInv, Orderly, HeldOld
      <4> QED
        BY <4>2, <4>3, <4>4
    <3> QED
      BY <1>12, <3>1, <3>2
  <2>5. ~KnownBefore(w, i)'
    BY <1>1, <2>3, <2>4, KnownAppended
  <2>6. KnownBefore(stdout[i].window, i)' => KnownBefore(w, i)'
    BY <2>1 DEF KnownBefore, Known
  <2> QED
    BY <2>1, <2>4, <2>5, <2>6
<1>15. HeldOld'
  <2>1. relinking \subseteq Windows
    BY DEF WindowInv, TabTypes
  <2> QED
    BY <2>1 DEF TabInv, Orderly, HeldOld
<1>16. ListsSucceed'
  <2>1. \A c \in Callers : c # Mover /\ send[c].at # "idle" => send[c].op = "list" /\ ~send[c].error
    BY DEF TabInv, Orderly, ListsSucceed
  <2>2. ASSUME NEW c \in Callers, NEW i \in 1 .. Len(stdout'), Snapshot(c, stdout'[i]) PROVE ~stdout'[i].error
    <3>1. CASE i \in 1 .. Len(stdout)
      BY <2>2, <3>1 DEF TabInv, Orderly, ListsSucceed
    <3>2. CASE i \in Len(stdout) + 1 .. Len(stdout')
      BY <2>2, <3>2 DEF Truthful
    <3> QED
      BY <1>12, <3>1, <3>2
  <2> QED
    BY <2>1, <2>2 DEF ListsSucceed, Snapshot, Listing, IsReply
<1>17. GoneTold'
  <2>1. ASSUME NEW i \in 1 .. Len(stdout'), IsReply(stdout'[i]) \/ stdout'[i].kind = "add",
               NEW w \in Told(stdout'[i]), w \notin Live'
        PROVE  After("close", w, i)'
    <3>1. CASE i \in 1 .. Len(stdout)
      <4>1. CASE w \in Live
        BY <1>5, <1>13, <2>1, <3>1, <4>1
      <4>2. CASE w \notin Live
        BY <1>3, <1>13, <2>1, <3>1, <4>2 DEF TabInv, InStream, GoneTold
      <4> QED
        BY <4>1, <4>2
    <3>2. CASE i \in Len(stdout) + 1 .. Len(stdout')
      <4>1. Truthful(i)
        BY <3>2
      <4>2. CASE IsReply(stdout'[i])
        BY <2>1, <4>1, <4>2 DEF Truthful, Told
      <4>3. CASE ~IsReply(stdout'[i]) /\ stdout'[i].kind = "add"
        BY <2>1, <4>1, <4>3 DEF Truthful, Told
      <4> QED
        BY <2>1, <4>2, <4>3
    <3> QED
      BY <1>12, <3>1, <3>2
  <2> QED
    BY <2>1 DEF GoneTold, Told, IsReply
<1>18. HereTold'
  <2>1. ASSUME NEW c \in Callers, NEW i \in 1 .. Len(stdout'), Snapshot(c, stdout'[i]), NEW w \in Live'
        PROVE  w \in Told(stdout'[i]) \/ After("add", w, i)'
    <3>1. CASE i \in 1 .. Len(stdout)
      <4>1. CASE w \in Live
        BY <1>3, <1>13, <2>1, <3>1, <4>1 DEF TabInv, InStream, HereTold
      <4>2. CASE w \notin Live
        BY <1>6, <1>13, <3>1, <4>2
      <4> QED
        BY <4>1, <4>2
    <3>2. CASE i \in Len(stdout) + 1 .. Len(stdout')
      BY <2>1, <3>2 DEF Truthful
    <3> QED
      BY <1>12, <3>1, <3>2
  <2> QED
    BY <2>1 DEF HereTold, Told, IsReply, Snapshot, Listing
<1>19. NameLast'
  <2>1. ASSUME NEW i \in 1 .. Len(stdout'), NEW w \in Live', stdout'[i].kind = "renamed", stdout'[i].window = w
        PROVE  stdout'[i].name = tmux'[w] \/ After("renamed", w, i)'
    <3>1. CASE i \in 1 .. Len(stdout)
      <4>1. w \in Told(stdout[i])
        BY <2>1, <3>1 DEF Told, IsReply
      <4>2. w \in Live
        BY <1>7, <1>10, <3>1, <4>1
      <4>3. stdout[i].name = tmux[w] \/ After("renamed", w, i)
        BY <2>1, <3>1, <4>2 DEF TabInv, InStream, NameLast
      <4> QED
        BY <1>3, <1>11, <1>13, <3>1, <4>2, <4>3
    <3>2. CASE i \in Len(stdout) + 1 .. Len(stdout')
      BY <2>1, <3>2 DEF Truthful
    <3> QED
      BY <1>12, <3>1, <3>2
  <2> QED
    BY <2>1 DEF NameLast, After
<1>20. NameTold'
  <2>1. ASSUME NEW i \in 1 .. Len(stdout'), IsReply(stdout'[i]), NEW pair \in stdout'[i].data, pair[1] \in Live'
        PROVE  pair[2] = tmux'[pair[1]] \/ After("renamed", pair[1], i)'
    <3>1. CASE i \in 1 .. Len(stdout)
      <4>1. pair[1] \in Told(stdout[i])
        BY <2>1, <3>1 DEF Told
      <4>2. pair[1] \in Live
        BY <1>7, <1>10, <2>1, <3>1, <4>1
      <4>3. pair[2] = tmux[pair[1]] \/ After("renamed", pair[1], i)
        BY <2>1, <3>1, <4>2 DEF TabInv, InStream, NameTold
      <4> QED
        BY <1>3, <1>11, <1>13, <2>1, <3>1, <4>2, <4>3
    <3>2. CASE i \in Len(stdout) + 1 .. Len(stdout')
      BY <2>1, <3>2 DEF Truthful
    <3> QED
      BY <1>12, <3>1, <3>2
  <2> QED
    BY <2>1 DEF NameTold, IsReply
<1>21. InHand'
  <2>1. GoneHeld'
    <3>1. ASSUME NEW c \in Holding, NEW w \in Named(c), w \notin Live' PROVE After("close", w, 0)' \/ w \in late
      <4>1. CASE w \in Live
        BY <1>5, <1>13, <3>1, <4>1
      <4>2. CASE w \notin Live
        BY <1>3, <1>13, <4>2 DEF TabInv, InHand, GoneHeld
      <4> QED
        BY <4>1, <4>2
    <3> QED
      BY <1>1, <3>1 DEF GoneHeld
  <2>2. HereHeld'
    <3>1. ASSUME NEW c \in Holding, NEW w \in Live'
          PROVE  w \in Named(c) \/ After("add", w, 0)' \/ w \in Shown \/ w \in Excused
      <4>1. CASE w \in Live
        BY <1>3, <1>13, <4>1 DEF TabInv, InHand, HereHeld
      <4>2. CASE w \notin Live
        BY <1>6, <1>13, <4>2
      <4> QED
        BY <4>1, <4>2
    <3> QED
      BY <1>1, <3>1 DEF HereHeld
  <2>3. NameHeld'
    <3>1. ASSUME NEW c \in Holding, NEW pair \in send[c].reply, pair[1] \in Live'
          PROVE  pair[2] = tmux'[pair[1]] \/ After("renamed", pair[1], 0)' \/ pair[1] \in late
      <4>1. Known(pair[1])
        BY DEF Known, Named
      <4>2. pair[1] \in Live
        BY <1>1, <1>7, <1>9, <3>1, <4>1
      <4>3. pair[2] = tmux[pair[1]] \/ After("renamed", pair[1], 0) \/ pair[1] \in late
        BY <4>2 DEF TabInv, InHand, NameHeld
      <4> QED
        BY <1>3, <1>11, <1>13, <3>1, <4>2, <4>3
    <3> QED
      BY <1>1, <3>1 DEF NameHeld
  <2> QED
    BY <2>1, <2>2, <2>3 DEF InHand
<1>22. GoneShown'
  <2>1. ASSUME NEW w \in Shown, w \notin Live'
        PROVE  After("close", w, 0)' \/ w \in relinking \/ w \in late \/ w \in Excused
    <3>1. CASE w \in Live
      BY <1>5, <1>13, <2>1, <3>1
    <3>2. CASE w \notin Live
      BY <1>3, <1>13, <3>2 DEF TabInv, OnScreen, GoneShown
    <3> QED
      BY <3>1, <3>2
  <2> QED
    BY <1>1, <2>1 DEF GoneShown
<1>23. HereShown'
  <2>1. ASSUME attached, NEW w \in Live' PROVE After("add", w, 0)' \/ w \in Shown \/ w \in Excused
    <3>1. CASE w \in Live
      BY <1>3, <1>13, <2>1, <3>1 DEF TabInv, OnScreen, HereShown
    <3>2. CASE w \notin Live
      BY <1>6, <1>13, <3>2
    <3> QED
      BY <3>1, <3>2
  <2> QED
    BY <1>1, <2>1 DEF HereShown
<1>24. NameShown'
  <2>1. ASSUME NEW w \in Shown, w \in Live'
        PROVE  \/ app[w] = tmux'[w] \/ After("renamed", w, 0)' \/ w \in late
               \/ app[w] = "unnamed" /\ Coming(w)'
    <3>1. w \in Live
      BY <1>1, <1>7, <1>9, <2>1 DEF Known
    <3>2. \/ app[w] = tmux[w] \/ After("renamed", w, 0) \/ w \in late
          \/ app[w] = "unnamed" /\ Coming(w)
      BY <3>1 DEF TabInv, OnScreen, NameShown
    <3>3. Coming(w) => Coming(w)'
      <4>1. ASSUME \A i \in 1 .. Len(stdout) : Snapshot(Worker, stdout[i]) => w \in Told(stdout[i]),
                   NEW i \in 1 .. Len(stdout'), Snapshot(Worker, stdout'[i])
            PROVE  w \in Told(stdout'[i])
        <5>1. CASE i \in 1 .. Len(stdout)
          BY <4>1, <5>1
        <5>2. CASE i \in Len(stdout) + 1 .. Len(stdout')
          BY <2>1, <4>1, <5>2, TheCallers DEF Truthful
        <5> QED
          BY <1>12, <5>1, <5>2
      <4>2. ASSUME NEW i \in 1 .. Len(stdout')
            PROVE  Told(stdout[i])' = Told(stdout'[i]) /\ (Snapshot(Worker, stdout[i])' <=> Snapshot(Worker, stdout'[i]))
        BY DEF Told, IsReply, Snapshot, Listing
      <4> QED
        BY <1>1, <4>1, <4>2, TheCallers DEF Coming, Listing
    <3> QED
      BY <1>3, <1>11, <1>13, <2>1, <3>1, <3>2, <3>3
  <2> QED
    BY <1>1, <2>1 DEF NameShown
<1> QED
  BY <1>14, <1>15, <1>16, <1>17, <1>18, <1>19, <1>20, <1>21, <1>22, <1>23, <1>24
  DEF TabInv, Orderly, InStream, OnScreen

LEMMA ChangedTabs ==
  ASSUME IInv, WindowInv, TabInv, ~closed, NEW w \in Windows, NEW state \in Names \cup {"closed"}, NEW n \in Names,
         NEW kind \in {"add", "close", "renamed"}, Change(w, state, Note(kind, w, n)),
         kind = "add" => tmux[w] = "unborn" /\ state = n,
         kind = "close" => w \in Live /\ state = "closed",
         kind = "renamed" => w \in Live /\ state = n
  PROVE  TabInv'
<1> DEFINE b == Note(kind, w, n)
<1>1. /\ tmux' = [tmux EXCEPT ![w] = state] /\ stdout' = stdout \o <<b>>
      /\ send' = send /\ generation' = generation /\ app' = app /\ addedAt' = addedAt /\ requested' = requested
      /\ attached' = attached /\ relinking' = relinking /\ late' = late /\ Excused' = Excused
  BY DEF Change, set, witness, Excused
<1>2. tmux \in [Windows -> Names \cup {"unborn", "closed"}] /\ stdout \in Seq(Blocks) /\ Len(stdout) \in Nat
  BY SendTypes DEF WindowInv, TabTypes
<1>3. b \in Blocks /\ ~IsReply(b) /\ b.kind = kind /\ b.window = w /\ b.name = n
  BY Notes DEF Note
<1> HIDE DEF b
<1>4. /\ stdout' \in Seq(Blocks) /\ Len(stdout') = Len(stdout) + 1
      /\ \A i \in 1 .. Len(stdout) : stdout'[i] = stdout[i]
      /\ stdout'[Len(stdout) + 1] = b
  <2>1. <<b>> \in Seq(Blocks) /\ Len(<<b>>) = 1 /\ <<b>>[1] = b
    BY <1>3
  <2> QED
    BY <1>1, <1>2, <2>1, ConcatProperties
<1>5. Len(stdout) + 1 \in Len(stdout) + 1 .. Len(stdout') /\ \A j \in Len(stdout) + 1 .. Len(stdout') : j = Len(stdout) + 1
  BY <1>2, <1>4
<1>6. tmux'[w] = state /\ \A v \in Windows : v # w => tmux'[v] = tmux[v]
  BY <1>1, <1>2
<1>7. state # "unborn" /\ "closed" \notin Names /\ "unborn" \notin Names
  BY WindowsAssumption
<1>8. /\ \A v \in Live \ Live' : v = w /\ kind = "close"
      /\ \A v \in Live' \ Live : v = w /\ kind = "add"
      /\ \A v \in Live' : tmux'[v] # tmux[v] => v = w /\ kind # "close"
      /\ kind # "close" => w \in Live'
  BY <1>6, <1>7 DEF Live
<1>9. Announces
  BY <1>3, <1>4, <1>5, <1>8 DEF Announces
<1>10. ASSUME NEW j \in Len(stdout) + 1 .. Len(stdout') PROVE Truthful(j)
  BY <1>3, <1>4, <1>5, <1>6, <1>8 DEF Truthful, Snapshot
<1>11. \A v \in Windows : tmux[v] # "unborn" => tmux'[v] # "unborn"
  BY <1>6, <1>7
<1>12. Len(stdout) <= Len(stdout')
  BY <1>2, <1>4
<1> QED
  BY <1>1, <1>2, <1>4, <1>9, <1>10, <1>11, <1>12, Appended

LEMMA ServerSpokeTabs ==
  ASSUME IInv, WindowInv, TabInv, ~closed, TmuxServerBlock
  PROVE  TabInv'
<1>1. /\ stdout' = stdout \o <<ServerBlock>> /\ tmux' = tmux
      /\ send' = send /\ generation' = generation /\ app' = app /\ addedAt' = addedAt /\ requested' = requested
      /\ attached' = attached /\ relinking' = relinking /\ late' = late /\ Excused' = Excused
  BY DEF TmuxServerBlock, set, external, witness, Excused
<1>2. /\ ServerBlock \in Blocks /\ ~IsReply(ServerBlock) /\ ServerBlock.kind \notin {"add", "renamed"}
      /\ stdout \in Seq(Blocks)
  BY SendTypes DEF ServerBlock, Blocks, IsReply
<1>3. /\ stdout' \in Seq(Blocks) /\ Len(stdout) <= Len(stdout')
      /\ \A i \in 1 .. Len(stdout) : stdout'[i] = stdout[i]
      /\ \A i \in Len(stdout) + 1 .. Len(stdout') : stdout'[i] = ServerBlock
  BY <1>1, <1>2, BlockAppended
<1>4. Live' = Live
  BY <1>1 DEF Live
<1>5. Announces
  BY <1>1, <1>4 DEF Announces
<1>6. ASSUME NEW j \in Len(stdout) + 1 .. Len(stdout') PROVE Truthful(j)
  BY <1>2, <1>3 DEF Truthful, Snapshot
<1> QED
  BY <1>1, <1>2, <1>3, <1>5, <1>6, Appended

LEMMA CommandExecutedTabs ==
  ASSUME IInv, WindowInv, TabInv, ~closed, TmuxExecutes
  PROVE  TabInv'
<1> DEFINE command == Head(stdin)
<1>1. /\ stdin # <<>> /\ tmux' = tmux
      /\ send' = send /\ generation' = generation /\ app' = app /\ addedAt' = addedAt /\ requested' = requested
      /\ attached' = attached /\ relinking' = relinking /\ late' = late /\ Excused' = Excused
  BY DEF TmuxExecutes, set, external, witness, Excused
<1>2. PICK out \in Executed(command) : stdout' = stdout \o out
  BY DEF TmuxExecutes
<1>3. command \in Command /\ command = stdin[1] /\ 1 \in 1 .. Len(stdin)
  <2>1. stdin \in Seq(Command)
    BY SendTypes
  <2> QED
    BY <1>1, <2>1, HeadTailProperties, LenProperties
<1> HIDE DEF command
<1>4. /\ stdout' \in Seq(Blocks) /\ Len(stdout) <= Len(stdout') /\ stdout \in Seq(Blocks)
      /\ \A i \in 1 .. Len(stdout) : stdout'[i] = stdout[i]
      /\ \A i \in Len(stdout) + 1 .. Len(stdout') :
           \/ Lists(stdout'[i], command)
           \/ Answers(stdout'[i], command)
           \/ Unlinks(stdout'[i], command)
  BY <1>2, <1>3, OutputAppended
<1>5. Live' = Live
  BY <1>1 DEF Live
<1>6. Announces
  BY <1>1, <1>5 DEF Announces
<1>7. ASSUME NEW j \in Len(stdout) + 1 .. Len(stdout') PROVE Truthful(j)
  <2>1. CASE Lists(stdout'[j], command)
    <3>1. stdout'[j].data = {<<w, tmux[w]>> : w \in Live} /\ ~stdout'[j].error /\ IsReply(stdout'[j])
      BY <2>1 DEF Lists
    <3>2. \A pair \in stdout'[j].data : pair[1] \in Live /\ pair[2] = tmux[pair[1]]
      BY <3>1
    <3>3. Live \subseteq Told(stdout'[j])
      <4>1. ASSUME NEW w \in Live PROVE \E pair \in stdout'[j].data : pair[1] = w
        <5>1. <<w, tmux[w]>> \in stdout'[j].data /\ <<w, tmux[w]>>[1] = w
          BY <3>1
        <5> QED
          BY <5>1
      <4> QED
        BY <3>1, <4>1 DEF Told
    <3> QED
      BY <1>1, <1>5, <3>1, <3>2, <3>3 DEF Truthful, IsReply
  <2>2. CASE Answers(stdout'[j], command)
    <3>1. \A c \in Callers : send[c].at = "waiting" /\ send[c].id = command.id => command.op = send[c].op
      BY <1>3 DEF WindowInv, CallInv, OneOp
    <3>2. \A c \in Callers : ~Snapshot(c, stdout'[j])
      BY <2>2, <3>1 DEF Answers, Snapshot, Listing
    <3> QED
      BY <2>2, <3>2 DEF Truthful, Answers, IsReply
  <2>3. CASE Unlinks(stdout'[j], command)
    BY <2>3 DEF Truthful, Unlinks, Snapshot, IsReply
  <2> QED
    BY <1>4, <2>1, <2>2, <2>3
<1>8. \A w \in Windows : tmux[w] # "unborn" => tmux'[w] # "unborn"
  BY <1>1
<1> QED
  BY <1>1, <1>4, <1>6, <1>7, <1>8, Appended

-----------------------------------------------------------------------------
(* The invariant.                                                          *)

LEMMA TabInit ==
  ASSUME Init
  PROVE  TabInv
<1>1. /\ stdout = <<>> /\ Len(stdout) = 0 /\ send = [c \in Callers |-> NoSend] /\ generation = 0
      /\ app = [w \in Windows |-> "absent"] /\ addedAt = [w \in Windows |-> 0] /\ relinking = {} /\ ~attached
  BY DEF Init, GatewayInit
<1>2. /\ \A c \in Callers : send[c].at = "idle"
      /\ Holding = {} /\ Shown = {} /\ 1 .. Len(stdout) = {}
  BY <1>1 DEF NoSend, Holding, Shown
<1>3. AddsNew /\ ListsSucceed
  BY <1>2 DEF AddsNew, ListsSucceed
<1>4. HeldOld
  BY <1>1 DEF HeldOld
<1>5. GoneTold /\ HereTold /\ NameLast /\ NameTold
  BY <1>2 DEF GoneTold, HereTold, NameLast, NameTold
<1>6. GoneHeld /\ HereHeld /\ NameHeld /\ GoneShown /\ HereShown /\ NameShown
  BY <1>1, <1>2 DEF GoneHeld, HereHeld, NameHeld, GoneShown, HereShown, NameShown
<1> QED
  BY <1>3, <1>4, <1>5, <1>6 DEF TabInv, Orderly, InStream, InHand, OnScreen

LEMMA TabStep ==
  ASSUME IInv, WindowInv, TabInv, [Next]_wvars
  PROVE  TabInv'
<1> SUFFICES ASSUME ~closed' PROVE TabInv'
  BY DEF TabInv
<1>0. ~Fail
  BY DEF Fail
<1>1. CASE (FeedReply \/ FeedDesync \/ FeedServer) /\ UNCHANGED others
  <2>1. CASE FeedReply
    BY <1>1, <2>1, SnapshotReadTabs DEF FeedReply
  <2>2. CASE FeedServer
    BY <1>1, <2>2, ServerBlockReadTabs DEF FeedServer
  <2> QED
    BY <1>0, <1>1, <2>1, <2>2 DEF FeedDesync
<1>2. CASE FeedNote
  BY <1>2, NoteReadTabs DEF FeedNote
<1>3. ASSUME NEW c \in Callers, (Enqueue(c) \/ Write(c)) /\ UNCHANGED others PROVE TabInv'
  <2>1. ~closed
    BY <1>3 DEF Enqueue, Write
  <2>2. CASE Enqueue(c)
    BY <1>3, <2>1, <2>2, SlotTakenTabs
  <2>3. CASE Write(c)
    BY <1>3, <2>1, <2>3, LineWrittenTabs
  <2> QED
    BY <1>3, <2>2, <2>3
<1>4. CASE Negotiate
  BY <1>4, BeganTabs, TheCallers, Bounds, WindowsAssumption DEF Negotiate, BeginList, negotiation
<1>5. CASE Attached
  BY <1>5, InstalledTabs DEF Attached, negotiation
<1>6. CASE RunReconcile
  <2>1. /\ ~closed /\ requested /\ send[Worker].at = "idle" /\ Ready(Worker, "list", generation)
        /\ UNCHANGED <<negotiation, external, set, attached, relinking, witness>>
    BY <1>6 DEF RunReconcile, BeginList
  <2>2. generation \in Nat /\ generation <= generation
    BY Bounds
  <2> QED
    BY <2>1, <2>2, BeganTabs, TheCallers
<1>7. CASE Renumber
  BY <1>7, BeganTabs, TheCallers, Bounds DEF Renumber, negotiation
<1>8. CASE Resync
  BY <1>8, BeganTabs, TheCallers, Bounds DEF Resync, BeginList, negotiation
<1>9. ASSUME NEW c \in Callers, Reconcile(c) PROVE TabInv'
  BY <1>9, MergedTabs DEF Reconcile, negotiation
<1>10. ASSUME NEW c \in Callers, CallerFails(c) PROVE TabInv'
  <2>1. ~closed /\ send[c].at = "answered" /\ send[c].error
    BY <1>10 DEF CallerFails, negotiation
  <2>2. c = Mover
    BY <2>1 DEF TabInv, Orderly, ListsSucceed
  <2> QED
    BY <1>10, <2>1, <2>2, FailingTabs DEF CallerFails, negotiation, external, set
<1>11. ASSUME NEW w \in Windows, TmuxAdds(w) PROVE TabInv'
  BY <1>11, ChangedTabs DEF TmuxAdds, Change
<1>12. ASSUME NEW w \in Windows, TmuxCloses(w) PROVE TabInv'
  BY <1>12, ChangedTabs DEF TmuxCloses, Change, Live
<1>13. ASSUME NEW w \in Windows, TmuxRenames(w) PROVE TabInv'
  BY <1>13, ChangedTabs DEF TmuxRenames, Change
<1>14. ASSUME NEW w \in Windows, MoveWindow(w) PROVE TabInv'
  BY <1>14, MoveBegunTabs DEF MoveWindow
<1>15. CASE TmuxServerBlock
  BY <1>15, ServerSpokeTabs DEF TmuxServerBlock
<1>16. CASE CancelMove
  BY <1>16, FailingTabs DEF CancelMove, GiveUp, external, set
<1>17. CASE StreamEnds
  BY <1>0, <1>17 DEF StreamEnds
<1>18. CASE TmuxExecutes
  BY <1>18, CommandExecutedTabs DEF TmuxExecutes
<1>19. CASE UNCHANGED wvars
  <2>1. /\ send' = send /\ stdout' = stdout /\ tmux' = tmux /\ app' = app /\ addedAt' = addedAt
        /\ generation' = generation /\ requested' = requested /\ attached' = attached /\ closed' = closed
        /\ relinking' = relinking /\ late' = late /\ Excused' = Excused
    BY <1>19 DEF wvars, Excused
  <2>2. NoNewList
    BY <2>1 DEF NoNewList, Snapshot, Listing, Holding
  <2>3. HeldOld'
    BY <2>1 DEF TabInv, Orderly, HeldOld
  <2>4. \A c \in Callers : c # Mover /\ send'[c].at # "idle" => send'[c].op = "list" /\ ~send'[c].error
    BY <2>1 DEF TabInv, Orderly, ListsSucceed
  <2>5. \A w \in Windows : Coming(w) => Coming(w)'
    BY <2>1, ComingKept
  <2> QED
    BY <2>1, <2>2, <2>3, <2>4, <2>5, SendTypes, CallsOn
<1> QED
  BY <1>1, <1>2, <1>3, <1>4, <1>5, <1>6, <1>7, <1>8, <1>9, <1>10, <1>11, <1>12, <1>13, <1>14,
     <1>15, <1>16, <1>17, <1>18, <1>19
  DEF Next, Client, Outside

LEMMA TabInvariance == Spec => [](WindowInv /\ TabInv)
<1>1. Init => IInv /\ WindowInv /\ TabInv
  BY InitHolds, WindowInit, TabInit
<1>2. IInv /\ WindowInv /\ TabInv /\ [Next]_wvars => IInv' /\ WindowInv' /\ TabInv'
  BY Inductive, WindowStep, TabStep
<1> QED
  BY <1>1, <1>2, PTL DEF Spec

\* Once nothing is in flight the tabs are tmux's windows under their names: a
\* list that asked before a change is followed by the notification of it, and
\* a window a notification opened without a name by a list of the worker's.
\* The exceptions are the property's own: a window closed or renamed while an
\* older snapshot was in hand, and those of the two cases of NoPhantomClose.
THEOREM AgreesHolds == Spec => []Agrees
<1>1. ASSUME WindowInv, TabInv, Quiet, NEW w \in Windows
      PROVE  \/ app[w] = IF w \in Live THEN tmux[w] ELSE "absent"
             \/ w \in late \cup overlapped \cup unsettled
  <2>1. ~closed /\ attached /\ ~requested /\ Len(stdout) = 0 /\ \A c \in Callers : send[c].at = "idle"
    BY <1>1 DEF Quiet
  <2>2. \A k, v : ~After(k, v, 0)
    BY <2>1 DEF After
  <2>3. relinking = {}
    BY <1>1, <2>1, TheCallers DEF WindowInv, MoveInv, Relinks
  <2>4. ~Coming(w)
    BY <2>1, TheCallers DEF Coming, Listing, Holding
  <2>5. CASE w \in Live
    <3>1. w \in Shown \/ w \in Excused
      BY <1>1, <2>1, <2>2, <2>5 DEF TabInv, OnScreen, HereShown
    <3>2. w \in Shown => app[w] = tmux[w] \/ w \in late
      BY <1>1, <2>1, <2>2, <2>4, <2>5 DEF TabInv, OnScreen, NameShown
    <3> QED
      BY <2>5, <3>1, <3>2 DEF Excused
  <2>6. CASE w \notin Live
    <3>1. w \in Shown => w \in late \/ w \in Excused
      BY <1>1, <2>1, <2>2, <2>3, <2>6 DEF TabInv, OnScreen, GoneShown
    <3> QED
      BY <2>6, <3>1 DEF Excused, Shown
  <2> QED
    BY <2>5, <2>6
<1>2. WindowInv /\ TabInv => Agrees
  BY <1>1 DEF Agrees
<1> QED
  BY <1>2, TabInvariance, PTL

=============================================================================
