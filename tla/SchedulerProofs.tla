-------------------------- MODULE SchedulerProofs --------------------------
(***************************************************************************)
(* Proofs about Scheduler and the AgentSessions it runs on, for any number *)
(* of callers, schedules and chats.                                        *)
(*                                                                         *)
(* SessionInv says what a call may still remove, and is enough for         *)
(* Addressable.  SchedulerInv adds the phases of a pass (PhaseInv), the    *)
(* types of the runs, that a deletion beside a pass is noted (Crossing)    *)
(* and that every schedule the pass saw is still to come or dealt with     *)
(* (DueInv): NoneLeftDue.  On top of it, one invariant per property:       *)
(*   GoneInv   - a schedule that was gone is behind its cursor and the     *)
(*               pass: NoBackfire;                                         *)
(*   SpentInv  - the occurrence in hand is the latest that is due, and     *)
(*               before the cursor is saved its row is there: Accounted;   *)
(*   LaunchInv - the occurrence of a chat is behind the cursor, in hand,   *)
(*               or was cut short: LaunchedOnce;                           *)
(*   SoloInv   - the rows before a schedule's newest launch are of chats   *)
(*               that are quiet, and while a launch is under way so are    *)
(*               all of its schedule's: OneChatPerSchedule.                *)
(***************************************************************************)
EXTENDS Scheduler, SequenceTheorems, FiniteSetTheorems, WellFoundedInduction, TLAPS

-----------------------------------------------------------------------------
(* The least and the greatest of a set of numbers.                         *)

LEMMA LeastNatural ==
  ASSUME NEW S, S \subseteq Nat, S # {}
  PROVE  \E m \in S : \A n \in S : m <= n
<1>1. PICK m \in S : \A n \in S : ~(<<n, m>> \in OpToRel(<, Nat))
  BY NatLessThanWellFounded, WFMin
<1>2. \A n \in S : <<n, m>> \in Nat \X Nat /\ <<n, m>>[1] = n /\ <<n, m>>[2] = m
  OBVIOUS
<1>3. \A n \in S : ~(n < m)
  BY <1>1, <1>2 DEF OpToRel
<1> QED
  BY <1>3

LEMMA MinIsLeast ==
  ASSUME NEW S, S \subseteq Nat, S # {}
  PROVE  Min(S) \in S /\ \A n \in S : Min(S) <= n
<1>1. \E m \in S : \A n \in S : m <= n
  BY LeastNatural
<1> QED
  BY <1>1 DEF Min

LEMMA MaxIsGreatest ==
  ASSUME NEW lo \in Int, NEW hi \in Int, NEW S, S \subseteq lo .. hi, S # {}
  PROVE  Max(S) \in S /\ \A n \in S : n <= Max(S)
<1> DEFINE T == {hi - k : k \in S}
<1>1. T \subseteq Nat
  OBVIOUS
<1>0. T # {}
  <2>1. PICK k \in S : TRUE
    OBVIOUS
  <2>2. hi - k \in T
    OBVIOUS
  <2> QED
    BY <2>2
<1> HIDE DEF T
<1>2. PICK t \in T : \A u \in T : t <= u
  BY <1>0, <1>1, LeastNatural
<1> USE DEF T
<1>3. PICK m \in S : t = hi - m
  OBVIOUS
<1>4. \A k \in S : hi - m <= hi - k
  BY <1>2, <1>3
<1>5. \A k \in S : m >= k
  BY <1>4
<1>6. Max(S) \in S /\ \A k \in S : Max(S) >= k
  BY <1>5 DEF Max
<1> QED
  BY <1>6

-----------------------------------------------------------------------------
(* The agent sessions: no agent is left without a record.                  *)

Calls == [at : Points, id : 0 .. MaxChats, chat : 0 .. MaxChats, resume : BOOLEAN]

RowTypes ==
    /\ record \in [Ids -> 0 .. MaxChats] /\ born \in 0 .. MaxChats /\ live \subseteq 1 .. born
    /\ call \in [Callers -> Calls]

\* A row id is not above the number of records ever made, and two rows are not
\* of one chat: NextId is free.
Rows ==
    /\ \A i \in Ids : record[i] # 0 => i <= born /\ record[i] <= born
    /\ \A i, j \in Ids : record[i] # 0 /\ record[i] = record[j] => i = j

\* A call names a row, and the chat it starts has no other row.
CallInv ==
    \A c \in Callers :
        /\ call[c].at \in {"spawn", "settle", "launched", "drop", "delay"} => call[c].id \in Ids
        /\ call[c].at \in {"spawn", "settle", "launched"} =>
              call[c].chat \in 1 .. born /\ \A i \in Ids : record[i] = call[c].chat => i = call[c].id

\* The record a call may remove is of a chat that does not run, unless that chat
\* was started beside the call or tmux failed to kill it.
Removable(c) ==
    /\ call[c].at \in {"drop", "spawn"} => (record[call[c].id] \in live => record[call[c].id] \in disputed)
    /\ call[c].at \in {"remove", "clear"} => live \cap Recorded \subseteq disputed

RemovalInv == \A c \in Callers : Removable(c)

SessionInv == RowTypes /\ Rows /\ CallInv /\ RemovalInv /\ Addressable

LEMMA SessionInvInit == SessionInit => SessionInv
<1> SUFFICES ASSUME SessionInit PROVE SessionInv
  OBVIOUS
<1>1. Idle \in Calls
  BY SessionsAssumption DEF Idle, Calls, Points
<1>2. RowTypes
  BY <1>1, SessionsAssumption DEF SessionInit, RowTypes
<1>3. \A c \in Callers : call[c].at = "idle"
  BY DEF SessionInit, Idle
<1>4. Rows
  BY DEF SessionInit, Rows
<1> QED
  BY <1>2, <1>3, <1>4 DEF SessionInit, SessionInv, CallInv, RemovalInv, Removable, Addressable

\* A row id that an insert is given is free.
LEMMA NextIdFree ==
  ASSUME SessionInv, born < MaxChats
  PROVE  NextId \in Ids /\ NextId <= born + 1 /\ record[NextId] = 0
<1> DEFINE S == {0} \cup {i \in Ids : record[i] # 0}
<1>1. S \subseteq 0 .. born /\ S # {} /\ born \in Nat /\ 0 \in Int /\ born \in Int
  BY SessionsAssumption DEF SessionInv, RowTypes, Rows, Ids
<1> HIDE DEF S
<1>2. Max(S) \in S /\ \A n \in S : n <= Max(S)
  BY <1>1, MaxIsGreatest
<1>3. PICK m \in 0 .. born : m = Max(S) /\ \A n \in S : n <= m
  BY <1>1, <1>2
<1>4. NextId = 1 + m
  BY <1>3 DEF NextId, S
<1>5. NextId \in 1 .. born + 1
  BY <1>1, <1>4
<1>6. NextId \in Ids
  BY <1>1, <1>5, SessionsAssumption DEF Ids
<1>7. NextId \notin S
  BY <1>1, <1>3, <1>4
<1> QED
  BY <1>1, <1>5, <1>6, <1>7 DEF S

\* Chats end, and calls come to rest: nothing is removed.
LEMMA Resting ==
  ASSUME SessionInv, UNCHANGED <<record, disputed>>, born' \in born .. MaxChats, live' \subseteq live,
         call' \in [Callers -> Calls],
         \A c \in Callers : \/ call'[c] = call[c]
                            \/ call'[c].at \in {"idle", "reload", "failed"}
                            \/ call'[c].at = "delay" /\ call'[c].id \in Ids
                            \/ call'[c].at = "clear" /\ call[c].at = "remove"
                            \/ /\ call'[c].at \in {"settle", "launched"} /\ call[c].at \in {"spawn", "settle"}
                               /\ call'[c].id = call[c].id /\ call'[c].chat = call[c].chat
  PROVE  SessionInv'
<1>0. record \in [Ids -> 0 .. MaxChats] /\ born \in 0 .. MaxChats /\ live \subseteq 1 .. born /\ MaxChats \in Nat
  BY SessionsAssumption DEF SessionInv, RowTypes
<1>1. RowTypes' /\ Rows'
  <2>1. live' \subseteq 1 .. born' /\ born' \in 0 .. MaxChats
    BY <1>0
  <2>2. \A i \in Ids : record[i] # 0 => i <= born' /\ record[i] <= born'
    <3> TAKE i \in Ids
    <3>1. record[i] \in Nat /\ i \in Nat /\ born' \in Nat /\ born \in Nat /\ born <= born'
      BY <1>0 DEF Ids
    <3> QED
      BY <3>1 DEF SessionInv, Rows
  <2> QED
    BY <1>0, <2>1, <2>2 DEF SessionInv, RowTypes, Rows
<1>2. CallInv'
  <2> SUFFICES ASSUME NEW c \in Callers
               PROVE  (/\ call[c].at \in {"spawn", "settle", "launched", "drop", "delay"} => call[c].id \in Ids
                       /\ call[c].at \in {"spawn", "settle", "launched"} =>
                            call[c].chat \in 1 .. born /\ \A i \in Ids : record[i] = call[c].chat => i = call[c].id)'
    BY DEF CallInv
  <2> QED
    BY <1>0 DEF SessionInv, CallInv
<1>3. RemovalInv'
  <2> SUFFICES ASSUME NEW c \in Callers PROVE Removable(c)'
    BY DEF RemovalInv
  <2>1. CASE call'[c] = call[c]
    BY <2>1 DEF SessionInv, RemovalInv, Removable, Recorded
  <2>2. CASE call'[c].at = "clear" /\ call[c].at = "remove"
    BY <2>2 DEF SessionInv, RemovalInv, Removable, Recorded
  <2>3. CASE call'[c] # call[c] /\ call'[c].at # "clear"
    BY <2>3 DEF Removable
  <2> QED
    BY <2>1, <2>2, <2>3
<1>4. Addressable'
  BY DEF SessionInv, Addressable, Recorded
<1> QED
  BY <1>1, <1>2, <1>3, <1>4 DEF SessionInv

\* A new record: its chat does not run yet.
LEMMA Inserting ==
  ASSUME SessionInv, born < MaxChats, born' = born + 1, UNCHANGED <<live, disputed>>,
         record' = [record EXCEPT ![NextId] = born + 1], call' \in [Callers -> Calls],
         \A c \in Callers : \/ call'[c] = call[c]
                            \/ call'[c].at \in {"idle", "failed"}
                            \/ call'[c].at = "spawn" /\ call'[c].id = NextId /\ call'[c].chat = born + 1
  PROVE  SessionInv'
<1>1. /\ NextId \in Ids /\ NextId <= born + 1 /\ record[NextId] = 0
      /\ born \in Nat /\ MaxChats \in Nat /\ live \subseteq 1 .. born /\ record \in [Ids -> 0 .. MaxChats]
  BY NextIdFree, SessionsAssumption DEF SessionInv, RowTypes
<1>2. RowTypes'
  BY <1>1 DEF RowTypes
<1>3. \A i \in Ids : record'[i] = IF i = NextId THEN born + 1 ELSE record[i]
  BY <1>1
<1>4. \A i \in Ids : record[i] # 0 => i <= born /\ record[i] <= born
  BY DEF SessionInv, Rows
<1>5. \A i \in Ids : record[i] # born + 1 /\ record[i] \in Nat
  BY <1>1, <1>4
<1>6. Rows'
  <2>1. \A i \in Ids : record'[i] # 0 => i <= born' /\ record'[i] <= born'
    BY <1>1, <1>3, <1>4 DEF Ids
  <2>2. \A i, j \in Ids : record'[i] # 0 /\ record'[i] = record'[j] => i = j
    BY <1>1, <1>3, <1>5 DEF SessionInv, Rows
  <2> QED
    BY <2>1, <2>2 DEF Rows
<1>7. CallInv'
  <2> SUFFICES ASSUME NEW c \in Callers
               PROVE  (/\ call[c].at \in {"spawn", "settle", "launched", "drop", "delay"} => call[c].id \in Ids
                       /\ call[c].at \in {"spawn", "settle", "launched"} =>
                            call[c].chat \in 1 .. born /\ \A i \in Ids : record[i] = call[c].chat => i = call[c].id)'
    BY DEF CallInv
  <2>1. CASE call'[c] = call[c]
    BY <1>1, <1>3, <2>1 DEF SessionInv, CallInv
  <2>2. CASE call'[c].at \in {"idle", "failed"}
    BY <2>2
  <2>3. CASE call'[c].at = "spawn" /\ call'[c].id = NextId /\ call'[c].chat = born + 1
    BY <1>1, <1>3, <1>5, <2>3
  <2> QED
    BY <2>1, <2>2, <2>3
<1>8. \A t \in live : t \in Recorded' <=> t \in Recorded
  <2> TAKE t \in live
  <2>1. t # born + 1 /\ t # 0
    BY <1>1
  <2>2. ASSUME t \in Recorded' PROVE t \in Recorded
    <3>1. PICK i \in Ids : record'[i] = t
      BY <2>2 DEF Recorded
    <3> QED
      BY <1>3, <2>1, <3>1 DEF Recorded
  <2>3. ASSUME t \in Recorded PROVE t \in Recorded'
    <3>1. PICK i \in Ids : record[i] = t
      BY <2>3 DEF Recorded
    <3>2. record'[i] = t
      BY <1>1, <1>3, <2>1, <3>1
    <3> QED
      BY <2>1, <3>2 DEF Recorded
  <2> QED
    BY <2>2, <2>3
<1>9. RemovalInv'
  <2> SUFFICES ASSUME NEW c \in Callers PROVE Removable(c)'
    BY DEF RemovalInv
  <2>0. born + 1 \notin live
    BY <1>1
  <2>1. CASE call'[c] = call[c]
    <3>1. call[c].at \in {"drop", "spawn"} => call[c].id \in Ids
      BY DEF SessionInv, CallInv
    <3>2. (call[c].at \in {"drop", "spawn"} => (record[call[c].id] \in live => record[call[c].id] \in disputed))'
      BY <1>3, <2>0, <2>1, <3>1 DEF SessionInv, RemovalInv, Removable
    <3>3. (call[c].at \in {"remove", "clear"} => live \cap Recorded \subseteq disputed)'
      BY <1>8, <2>1 DEF SessionInv, RemovalInv, Removable
    <3> QED
      BY <3>2, <3>3 DEF Removable
  <2>2. CASE call'[c].at \in {"idle", "failed"}
    BY <2>2 DEF Removable
  <2>3. CASE call'[c].at = "spawn" /\ call'[c].id = NextId /\ call'[c].chat = born + 1
    BY <1>1, <1>3, <2>0, <2>3 DEF Removable
  <2> QED
    BY <2>1, <2>2, <2>3
<1>10. Addressable'
  BY <1>8 DEF SessionInv, Addressable
<1> QED
  BY <1>2, <1>6, <1>7, <1>9, <1>10 DEF SessionInv

\* A record is removed whose chat does not run, unless it is disputed.
LEMMA Removing ==
  ASSUME SessionInv, NEW id \in Ids, record[id] \in live => record[id] \in disputed,
         record' = [record EXCEPT ![id] = 0], UNCHANGED <<born, live, disputed>>, call' \in [Callers -> Calls],
         \A c \in Callers : call'[c] = call[c] \/ call'[c].at \in {"idle", "failed"}
  PROVE  SessionInv'
<1>1. record \in [Ids -> 0 .. MaxChats] /\ live \subseteq 1 .. born /\ born \in 0 .. MaxChats
  BY DEF SessionInv, RowTypes
<1>2. \A i \in Ids : record'[i] = IF i = id THEN 0 ELSE record[i]
  BY <1>1
<1>3. 0 \notin live
  BY <1>1, SessionsAssumption
<1>4. RowTypes' /\ Rows'
  <2>1. record' \in [Ids -> 0 .. MaxChats]
    BY <1>1, SessionsAssumption
  <2> QED
    BY <1>1, <1>2, <2>1 DEF SessionInv, RowTypes, Rows
<1>5. CallInv'
  <2> SUFFICES ASSUME NEW c \in Callers
               PROVE  (/\ call[c].at \in {"spawn", "settle", "launched", "drop", "delay"} => call[c].id \in Ids
                       /\ call[c].at \in {"spawn", "settle", "launched"} =>
                            call[c].chat \in 1 .. born /\ \A i \in Ids : record[i] = call[c].chat => i = call[c].id)'
    BY DEF CallInv
  <2>1. CASE call'[c] = call[c]
    BY <1>1, <1>2, <2>1 DEF SessionInv, CallInv
  <2>2. CASE call'[c].at \in {"idle", "failed"}
    BY <2>2
  <2> QED
    BY <2>1, <2>2
<1>6. Recorded' \subseteq Recorded
  BY <1>2 DEF Recorded
<1>7. RemovalInv'
  <2> SUFFICES ASSUME NEW c \in Callers PROVE Removable(c)'
    BY DEF RemovalInv
  <2>1. CASE call'[c] = call[c]
    <3>1. call[c].at \in {"drop", "spawn"} => call[c].id \in Ids
      BY DEF SessionInv, CallInv
    <3>2. (call[c].at \in {"drop", "spawn"} => (record[call[c].id] \in live => record[call[c].id] \in disputed))'
      BY <1>2, <1>3, <2>1, <3>1 DEF SessionInv, RemovalInv, Removable
    <3>3. (call[c].at \in {"remove", "clear"} => live \cap Recorded \subseteq disputed)'
      BY <1>6, <2>1 DEF SessionInv, RemovalInv, Removable
    <3> QED
      BY <3>2, <3>3 DEF Removable
  <2>2. CASE call'[c].at \in {"idle", "failed"}
    BY <2>2 DEF Removable
  <2> QED
    BY <2>1, <2>2
<1>8. Addressable'
  <2> SUFFICES ASSUME NEW t \in live, t \notin Recorded' PROVE t \in disputed
    BY DEF Addressable
  <2>1. CASE t \in Recorded
    <3>1. PICK i \in Ids : record[i] = t
      BY <2>1 DEF Recorded
    <3>2. CASE i = id
      BY <3>1, <3>2
    <3>3. CASE i # id
      <4>1. record'[i] = t
        BY <1>2, <3>1, <3>3
      <4> QED
        BY <1>3, <4>1 DEF Recorded
    <3> QED
      BY <3>2, <3>3
  <2>2. CASE t \notin Recorded
    BY <2>2 DEF SessionInv, Addressable
  <2> QED
    BY <2>1, <2>2
<1> QED
  BY <1>4, <1>5, <1>7, <1>8 DEF SessionInv

LEMMA CallTypes == ASSUME SessionInv, NEW c \in Callers PROVE call[c] \in Calls
  BY DEF SessionInv, RowTypes

LEMMA IdleCall == Idle \in Calls /\ \A c \in Callers, k \in [Callers -> Calls] :
    /\ [k EXCEPT ![c] = Idle] \in [Callers -> Calls] /\ [k EXCEPT ![c] = Idle][c].at = "idle"
  BY SessionsAssumption DEF Idle, Calls, Points

\* What the caller of a launch or of a resume is told.
LEMMA Answering ==
  ASSUME SessionInv, NEW c \in Callers, NEW outcome \in {"launched", "failed"}, Answer(c, outcome)
  PROVE  /\ call' \in [Callers -> Calls] /\ \A d \in Callers \ {c} : call'[d] = call[d]
         /\ \/ call'[c].at = "idle"
            \/ call'[c].at = outcome /\ call'[c].id = call[c].id /\ call'[c].chat = call[c].chat
<1>1. call \in [Callers -> Calls] /\ call[c] \in Calls
  BY CallTypes DEF SessionInv, RowTypes
<1>2. [call[c] EXCEPT !.at = outcome] \in Calls
  BY <1>1 DEF Calls, Points
<1>3. CASE Detached(c)
  <2>1. call' = [call EXCEPT ![c] = [call[c] EXCEPT !.at = outcome]]
    BY <1>3 DEF Answer
  <2>2. [call[c] EXCEPT !.at = outcome].at = outcome /\ [call[c] EXCEPT !.at = outcome].id = call[c].id
        /\ [call[c] EXCEPT !.at = outcome].chat = call[c].chat
    BY <1>1 DEF Calls
  <2> QED
    BY <1>1, <1>2, <2>1, <2>2
<1>4. CASE ~Detached(c)
  <2>1. call' = [call EXCEPT ![c] = Idle]
    BY <1>4 DEF Answer
  <2> QED
    BY <1>1, <2>1, IdleCall
<1> QED
  BY <1>3, <1>4

LEMMA StartSessionStep ==
  ASSUME SessionInv, NEW c \in Callers, NEW cancelled, StartSession(c, cancelled)
  PROVE  SessionInv'
<1>1. born < MaxChats /\ born' = born + 1 /\ UNCHANGED <<live, disputed>> /\ call[c].at = "idle"
  BY DEF StartSession, Free
<1>2. CASE BelowCap
  <2>1. NextId \in Ids
    BY <1>1, NextIdFree
  <2>2. [at |-> "spawn", id |-> NextId, chat |-> born + 1, resume |-> FALSE] \in Calls
    BY <1>1, <2>1, SessionsAssumption DEF Calls, Points, Ids, SessionInv, RowTypes
  <2>3. record' = [record EXCEPT ![NextId] = born + 1]
        /\ call' = [call EXCEPT ![c] = [at |-> "spawn", id |-> NextId, chat |-> born + 1, resume |-> FALSE]]
    BY <1>2 DEF StartSession
  <2>4. call' \in [Callers -> Calls] /\ \A d \in Callers \ {c} : call'[d] = call[d]
        /\ call'[c].at = "spawn" /\ call'[c].id = NextId /\ call'[c].chat = born + 1
    BY <2>2, <2>3 DEF SessionInv, RowTypes
  <2> QED
    BY <1>1, <2>3, <2>4, Inserting
<1>3. CASE ~BelowCap
  <2>1. Answer(c, "failed")
    BY <1>3 DEF StartSession
  <2>2. call' \in [Callers -> Calls] /\ \A d \in Callers : call'[d] = call[d] \/ call'[d].at \in {"idle", "failed"}
    BY <2>1, Answering
  <2>3. CASE ~Detached(c)
    <3>1. record' = [record EXCEPT ![NextId] = born + 1]
      BY <1>3, <2>3 DEF StartSession
    <3> QED
      BY <1>1, <2>2, <3>1, Inserting
  <2>4. CASE Detached(c)
    <3>1. record' = record
      BY <1>3, <2>4 DEF StartSession
    <3>2. born' \in born .. MaxChats
      BY <1>1, SessionsAssumption DEF SessionInv, RowTypes
    <3> QED
      BY <1>1, <2>2, <3>1, <3>2, Resting
  <2> QED
    BY <2>3, <2>4
<1> QED
  BY <1>2, <1>3

LEMMA BornBound == ASSUME SessionInv PROVE born \in born .. MaxChats
  BY SessionsAssumption DEF SessionInv, RowTypes

\* A chat is started: who may remove its record is Contended.
LEMMA Spawning ==
  ASSUME SessionInv, NEW c \in Callers, call[c].at = "spawn", UNCHANGED <<record, born>>,
         live' = live \cup {call[c].chat}, call' \in [Callers -> Calls],
         disputed' = IF Contended(c) THEN disputed \cup {call[c].chat} ELSE disputed,
         \A d \in Callers \ {c} : call'[d] = call[d],
         \/ call'[c].at = "idle"
         \/ call'[c].at = "settle" /\ call'[c].id = call[c].id /\ call'[c].chat = call[c].chat
  PROVE  SessionInv'
<1> DEFINE t == call[c].chat
<1>1. /\ call[c].id \in Ids /\ t \in 1 .. born /\ \A i \in Ids : record[i] = t => i = call[c].id
      /\ record \in [Ids -> 0 .. MaxChats] /\ born \in 0 .. MaxChats /\ live \subseteq 1 .. born
  BY DEF SessionInv, CallInv, RowTypes
<1>2. disputed \subseteq disputed' /\ (Contended(c) => t \in disputed')
  OBVIOUS
<1>3. Recorded' = Recorded
  BY DEF Recorded
<1>4. RowTypes' /\ Rows'
  BY <1>1 DEF SessionInv, RowTypes, Rows
<1>5. CallInv'
  <2> SUFFICES ASSUME NEW d \in Callers
               PROVE  (/\ call[d].at \in {"spawn", "settle", "launched", "drop", "delay"} => call[d].id \in Ids
                       /\ call[d].at \in {"spawn", "settle", "launched"} =>
                            call[d].chat \in 1 .. born /\ \A i \in Ids : record[i] = call[d].chat => i = call[d].id)'
    BY DEF CallInv
  <2>1. CASE d = c
    BY <1>1, <2>1
  <2>2. CASE d # c
    BY <2>2 DEF SessionInv, CallInv
  <2> QED
    BY <2>1, <2>2
<1>6. RemovalInv'
  <2> SUFFICES ASSUME NEW d \in Callers, d # c PROVE Removable(d)'
    BY DEF RemovalInv, Removable
  <2>0. call'[d] = call[d] /\ Removable(d)
    BY DEF SessionInv, RemovalInv
  <2>1. ASSUME call[d].at \in {"drop", "spawn"}, record[call[d].id] \in live' PROVE record[call[d].id] \in disputed'
    <3>1. CASE record[call[d].id] = t
      <4>1. call[d].id = call[c].id
        BY <1>1, <2>1, <3>1 DEF SessionInv, CallInv
      <4>2. Contended(c)
        BY <2>1, <4>1 DEF Contended
      <4> QED
        BY <1>2, <3>1, <4>2
    <3>2. CASE record[call[d].id] # t
      BY <1>2, <2>0, <2>1, <3>2 DEF Removable
    <3> QED
      BY <3>1, <3>2
  <2>2. ASSUME call[d].at \in {"remove", "clear"} PROVE live' \cap Recorded \subseteq disputed'
    <3>1. Contended(c)
      BY <2>2 DEF Contended
    <3>2. live \cap Recorded \subseteq disputed
      BY <2>0, <2>2 DEF Removable
    <3> QED
      BY <1>2, <3>1, <3>2
  <2> QED
    BY <1>3, <2>0, <2>1, <2>2 DEF Removable
<1>7. Addressable'
  <2>1. t \notin Recorded => Contended(c)
    BY DEF Contended
  <2>2. live \ Recorded \subseteq disputed
    BY DEF SessionInv, Addressable
  <2> QED
    BY <1>2, <1>3, <2>1, <2>2 DEF Addressable
<1> QED
  BY <1>4, <1>5, <1>6, <1>7 DEF SessionInv

LEMMA SpawnStep ==
  ASSUME SessionInv, NEW c \in Callers, NEW cancelled, Spawn(c, cancelled)
  PROVE  SessionInv'
<1>0. call \in [Callers -> Calls] /\ call[c] \in Calls /\ call[c].at = "spawn" /\ UNCHANGED born
  BY CallTypes DEF SessionInv, RowTypes, Spawn
<1>1. CASE live' = live \cup {call[c].chat} /\ UNCHANGED record
           /\ call' = [call EXCEPT ![c] = IF Detached(c) THEN [@ EXCEPT !.at = "settle"] ELSE Idle]
           /\ disputed' = IF Contended(c) THEN disputed \cup {call[c].chat} ELSE disputed
  <2>1. [call[c] EXCEPT !.at = "settle"] \in Calls
    BY <1>0 DEF Calls, Points
  <2>2. call' \in [Callers -> Calls] /\ \A d \in Callers \ {c} : call'[d] = call[d]
    BY <1>0, <1>1, <2>1, IdleCall
  <2>3. \/ call'[c].at = "idle"
        \/ call'[c].at = "settle" /\ call'[c].id = call[c].id /\ call'[c].chat = call[c].chat
    <3>1. CASE Detached(c)
      <4>1. call'[c] = [call[c] EXCEPT !.at = "settle"]
        BY <1>0, <1>1, <3>1
      <4> QED
        BY <1>0, <4>1 DEF Calls
    <3>2. CASE ~Detached(c)
      <4>1. call'[c] = Idle
        BY <1>0, <1>1, <3>2
      <4> QED
        BY <4>1 DEF Idle
    <3> QED
      BY <3>1, <3>2
  <2> QED
    BY <1>0, <1>1, <2>2, <2>3, Spawning
<1>2. CASE Discard(c, call[c].id, cancelled) /\ Answer(c, "failed") /\ UNCHANGED <<live, disputed>>
  <2>1. call' \in [Callers -> Calls] /\ \A d \in Callers : call'[d] = call[d] \/ call'[d].at \in {"idle", "failed"}
    BY <1>2, Answering
  <2>2. call[c].id \in Ids /\ (record[call[c].id] \in live => record[call[c].id] \in disputed)
    BY <1>0 DEF SessionInv, CallInv, RemovalInv, Removable
  <2>3. CASE record' = [record EXCEPT ![call[c].id] = 0]
    BY <1>0, <1>2, <2>1, <2>2, <2>3, Removing
  <2>4. CASE record' = record
    BY <1>0, <1>2, <2>1, <2>4, BornBound, Resting
  <2> QED
    BY <1>2, <2>3, <2>4 DEF Discard
<1> QED
  BY <1>1, <1>2 DEF Spawn

LEMMA SettleStep ==
  ASSUME SessionInv, NEW c \in Callers, NEW cancelled, Settle(c, cancelled)
  PROVE  SessionInv'
<1>1. PICK outcome \in {"launched", "failed"} : Answer(c, outcome)
  BY DEF Settle
<1>2. UNCHANGED <<record, born, live, disputed>> /\ call[c].at = "settle"
  BY DEF Settle
<1>3. call' \in [Callers -> Calls] /\ \A d \in Callers \ {c} : call'[d] = call[d]
  BY <1>1, Answering
<1>4. \/ call'[c].at = "idle"
      \/ call'[c].at = outcome /\ call'[c].id = call[c].id /\ call'[c].chat = call[c].chat
  BY <1>1, Answering
<1> QED
  BY <1>2, <1>3, <1>4, BornBound, Resting

LEMMA ResumeStep ==
  ASSUME SessionInv, NEW u \in Users, NEW i \in Ids, ResumeSession(u, i)
  PROVE  SessionInv'
<1> DEFINE k == [at |-> "spawn", id |-> i, chat |-> record[i], resume |-> TRUE]
<1>1. record[i] # 0 /\ record[i] \notin live /\ call' = [call EXCEPT ![u] = k] /\ UNCHANGED <<record, born, live, disputed>>
  BY DEF ResumeSession
<1>2. record \in [Ids -> 0 .. MaxChats] /\ born \in 0 .. MaxChats /\ record[i] <= born /\ u \in Callers
  BY <1>1 DEF SessionInv, RowTypes, Rows, Callers
<1>3. k \in Calls
  BY <1>2, SessionsAssumption DEF Calls, Points, Ids
<1>4. k.at = "spawn" /\ k.id = i /\ k.chat = record[i]
  OBVIOUS
<1> HIDE DEF k
<1>5. call' \in [Callers -> Calls] /\ call'[u] = k /\ \A d \in Callers \ {u} : call'[d] = call[d]
  BY <1>1, <1>2, <1>3 DEF SessionInv, RowTypes
<1>6. RowTypes' /\ Rows'
  BY <1>1, <1>5 DEF SessionInv, RowTypes, Rows
<1>7. CallInv'
  <2> SUFFICES ASSUME NEW d \in Callers
               PROVE  (/\ call[d].at \in {"spawn", "settle", "launched", "drop", "delay"} => call[d].id \in Ids
                       /\ call[d].at \in {"spawn", "settle", "launched"} =>
                            call[d].chat \in 1 .. born /\ \A j \in Ids : record[j] = call[d].chat => j = call[d].id)'
    BY DEF CallInv
  <2>1. CASE d = u
    <3>1. record[i] \in 1 .. born
      BY <1>1, <1>2, SessionsAssumption
    <3>2. \A j \in Ids : record[j] = record[i] => j = i
      BY <1>1 DEF SessionInv, Rows
    <3> QED
      BY <1>1, <1>4, <1>5, <2>1, <3>1, <3>2
  <2>2. CASE d # u
    BY <1>1, <1>5, <2>2 DEF SessionInv, CallInv
  <2> QED
    BY <2>1, <2>2
<1>8. RemovalInv'
  <2> SUFFICES ASSUME NEW d \in Callers PROVE Removable(d)'
    BY DEF RemovalInv
  <2>1. CASE d = u
    BY <1>1, <1>4, <1>5, <2>1 DEF Removable
  <2>2. CASE d # u
    BY <1>1, <1>5, <2>2 DEF SessionInv, RemovalInv, Removable, Recorded
  <2> QED
    BY <2>1, <2>2
<1>9. Addressable'
  BY <1>1 DEF SessionInv, Addressable, Recorded
<1> QED
  BY <1>6, <1>7, <1>8, <1>9 DEF SessionInv

\* Terminals are killed, and their records are to go.
LEMMA Killing ==
  ASSUME SessionInv, NEW c \in Callers, UNCHANGED <<record, born>>, live' \subseteq live, disputed \subseteq disputed',
         call' \in [Callers -> Calls], \A d \in Callers \ {c} : call'[d] = call[d],
         \/ /\ call'[c].at = "drop" /\ call'[c].id \in Ids
            /\ record[call'[c].id] \in live' => record[call'[c].id] \in disputed'
         \/ /\ call'[c].at = "remove"
            /\ live' \cap Recorded \subseteq disputed'
  PROVE  SessionInv'
<1>1. RowTypes' /\ Rows' /\ Recorded' = Recorded
  BY DEF SessionInv, RowTypes, Rows, Recorded
<1>2. CallInv'
  <2> SUFFICES ASSUME NEW d \in Callers
               PROVE  (/\ call[d].at \in {"spawn", "settle", "launched", "drop", "delay"} => call[d].id \in Ids
                       /\ call[d].at \in {"spawn", "settle", "launched"} =>
                            call[d].chat \in 1 .. born /\ \A j \in Ids : record[j] = call[d].chat => j = call[d].id)'
    BY DEF CallInv
  <2> QED
    BY DEF SessionInv, CallInv
<1>3. RemovalInv'
  <2> SUFFICES ASSUME NEW d \in Callers PROVE Removable(d)'
    BY DEF RemovalInv
  <2>1. CASE d = c
    BY <1>1, <2>1 DEF Removable
  <2>2. CASE d # c
    BY <1>1, <2>2 DEF SessionInv, RemovalInv, Removable
  <2> QED
    BY <2>1, <2>2
<1>4. Addressable'
  BY <1>1 DEF SessionInv, Addressable
<1> QED
  BY <1>1, <1>2, <1>3, <1>4 DEF SessionInv

LEMMA KillForDeleteStep ==
  ASSUME SessionInv, NEW c \in Callers, NEW i \in Ids, KillForDelete(c, i)
  PROVE  SessionInv'
<1> DEFINE k == [at |-> "drop", id |-> i, chat |-> record[i], resume |-> FALSE]
<1>1. KillSession(record[i]) /\ call' = [call EXCEPT ![c] = k] /\ UNCHANGED <<record, born>>
  BY DEF KillForDelete
<1>2. k \in Calls
  BY SessionsAssumption DEF SessionInv, RowTypes, Calls, Points, Ids
<1>3. k.at = "drop" /\ k.id = i
  OBVIOUS
<1> HIDE DEF k
<1>4. call' \in [Callers -> Calls] /\ call'[c] = k /\ \A d \in Callers \ {c} : call'[d] = call[d]
  BY <1>1, <1>2 DEF SessionInv, RowTypes
<1>5. live' \subseteq live /\ disputed \subseteq disputed' /\ (record[i] \in live' => record[i] \in disputed')
  BY <1>1 DEF KillSession
<1> QED
  BY <1>1, <1>3, <1>4, <1>5, Killing

LEMMA DropRecordStep ==
  ASSUME SessionInv, NEW c \in Callers, DropRecord(c)
  PROVE  SessionInv'
<1>1. /\ call[c].at = "drop" /\ call' = [call EXCEPT ![c] = Idle] /\ UNCHANGED <<born, live, disputed>>
      /\ record' = [record EXCEPT ![call[c].id] = 0] \/ UNCHANGED record
  BY DEF DropRecord
<1>2. call' \in [Callers -> Calls] /\ \A d \in Callers : call'[d] = call[d] \/ call'[d].at = "idle"
  BY <1>1, IdleCall DEF SessionInv, RowTypes
<1>3. call[c].id \in Ids /\ (record[call[c].id] \in live => record[call[c].id] \in disputed)
  BY <1>1 DEF SessionInv, CallInv, RemovalInv, Removable
<1>4. CASE record' = [record EXCEPT ![call[c].id] = 0]
  BY <1>1, <1>2, <1>3, <1>4, Removing
<1>5. CASE UNCHANGED record
  BY <1>1, <1>2, <1>5, BornBound, Resting
<1> QED
  BY <1>1, <1>4, <1>5

LEMMA EndOwnStep ==
  ASSUME SessionInv, \/ \E i \in Ids : EndOwnSession(i)
                     \/ EndAfter
  PROVE  SessionInv'
<1>0. Ender \in Callers
  BY DEF Callers
<1>1. ASSUME NEW i \in Ids, EndOwnSession(i) PROVE SessionInv'
  <2> DEFINE k == [at |-> "delay", id |-> i, chat |-> record[i], resume |-> FALSE]
  <2>1. call' = [call EXCEPT ![Ender] = k] /\ UNCHANGED <<record, born, live, disputed>>
    BY <1>1 DEF EndOwnSession
  <2>2. k \in Calls
    BY SessionsAssumption DEF SessionInv, RowTypes, Calls, Points, Ids
  <2>3. k.at = "delay" /\ k.id = i
    OBVIOUS
  <2> HIDE DEF k
  <2>4. call' \in [Callers -> Calls] /\ call'[Ender] = k /\ \A d \in Callers \ {Ender} : call'[d] = call[d]
    BY <1>0, <2>1, <2>2 DEF SessionInv, RowTypes
  <2> QED
    BY <2>1, <2>3, <2>4, BornBound, Resting
<1>2. CASE EndAfter
  <2>1. call[Ender].at = "delay" /\ call[Ender].id \in Ids
    BY <1>0, <1>2 DEF EndAfter, SessionInv, CallInv
  <2>2. CASE KillForDelete(Ender, call[Ender].id)
    BY <1>0, <2>1, <2>2, KillForDeleteStep
  <2>3. CASE ~KillForDelete(Ender, call[Ender].id)
    <3>1. call' = [call EXCEPT ![Ender] = Idle] /\ UNCHANGED <<record, born, live, disputed>>
      BY <1>2, <2>3 DEF EndAfter
    <3>2. call' \in [Callers -> Calls] /\ \A d \in Callers : call'[d] = call[d] \/ call'[d].at = "idle"
      BY <1>0, <3>1, IdleCall DEF SessionInv, RowTypes
    <3> QED
      BY <3>1, <3>2, BornBound, Resting
  <2> QED
    BY <2>2, <2>3
<1> QED
  BY <1>1, <1>2

\* A call that returns, or goes on to a point of its own.
LEMMA Returning ==
  ASSUME SessionInv, NEW u \in Users, Return(u)
  PROVE  call' \in [Callers -> Calls] /\ \A d \in Callers : call'[d] = call[d] \/ call'[d].at = "idle"
  BY IdleCall DEF Return, Callers, SessionInv, RowTypes

LEMMA Reaching ==
  ASSUME SessionInv, NEW u \in Users, NEW point \in Points, Reach(u, point)
  PROVE  /\ call' \in [Callers -> Calls] /\ call'[u].at = point
         /\ \A d \in Callers \ {u} : call'[d] = call[d]
<1> DEFINE k == [Idle EXCEPT !.at = point]
<1>1. k \in Calls /\ k.at = point
  BY IdleCall DEF Calls
<1>2. call' = [call EXCEPT ![u] = k] /\ u \in Callers /\ call \in [Callers -> Calls]
  BY DEF Reach, Callers, SessionInv, RowTypes
<1> QED
  BY <1>1, <1>2

LEMMA KillWorkspaceStep ==
  ASSUME SessionInv, NEW u \in Users, KillWorkspace(u)
  PROVE  SessionInv'
<1>0. u \in Callers /\ "remove" \in Points /\ UNCHANGED <<record, born>>
  BY DEF Callers, Points, KillWorkspace
<1>1. PICK spared \in SUBSET live :
        /\ live' = live \ (Recorded \ spared) /\ disputed \subseteq disputed'
        /\ \/ Return(u) /\ UNCHANGED disputed
           \/ Reach(u, "remove") /\ spared \subseteq disputed'
  <2>1. CASE live' = live \ Recorded /\ Reach(u, "remove") /\ UNCHANGED disputed
    <3>1. {} \in SUBSET live /\ live' = live \ (Recorded \ {})
      BY <2>1
    <3> QED
      BY <2>1, <3>1
  <2>2. CASE ~(live' = live \ Recorded /\ Reach(u, "remove") /\ UNCHANGED disputed)
    <3>1. PICK spared \in SUBSET (live \cap Recorded) \ {{}} :
            /\ live' = live \ (Recorded \ spared)
            /\ \/ Return(u) /\ UNCHANGED disputed
               \/ Reach(u, "remove") /\ disputed' = disputed \cup spared
      BY <2>2 DEF KillWorkspace
    <3> QED
      BY <3>1
  <2> QED
    BY <2>1, <2>2
<1>2. live' \subseteq live /\ live' \cap Recorded \subseteq spared
  BY <1>1
<1>3. CASE Return(u) /\ UNCHANGED disputed
  BY <1>0, <1>2, <1>3, Returning, BornBound, Resting
<1>4. CASE Reach(u, "remove") /\ spared \subseteq disputed'
  <2>1. call' \in [Callers -> Calls] /\ call'[u].at = "remove" /\ \A d \in Callers \ {u} : call'[d] = call[d]
    BY <1>0, <1>4, Reaching
  <2>2. live' \cap Recorded \subseteq disputed'
    BY <1>2, <1>4
  <2> QED
    BY <1>0, <1>1, <1>2, <2>1, <2>2, Killing
<1> QED
  BY <1>1, <1>3, <1>4

LEMMA RemoveDirectoryStep ==
  ASSUME SessionInv, NEW u \in Users, RemoveDirectory(u)
  PROVE  SessionInv'
<1>0. u \in Callers /\ "clear" \in Points /\ call[u].at = "remove" /\ UNCHANGED <<record, born, live, disputed>>
  BY DEF Callers, Points, RemoveDirectory
<1>1. CASE Return(u)
  BY <1>0, <1>1, Returning, BornBound, Resting
<1>2. CASE Reach(u, "clear")
  <2>1. call' \in [Callers -> Calls] /\ call'[u].at = "clear" /\ \A d \in Callers \ {u} : call'[d] = call[d]
    BY <1>0, <1>2, Reaching
  <2> QED
    BY <1>0, <2>1, BornBound, Resting
<1> QED
  BY <1>1, <1>2 DEF RemoveDirectory

LEMMA DeleteWorkspaceStep ==
  ASSUME SessionInv, NEW u \in Users,
         \/ KillWorkspace(u) \/ RemoveDirectory(u) \/ ClearWorkspace(u) \/ ClearFails(u) \/ ReloadWorkspace(u)
  PROVE  SessionInv'
<1>0. u \in Callers /\ call \in [Callers -> Calls]
  BY DEF Callers, SessionInv, RowTypes
<1>1. CASE KillWorkspace(u) \/ RemoveDirectory(u)
  BY <1>1, KillWorkspaceStep, RemoveDirectoryStep
<1>2. CASE ClearWorkspace(u)
  <2>1. /\ call[u].at = "clear" /\ record' = [i \in Ids |-> 0] /\ Reach(u, "reload") /\ "reload" \in Points
        /\ UNCHANGED <<born, live, disputed>>
    BY <1>2 DEF ClearWorkspace, Points
  <2>3. call' \in [Callers -> Calls] /\ \A d \in Callers : call'[d] = call[d] \/ call'[d].at = "reload"
    BY <2>1, Reaching
  <2>4. /\ \A i \in Ids : record'[i] = 0
        /\ 0 \notin live /\ 0 \notin 1 .. born /\ Recorded' = {}
    BY <2>1 DEF SessionInv, RowTypes, Recorded
  <2>5. RowTypes' /\ Rows'
    <3>1. record' \in [Ids -> 0 .. MaxChats]
      BY <2>1, SessionsAssumption
    <3> QED
      BY <2>1, <2>3, <2>4, <3>1 DEF SessionInv, RowTypes, Rows
  <2>6. CallInv'
    <3> SUFFICES ASSUME NEW d \in Callers
                 PROVE  (/\ call[d].at \in {"spawn", "settle", "launched", "drop", "delay"} => call[d].id \in Ids
                         /\ call[d].at \in {"spawn", "settle", "launched"} =>
                              call[d].chat \in 1 .. born /\ \A j \in Ids : record[j] = call[d].chat => j = call[d].id)'
      BY DEF CallInv
    <3>1. CASE call'[d] = call[d]
      BY <2>1, <2>4, <3>1 DEF SessionInv, CallInv
    <3>2. CASE call'[d].at = "reload"
      BY <3>2
    <3> QED
      BY <2>3, <3>1, <3>2
  <2>7. \A t \in live : t \in disputed
    BY <1>0, <2>1 DEF SessionInv, RemovalInv, Removable, Addressable
  <2> QED
    BY <2>1, <2>5, <2>6, <2>7 DEF SessionInv, RemovalInv, Removable, Addressable
<1>3. CASE ClearFails(u) \/ ReloadWorkspace(u)
  <2>1. Return(u) /\ UNCHANGED <<record, born, live, disputed>>
    BY <1>3 DEF ClearFails, ReloadWorkspace
  <2> QED
    BY <2>1, Returning, BornBound, Resting
<1> QED
  BY <1>1, <1>2, <1>3

\* The calls of users and agents.
LEMMA UserStep ==
  ASSUME SessionInv, UserNext \/ AgentExits
  PROVE  SessionInv'
<1>0. Users \subseteq Callers /\ Ender \in Callers /\ call \in [Callers -> Calls]
  BY DEF Callers, SessionInv, RowTypes
<1>1. ASSUME NEW u \in Users, \/ StartSession(u, FALSE) \/ Spawn(u, FALSE) \/ DropRecord(u)
                              \/ \E i \in Ids : ResumeSession(u, i) \/ DeleteSession(u, i)
      PROVE  SessionInv'
  BY <1>0, <1>1, StartSessionStep, SpawnStep, DropRecordStep, ResumeStep, KillForDeleteStep DEF DeleteSession
<1>2. ASSUME UNCHANGED <<record, born, call, disputed>>, live' \subseteq live PROVE SessionInv'
  BY <1>0, <1>2, BornBound, Resting
<1>3. CASE AgentExits \/ \E u \in Users, i \in Ids : CloseSession(u, i)
  BY <1>2, <1>3 DEF AgentExits, CloseSession
<1>4. CASE (\E i \in Ids : EndOwnSession(i)) \/ EndAfter \/ DropRecord(Ender)
  BY <1>0, <1>4, EndOwnStep, DropRecordStep
<1> QED
  BY <1>1, <1>3, <1>4 DEF UserNext

-----------------------------------------------------------------------------
(* What each action of the scheduler is to the sessions.                   *)

\* What a launch's answer does to its call.
LEMMA CallEnds ==
  ASSUME SessionInv, NEW c \in Callers, call' = [call EXCEPT ![c] = Idle],
         UNCHANGED <<record, born, live, disputed>>
  PROVE  SessionInv'
<1>1. call' \in [Callers -> Calls] /\ \A d \in Callers : call'[d] = call[d] \/ call'[d].at = "idle"
  BY IdleCall DEF SessionInv, RowTypes
<1> QED
  BY <1>1, BornBound, Resting

LEMMA Untouched ==
  ASSUME SessionInv, UNCHANGED <<record, born, live, call, disputed>>
  PROVE  SessionInv'
  BY DEF SessionInv, RowTypes, Rows, CallInv, RemovalInv, Removable, Addressable, Recorded

LEMMA DecideSessions ==
  ASSUME SessionInv, NEW e, Decide(e)
  PROVE  SessionInv'
<1>0. Runner \in Callers
  BY DEF Callers
<1>1. CASE Refuse(e) \/ CheckFails(e)
  BY <1>1, Untouched DEF Decide, Refuse, CheckFails
<1>2. CASE Launch(e)
  BY <1>0, <1>2, StartSessionStep DEF Launch
<1>3. CASE LaunchFails(e)
  BY <1>3, Untouched DEF LaunchFails
<1> QED
  BY <1>1, <1>2, <1>3 DEF Decide

LEMMA SessionStep ==
  ASSUME SessionInv, [Next]_svars
  PROVE  SessionInv'
<1>0. Runner \in Callers /\ Users \subseteq Callers
  BY DEF Callers
<1>1. CASE BeginPass
  BY <1>1, Untouched DEF BeginPass, sessions
<1>2. CASE SaveCursor \/ EndPass
  BY <1>2, Untouched DEF SaveCursor, EndPass
<1>3. ASSUME NEW s \in Schedules, EvaluateNone(s) \/ EvaluateFails(s) \/ EvaluateDue(s) PROVE SessionInv'
  <2>1. CASE EvaluateNone(s) \/ EvaluateFails(s)
    BY <2>1, Untouched DEF EvaluateNone, EvaluateFails, sessions
  <2>2. CASE EvaluateDue(s)
    BY <2>2, DecideSessions DEF EvaluateDue
  <2> QED
    BY <1>3, <2>1, <2>2
<1>4. CASE LaunchSpawns \/ LaunchSettles
  BY <1>0, <1>4, SpawnStep, SettleStep DEF LaunchSpawns, LaunchSettles
<1>5. CASE RecordRun \/ LeaveOpen
  BY <1>0, <1>5, CallEnds DEF RecordRun, LeaveOpen
<1>6. CASE UserNext \/ AgentExits \/ Watch
  BY <1>6, UserStep, Untouched DEF Watch
<1>7. ASSUME NEW u \in Users, DeleteWorkspace(u) PROVE SessionInv'
  BY <1>7, DeleteWorkspaceStep DEF DeleteWorkspace
<1>8. ASSUME NEW s \in Schedules, RunNow(s) PROVE SessionInv'
  BY <1>8, DecideSessions DEF RunNow
<1>9. CASE Edit \/ Quit \/ Start \/ Tick
  BY <1>9, Untouched DEF Edit, Quit, Start, Tick, sessions
<1>10. CASE Exit \/ Crash
  <2>1. call' = [c \in Callers |-> Idle] /\ UNCHANGED <<record, born, live, disputed>>
    BY <1>10 DEF Exit, Crash, Ends
  <2>2. call' \in [Callers -> Calls] /\ \A c \in Callers : call'[c].at = "idle"
    BY <2>1, IdleCall DEF Idle
  <2> QED
    BY <2>1, <2>2, BornBound, Resting
<1>11. CASE UNCHANGED svars
  BY <1>11, Untouched DEF svars
<1> QED
  BY <1>1, <1>2, <1>3, <1>4, <1>5, <1>6, <1>7, <1>8, <1>9, <1>10, <1>11 DEF Next, PassStep, Others

\* No agent is left running without a record to reach it by
\* (agent_workspaces_service.go): a terminal outlives its record only when it was
\* started beside the deletion, or when tmux did not answer it.
THEOREM AddressableHolds == Spec => []Addressable
<1>1. Init => SessionInv
  BY SessionInvInit DEF Init
<1>2. SessionInv => Addressable
  BY DEF SessionInv
<1> QED
  BY <1>1, <1>2, SessionStep, PTL DEF Spec

-----------------------------------------------------------------------------
(* The scheduler's types.                                                  *)

PassRecord == [at : Steps, manual : BOOLEAN, time : Times, specs : [Schedules -> Specs], scope : BOOLEAN,
               todo : SUBSET Schedules, cur : Schedules, for : Times,
               launched : BOOLEAN, failed : SUBSET Schedules]

PassTypes ==
    /\ now \in Times /\ spec \in [Schedules -> Specs] /\ cursor \in [Schedules -> Cursors]
    /\ pass \in PassRecord
    /\ gone \in [Schedules -> Times \cup {-1}]

Executing == pass.at \in {"launch", "save"} /\ ~pass.manual
Passing   == pass.at # "idle" /\ ~pass.manual

\* Who is where: RunNow has no step of its own after its launch, and the launch
\* is in the runner's hands.
Phases ==
    /\ pass.at \in {"next", "save"} => ~pass.manual
    /\ pass.at = "launch" => call[Runner].at \in {"spawn", "settle", "launched", "failed"}
    /\ pass.at # "launch" => call[Runner].at = "idle"
    /\ pass.time <= now
    /\ Executing => pass.for <= pass.time

\* No deletion begins, and none is cut short.
Deletes ==
    \A u \in Users : /\ call'[u].at \in {"clear", "reload"} => call[u].at \in {"clear", "reload"}
                     /\ call[u].at = "clear" => call'[u].at = "clear"

\* A step that is neither the scheduler's nor seen by it.
Aside ==
    /\ UNCHANGED <<now, cursor, runs, pass, chats, open, torn, gone, crossed, kept>>
    /\ spec' \in [Schedules -> Specs]
    /\ Deletes
    /\ \/ call'[Runner] = call[Runner]
       \/ call[Runner].at = "settle" /\ call'[Runner].at \in {"launched", "failed"}

LEMMA NoPassType == NoSpec \in Specs /\ NoCursor \in Cursors /\ NoPass \in PassRecord
<1>1. (CHOOSE c \in Crons : TRUE) \in Crons /\ (CHOOSE s \in Schedules : TRUE) \in Schedules /\ 0 \in Times /\ MaxTime \in Nat
  BY ScheduleAssumption DEF Times
<1>2. NoSpec \in Specs /\ NoCursor \in Cursors
  BY <1>1 DEF NoSpec, Specs, NoCursor, Cursors
<1> HIDE DEF NoSpec
<1>3. [s \in Schedules |-> NoSpec] \in [Schedules -> Specs]
  BY <1>2
<1> QED
  BY <1>1, <1>2, <1>3 DEF NoPass, PassRecord, Steps

LEMMA EditedTypes == \A sp \in Specs : Edited(sp) \subseteq Specs
<1> TAKE sp \in Specs
<1>1. NoSpec \in Specs
  BY NoPassType
<1>2. \A c \in Crons : [[NoSpec EXCEPT !.on = TRUE] EXCEPT !.cron = c] \in Specs /\ [sp EXCEPT !.cron = c] \in Specs
  BY <1>1 DEF Specs
<1>3. [sp EXCEPT !.disabled = ~@] \in Specs /\ [sp EXCEPT !.skip = ~@] \in Specs
  BY DEF Specs
<1> QED
  BY <1>1, <1>2, <1>3 DEF Edited

\* The calls of users and agents are none of the runner's, and none begins or
\* cuts short a workspace's deletion.
LEMMA UserCalls ==
  ASSUME SessionInv, UserNext \/ AgentExits
  PROVE  /\ call'[Runner] = call[Runner]
         /\ Deletes
<1>0. call \in [Callers -> Calls] /\ Runner \in Callers /\ Ender \in Callers /\ Users \subseteq Callers
      /\ Runner \notin Users /\ Ender \notin Users /\ Ender # Runner
  BY SessionsAssumption DEF SessionInv, RowTypes, Callers
<1>1. ASSUME NEW c \in Callers, c # Runner, call[c].at # "clear", NEW k,
             call' = [call EXCEPT ![c] = k], k.at \notin {"clear", "reload"}
      PROVE  call'[Runner] = call[Runner] /\ Deletes
  BY <1>0, <1>1 DEF Deletes
<1>2. Idle.at = "idle"
  BY DEF Idle
<1>3. ASSUME NEW c \in Callers, c # Runner, Answer(c, "failed") PROVE call' = [call EXCEPT ![c] = Idle]
  BY <1>3 DEF Answer, Detached
<1>4. ASSUME NEW u \in Users, StartSession(u, FALSE) \/ Spawn(u, FALSE) \/ DropRecord(u)
      PROVE  call[u].at # "clear" /\ \E k : call' = [call EXCEPT ![u] = k] /\ k.at \notin {"clear", "reload"}
  <2>1. CASE StartSession(u, FALSE)
    BY <1>0, <1>2, <1>3, <2>1 DEF StartSession, Free
  <2>2. CASE Spawn(u, FALSE)
    BY <1>0, <1>2, <1>3, <2>2 DEF Spawn, Detached
  <2>3. CASE DropRecord(u)
    BY <1>2, <2>3 DEF DropRecord
  <2> QED
    BY <1>4, <2>1, <2>2, <2>3
<1>5. ASSUME NEW u \in Users, NEW i \in Ids, ResumeSession(u, i) \/ DeleteSession(u, i)
      PROVE  call[u].at # "clear" /\ \E k : call' = [call EXCEPT ![u] = k] /\ k.at \notin {"clear", "reload"}
  <2> DEFINE k1 == [at |-> "spawn", id |-> i, chat |-> record[i], resume |-> TRUE]
             k2 == [at |-> "drop", id |-> i, chat |-> record[i], resume |-> FALSE]
  <2>1. k1.at \notin {"clear", "reload"} /\ k2.at \notin {"clear", "reload"}
    OBVIOUS
  <2>2. call[u].at # "clear" /\ (call' = [call EXCEPT ![u] = k1] \/ call' = [call EXCEPT ![u] = k2])
    BY <1>5 DEF ResumeSession, DeleteSession, KillForDelete, Free
  <2> HIDE DEF k1, k2
  <2> QED
    BY <2>1, <2>2
<1>6. ASSUME (\E i \in Ids : EndOwnSession(i)) \/ EndAfter \/ DropRecord(Ender)
      PROVE  call[Ender].at # "clear" /\ \E k : call' = [call EXCEPT ![Ender] = k] /\ k.at \notin {"clear", "reload"}
  BY <1>2, <1>6 DEF EndOwnSession, EndAfter, KillForDelete, DropRecord, Free
<1>7. CASE AgentExits \/ \E u \in Users, i \in Ids : CloseSession(u, i)
  BY <1>7 DEF AgentExits, CloseSession, Deletes
<1>8. CASE \E u \in Users : StartSession(u, FALSE) \/ Spawn(u, FALSE) \/ DropRecord(u)
                            \/ \E i \in Ids : ResumeSession(u, i) \/ DeleteSession(u, i)
  <2>1. PICK u \in Users : call[u].at # "clear" /\ \E k : call' = [call EXCEPT ![u] = k] /\ k.at \notin {"clear", "reload"}
    BY <1>4, <1>5, <1>8
  <2> QED
    BY <1>0, <1>1, <2>1
<1>9. CASE (\E i \in Ids : EndOwnSession(i)) \/ EndAfter \/ DropRecord(Ender)
  BY <1>0, <1>1, <1>6, <1>9
<1> QED
  BY <1>7, <1>8, <1>9 DEF UserNext

\* Every step is one of these.
Moves ==
    \/ BeginPass \/ SaveCursor \/ EndPass \/ LaunchSpawns \/ RecordRun \/ LeaveOpen
    \/ \E s \in Schedules : EvaluateNone(s) \/ EvaluateFails(s) \/ EvaluateDue(s) \/ RunNow(s)
    \/ \E u \in Users : DeleteWorkspace(u) /\ UNCHANGED <<now, spec, pass, chats, open, torn, missed>>
    \/ Exit \/ Crash \/ Tick
    \/ Aside

LEMMA StepsAreMoves ==
  ASSUME SessionInv, PassTypes, [Next]_svars
  PROVE  Moves
<1>0. call \in [Callers -> Calls] /\ Runner \in Callers /\ Users \subseteq Callers /\ Runner \notin Users
  BY SessionsAssumption DEF SessionInv, RowTypes, Callers
<1>1. CASE (UserNext \/ AgentExits \/ Watch) /\ UNCHANGED <<now, spec, tables, pass, history>>
  <2>1. CASE UserNext \/ AgentExits
    BY <1>1, <2>1, UserCalls DEF Moves, Aside, tables, history, PassTypes
  <2>2. CASE Watch
    BY <1>1, <2>2 DEF Watch, Moves, Aside, Deletes, tables, history, PassTypes
  <2> QED
    BY <1>1, <2>1, <2>2
<1>2. CASE Quit \/ Start \/ UNCHANGED svars
  BY <1>2 DEF Quit, Start, svars, Moves, Aside, Deletes, tables, history, sessions, PassTypes
<1>3. CASE Edit
  <2>1. spec' \in [Schedules -> Specs]
    <3>1. CASE EditManifest
      BY <3>1 DEF EditManifest, PassTypes
    <3>2. CASE CreateWorkspace
      <4>1. Edited(NoSpec) \subseteq Specs
        BY EditedTypes, NoPassType
      <4>2. spec' \in [Schedules -> Edited(NoSpec)]
        BY <3>2 DEF CreateWorkspace
      <4> QED
        BY <4>1, <4>2
    <3>3. ASSUME NEW s \in Schedules, EditSchedule(s) PROVE spec' \in [Schedules -> Specs]
      BY <3>3, EditedTypes DEF EditSchedule, PassTypes
    <3> QED
      BY <1>3, <3>1, <3>2, <3>3 DEF Edit
  <2> QED
    BY <1>3, <2>1 DEF Edit, Moves, Aside, Deletes, tables, history
<1>4. CASE LaunchSettles
  <2>1. PICK outcome \in {"launched", "failed"} : Answer(Runner, outcome)
    BY <1>4 DEF LaunchSettles, Settle
  <2>2. call[Runner].at = "settle"
    BY <1>4 DEF LaunchSettles, Settle
  <2>3. call' = [call EXCEPT ![Runner] = [call[Runner] EXCEPT !.at = outcome]]
    BY <2>1 DEF Answer, Detached
  <2>4. [call[Runner] EXCEPT !.at = outcome].at = outcome
    BY <1>0 DEF Calls
  <2>5. call'[Runner].at \in {"launched", "failed"} /\ \A u \in Users : call'[u] = call[u]
    BY <1>0, <2>3, <2>4
  <2> QED
    BY <1>4, <2>2, <2>5 DEF LaunchSettles, Moves, Aside, Deletes, tables, history, PassTypes
<1> QED
  BY <1>1, <1>2, <1>3, <1>4 DEF Next, PassStep, Others, Moves

-----------------------------------------------------------------------------
(* Evaluate and execute.                                                   *)

LEMMA DecisionIsLatest ==
  ASSUME PassTypes, NEW s \in Schedules
  PROVE  /\ Decision(s) # NoneDue =>
                /\ ~Fresh(s) /\ ~pass.specs[s].disabled
                /\ Decision(s) \in Window(s, cursor[s].through, pass.time)
                /\ \A t \in Window(s, cursor[s].through, pass.time) : t <= Decision(s)
         /\ Decision(s) = NoneDue /\ ~Fresh(s) /\ ~pass.specs[s].disabled =>
                Window(s, cursor[s].through, pass.time) = {}
<1> DEFINE W == Window(s, cursor[s].through, pass.time)
           S == {NoneDue} \cup W
<1>1. pass.specs[s].cron \in Crons
  BY DEF PassTypes, PassRecord, Specs
<1>2. W \subseteq 1 .. MaxTime
  BY <1>1, ScheduleAssumption DEF Window
<1>3. S \subseteq -1 .. MaxTime /\ S # {} /\ MaxTime \in Int /\ -1 \in Int
  BY <1>2, ScheduleAssumption DEF NoneDue
<1>4. Max(S) \in S /\ \A n \in S : n <= Max(S)
  <2> HIDE DEF S
  <2> QED
    BY <1>3, MaxIsGreatest
<1>5. CASE Fresh(s) \/ pass.specs[s].disabled
  BY <1>5 DEF Decision
<1>6. CASE ~(Fresh(s) \/ pass.specs[s].disabled)
  <2>1. Decision(s) = Max(S)
    BY <1>6 DEF Decision
  <2> HIDE DEF W
  <2>2. Decision(s) \in {-1} \cup W /\ \A n \in W : n <= Decision(s)
    BY <1>4, <2>1 DEF NoneDue
  <2>3. ASSUME Decision(s) = NoneDue PROVE W = {}
    <3> SUFFICES ASSUME NEW t \in W PROVE FALSE
      OBVIOUS
    <3>1. t <= -1 /\ t \in 1 .. MaxTime
      BY <1>2, <2>2, <2>3 DEF NoneDue
    <3> QED
      BY <3>1, ScheduleAssumption
  <2> QED
    BY <1>6, <2>2, <2>3 DEF NoneDue, W
<1> QED
  BY <1>5, <1>6

\* What the scheduler is to execute: the pass at a due schedule, or RunNow.
Executable(e) ==
    /\ e \in PassRecord /\ e.for <= e.time /\ e.time <= now
    /\ \/ \E s \in Schedules :
            /\ Take(s) /\ ~pass.manual /\ Decision(s) # NoneDue /\ e = Due(s)
       \/ \E s \in Schedules : pass.at = "idle" /\ e = Manual(s)

\* An execution that starts leaves the pass to its launch; one that does not has
\* closed, with a row in the history or an error.
Row(e, status, id, chat) == [for |-> e.for, manual |-> e.manual, status |-> status, session |-> id, chat |-> chat]
Recording(e, status, id, chat) == runs' = [runs EXCEPT ![e.cur] = Trim(<<Row(e, status, id, chat)>> \o @)]
Closing(e, status, id, chat) ==
    \E errors \in {{}, {e.cur}} :
        /\ Executed(e, status = "launched", errors)
        /\ (UNCHANGED runs /\ errors = {e.cur}) \/ Recording(e, status, id, chat)

LEMMA InsertRunCloses ==
  ASSUME NEW e, NEW status, NEW id, NEW chat, InsertRun(e, status, id, chat)
  PROVE  Closing(e, status, id, chat)
<1>1. CASE Recording(e, status, id, chat) /\ Executed(e, status = "launched", {})
  BY <1>1 DEF Closing
<1>2. CASE UNCHANGED runs /\ Executed(e, status = "launched", {e.cur})
  BY <1>2 DEF Closing
<1> QED
  BY <1>1, <1>2 DEF InsertRun, Recording, Row

LEMMA DecideCases ==
  ASSUME SessionInv, NEW e, Decide(e)
  PROVE  /\ UNCHANGED <<now, spec, cursor, chats, open, torn, gone, crossed, kept>>
         /\ \A u \in Users : call'[u] = call[u]
         /\ \/ /\ Launch(e) /\ pass' = [e EXCEPT !.at = "launch"] /\ UNCHANGED runs
               /\ call[Runner].at = "idle" /\ call'[Runner].at \in {"spawn", "failed"}
            \/ (Closing(e, "skipped", 0, 0) \/ Closing(e, "failed", 0, 0)) /\ UNCHANGED call
<1>0. call \in [Callers -> Calls] /\ Runner \in Callers /\ Users \subseteq Callers /\ Runner \notin Users
  BY SessionsAssumption DEF SessionInv, RowTypes, Callers
<1>1. UNCHANGED <<now, spec, cursor, chats, open, torn, gone, crossed, kept>>
  BY DEF Decide
<1>2. CASE Refuse(e)
  BY <1>1, <1>2, InsertRunCloses DEF Refuse
<1>3. CASE CheckFails(e)
  <2>1. Executed(e, "failed" = "launched", {e.cur}) /\ UNCHANGED runs
    BY <1>3 DEF CheckFails, Executed
  <2> QED
    BY <1>1, <1>3, <2>1 DEF CheckFails, Closing
<1>4. CASE LaunchFails(e)
  BY <1>1, <1>4, InsertRunCloses DEF LaunchFails
<1>5. CASE Launch(e)
  <2>1. StartSession(Runner, FALSE) /\ pass' = [e EXCEPT !.at = "launch"] /\ UNCHANGED runs /\ call[Runner].at = "idle"
    BY <1>5 DEF Launch, StartSession, Free
  <2>2. \E k : call' = [call EXCEPT ![Runner] = k] /\ k.at \in {"spawn", "failed"}
    <3>1. [call[Runner] EXCEPT !.at = "failed"].at = "failed"
      BY <1>0 DEF Calls
    <3>2. CASE BelowCap
      <4> DEFINE k == [at |-> "spawn", id |-> NextId, chat |-> born + 1, resume |-> FALSE]
      <4>1. call' = [call EXCEPT ![Runner] = k]
        BY <2>1, <3>2 DEF StartSession
      <4>2. k.at = "spawn"
        OBVIOUS
      <4> HIDE DEF k
      <4> QED
        BY <4>1, <4>2
    <3>3. CASE ~BelowCap
      BY <2>1, <3>1, <3>3 DEF StartSession, Answer, Detached
    <3> QED
      BY <3>2, <3>3
  <2>3. call'[Runner].at \in {"spawn", "failed"} /\ \A u \in Users : call'[u] = call[u]
    BY <1>0, <2>2
  <2> QED
    BY <1>1, <1>5, <2>1, <2>3
<1> QED
  BY <1>2, <1>3, <1>4, <1>5 DEF Decide

\* What is executed is the pass or RunNow's own.
LEMMA ExecutableNow ==
  ASSUME PassTypes, Phases, NEW s \in Schedules
  PROVE  /\ EvaluateDue(s) => Executable(Due(s)) /\ Decide(Due(s))
         /\ RunNow(s) => Executable(Manual(s)) /\ Decide(Manual(s))
<1>1. ASSUME EvaluateDue(s) PROVE Executable(Due(s)) /\ Decide(Due(s))
  <2>1. Take(s) /\ Decision(s) # NoneDue /\ Decide(Due(s))
    BY <1>1 DEF EvaluateDue
  <2>2. pass.at = "next" /\ ~pass.manual /\ pass \in PassRecord /\ pass.time <= now
    BY <2>1 DEF Take, Phases, PassTypes
  <2>3. Decision(s) \in Window(s, cursor[s].through, pass.time)
    BY <2>1, DecisionIsLatest
  <2>4. Decision(s) \in 1 .. MaxTime /\ Decision(s) <= pass.time
    BY <2>2, <2>3, ScheduleAssumption DEF Window, PassTypes, PassRecord, Specs
  <2>5. Due(s) \in PassRecord /\ Due(s).for = Decision(s) /\ Due(s).time = pass.time
    <3>1. Decision(s) \in Times /\ s \in Schedules
      BY <2>4, ScheduleAssumption DEF Times
    <3> HIDE DEF Executable
    <3> QED
      BY <2>2, <3>1 DEF PassRecord, Due
  <2> QED
    BY <2>1, <2>2, <2>4, <2>5 DEF Executable
<1>2. ASSUME RunNow(s) PROVE Executable(Manual(s)) /\ Decide(Manual(s))
  <2>1. pass.at = "idle" /\ Decide(Manual(s))
    BY <1>2 DEF RunNow
  <2>2. NoPass \in PassRecord /\ now \in Times
    BY NoPassType DEF PassTypes
  <2>3. Manual(s) \in PassRecord /\ Manual(s).for = now /\ Manual(s).time = now
    BY <2>2 DEF PassRecord, Manual
  <2>4. now <= now
    BY <2>2, ScheduleAssumption DEF Times
  <2> QED
    BY <2>1, <2>3, <2>4 DEF Executable
<1> QED
  BY <1>1, <1>2

\* The pass an execution leaves behind.
LEMMA ExecutedPass ==
  ASSUME NEW e \in PassRecord, NEW launched \in BOOLEAN, NEW errors \in SUBSET Schedules, Executed(e, launched, errors)
  PROVE  /\ pass' \in PassRecord
         /\ e.manual => pass' = NoPass
         /\ ~e.manual => /\ pass'.at = "save" /\ pass'.launched = launched /\ pass'.failed = e.failed \cup errors
                         /\ pass'.manual = FALSE /\ pass'.time = e.time /\ pass'.specs = e.specs /\ pass'.scope = e.scope
                         /\ pass'.todo = e.todo /\ pass'.cur = e.cur /\ pass'.for = e.for
<1>1. NoPass \in PassRecord
  BY NoPassType
<1>2. CASE e.manual
  BY <1>1, <1>2 DEF Executed
<1>3. CASE ~e.manual
  <2>1. pass' = [e EXCEPT !.at = "save", !.launched = launched, !.failed = @ \cup errors]
    BY <1>3 DEF Executed
  <2> QED
    BY <1>3, <2>1 DEF PassRecord, Steps
<1> QED
  BY <1>2, <1>3

LEMMA ClosingPass ==
  ASSUME NEW e \in PassRecord, NEW status, NEW id, NEW chat, Closing(e, status, id, chat)
  PROVE  /\ pass' \in PassRecord
         /\ e.manual => pass' = NoPass
         /\ ~e.manual => /\ pass'.at = "save" /\ pass'.launched = (status = "launched")
                         /\ pass'.manual = FALSE /\ pass'.time = e.time /\ pass'.specs = e.specs /\ pass'.scope = e.scope
                         /\ pass'.todo = e.todo /\ pass'.cur = e.cur /\ pass'.for = e.for
                         /\ e.failed \subseteq pass'.failed
         /\ (UNCHANGED runs /\ (~e.manual => e.cur \in pass'.failed)) \/ Recording(e, status, id, chat)
<1>1. e.cur \in Schedules
  BY DEF PassRecord
<1>2. PICK errors \in {{}, {e.cur}} :
        /\ Executed(e, status = "launched", errors)
        /\ (UNCHANGED runs /\ errors = {e.cur}) \/ Recording(e, status, id, chat)
  BY DEF Closing
<1> DEFINE l == (status = "launched")
<1>3. errors \in SUBSET Schedules /\ l \in BOOLEAN
  BY <1>1, <1>2
<1>4. Executed(e, l, errors)
  BY <1>2
<1> HIDE DEF l
<1>5. /\ pass' \in PassRecord
      /\ e.manual => pass' = NoPass
      /\ ~e.manual => /\ pass'.at = "save" /\ pass'.launched = l /\ pass'.failed = e.failed \cup errors
                      /\ pass'.manual = FALSE /\ pass'.time = e.time /\ pass'.specs = e.specs /\ pass'.scope = e.scope
                      /\ pass'.todo = e.todo /\ pass'.cur = e.cur /\ pass'.for = e.for
  BY <1>3, <1>4, ExecutedPass
<1>6. (UNCHANGED runs /\ (~e.manual => e.cur \in pass'.failed)) \/ Recording(e, status, id, chat)
  BY <1>2, <1>5
<1>7. ~e.manual => e.failed \subseteq pass'.failed
  BY <1>5
<1> QED
  BY <1>5, <1>6, <1>7 DEF l

LEMMA LaunchPass ==
  ASSUME NEW e \in PassRecord, pass' = [e EXCEPT !.at = "launch"]
  PROVE  /\ pass' \in PassRecord /\ pass'.at = "launch"
         /\ pass'.manual = e.manual /\ pass'.time = e.time /\ pass'.specs = e.specs /\ pass'.scope = e.scope
         /\ pass'.todo = e.todo /\ pass'.cur = e.cur /\ pass'.for = e.for /\ pass'.failed = e.failed
  BY DEF PassRecord, Steps

-----------------------------------------------------------------------------
(* The invariant of the phases.                                            *)

PhaseInv == PassTypes /\ Phases

LEMMA PhaseInvInit == Init => PhaseInv
<1> SUFFICES ASSUME Init PROVE PhaseInv
  OBVIOUS
<1>1. now \in Times /\ cursor \in [Schedules -> Cursors] /\ pass \in PassRecord /\ gone \in [Schedules -> Times \cup {-1}]
  BY NoPassType, ScheduleAssumption DEF Init, Times
<1>2. spec \in [Schedules -> Specs]
  BY NoPassType, EditedTypes DEF Init
<1>3. pass.at = "idle" /\ pass.time = 0 /\ now = 0 /\ call[Runner].at = "idle"
  BY DEF Init, SessionInit, NoPass, Idle, Callers
<1> QED
  BY <1>1, <1>2, <1>3 DEF PhaseInv, PassTypes, Phases, Executing

\* The steps of the pass that touch nothing but the pass and the cursors.
LEMMA ClosedCursor ==
  ASSUME PassTypes, NEW s \in Schedules
  PROVE  Closed(s) \in Cursors /\ Closed(s).through = pass.time /\ Closed(s).cron = pass.specs[s].cron
  BY DEF PassTypes, PassRecord, Closed, Cursors, Specs

LEMMA DecidePhases ==
  ASSUME SessionInv, PhaseInv, NEW e, Executable(e), Decide(e)
  PROVE  PhaseInv'
<1>1. UNCHANGED <<now, spec, cursor, gone>> /\ e \in PassRecord /\ e.time <= now /\ e.for <= e.time
  BY DecideCases DEF Executable
<1>2. NoPass.at = "idle" /\ NoPass.time = 0 /\ now \in Nat
  BY ScheduleAssumption DEF NoPass, PhaseInv, PassTypes, Times
<1>3. CASE pass' = [e EXCEPT !.at = "launch"] /\ call'[Runner].at \in {"spawn", "failed"}
  BY <1>1, <1>3, LaunchPass DEF PhaseInv, PassTypes, Phases, Executing
<1>4. CASE (Closing(e, "skipped", 0, 0) \/ Closing(e, "failed", 0, 0)) /\ UNCHANGED call
  <2>1. pass.at # "launch"
    BY DEF Executable, Take
  <2>2. call'[Runner].at = "idle"
    BY <1>4, <2>1 DEF PhaseInv, Phases
  <2>3. PassTypes'
    BY <1>1, <1>4, ClosingPass DEF PhaseInv, PassTypes
  <2>4. CASE e.manual
    <3>1. pass' = NoPass
      BY <1>1, <1>4, <2>4, ClosingPass
    <3>2. pass'.at = "idle" /\ pass'.time = 0 /\ pass'.time <= now'
      BY <1>1, <1>2, <3>1
    <3> QED
      BY <2>2, <2>3, <3>2 DEF PhaseInv, Phases, Executing
  <2>5. CASE ~e.manual
    <3>1. pass'.at = "save" /\ ~pass'.manual /\ pass'.time = e.time /\ pass'.for = e.for
      BY <1>1, <1>4, <2>5, ClosingPass
    <3> QED
      BY <1>1, <2>2, <2>3, <3>1 DEF PhaseInv, Phases, Executing
  <2> QED
    BY <2>4, <2>5
<1> QED
  BY <1>3, <1>4, DecideCases

LEMMA RunnerAnswers ==
  ASSUME SessionInv, Spawn(Runner, Cancelled)
  PROVE  /\ call[Runner].at = "spawn" /\ call'[Runner].at \in {"settle", "failed"}
         /\ \A u \in Users : call'[u] = call[u]
<1>0. call \in [Callers -> Calls] /\ Runner \in Callers /\ Users \subseteq Callers /\ Runner \notin Users
  BY SessionsAssumption DEF SessionInv, RowTypes, Callers
<1>1. [call[Runner] EXCEPT !.at = "settle"].at = "settle" /\ [call[Runner] EXCEPT !.at = "failed"].at = "failed"
  BY <1>0 DEF Calls
<1>2. CASE call' = [call EXCEPT ![Runner] = IF Detached(Runner) THEN [@ EXCEPT !.at = "settle"] ELSE Idle]
  BY <1>0, <1>1, <1>2 DEF Spawn, Detached
<1>3. CASE Answer(Runner, "failed")
  BY <1>0, <1>1, <1>3 DEF Spawn, Answer, Detached
<1> QED
  BY <1>2, <1>3 DEF Spawn

LEMMA RunnerIdles ==
  ASSUME SessionInv, call' = [call EXCEPT ![Runner] = Idle]
  PROVE  call'[Runner].at = "idle" /\ \A u \in Users : call'[u] = call[u]
  BY SessionsAssumption, IdleCall DEF SessionInv, RowTypes, Callers

\* What a step of the pass leaves of it.
PassKeeps ==
    /\ pass' \in PassRecord
    /\ pass'.manual = pass.manual /\ pass'.time = pass.time /\ pass'.specs = pass.specs /\ pass'.scope = pass.scope
    /\ pass'.cur = pass.cur /\ pass'.for = pass.for
    /\ pass.failed \subseteq pass'.failed

LEMMA PassUpdates ==
  ASSUME pass \in PassRecord, NEW s \in Schedules, NEW f \in SUBSET Schedules
  PROVE  /\ pass' = [pass EXCEPT !.todo = @ \ {s}, !.failed = @ \cup f] =>
                PassKeeps /\ pass'.at = pass.at /\ pass'.todo = pass.todo \ {s} /\ pass'.failed = pass.failed \cup f
         /\ pass' = [pass EXCEPT !.todo = @ \ {s}] =>
                PassKeeps /\ pass'.at = pass.at /\ pass'.todo = pass.todo \ {s}
         /\ pass' = [pass EXCEPT !.at = "next", !.failed = @ \cup f] =>
                PassKeeps /\ pass'.at = "next" /\ pass'.todo = pass.todo /\ pass'.failed = pass.failed \cup f
         /\ pass' = [pass EXCEPT !.at = "next", !.launched = FALSE, !.failed = @ \cup f] =>
                PassKeeps /\ pass'.at = "next" /\ pass'.todo = pass.todo /\ pass'.failed = pass.failed \cup f
         /\ pass' = [pass EXCEPT !.at = "next", !.launched = FALSE] =>
                PassKeeps /\ pass'.at = "next" /\ pass'.todo = pass.todo
<1>1. pass' = [pass EXCEPT !.todo = @ \ {s}, !.failed = @ \cup f] =>
         PassKeeps /\ pass'.at = pass.at /\ pass'.todo = pass.todo \ {s} /\ pass'.failed = pass.failed \cup f
  BY DEF PassRecord, PassKeeps
<1>2. pass' = [pass EXCEPT !.todo = @ \ {s}] => PassKeeps /\ pass'.at = pass.at /\ pass'.todo = pass.todo \ {s}
  BY DEF PassRecord, PassKeeps
<1>3. pass' = [pass EXCEPT !.at = "next", !.failed = @ \cup f] =>
         PassKeeps /\ pass'.at = "next" /\ pass'.todo = pass.todo /\ pass'.failed = pass.failed \cup f
  BY DEF PassRecord, PassKeeps, Steps
<1>4. pass' = [pass EXCEPT !.at = "next", !.launched = FALSE, !.failed = @ \cup f] =>
         PassKeeps /\ pass'.at = "next" /\ pass'.todo = pass.todo /\ pass'.failed = pass.failed \cup f
  BY ZenonT(30) DEF PassRecord, PassKeeps, Steps
<1>5. pass' = [pass EXCEPT !.at = "next", !.launched = FALSE] => PassKeeps /\ pass'.at = "next" /\ pass'.todo = pass.todo
  BY DEF PassRecord, PassKeeps, Steps
<1> QED
  BY <1>1, <1>2, <1>3, <1>4, <1>5

LEMMA Evaluated ==
  ASSUME PhaseInv, NEW s \in Schedules, EvaluateNone(s) \/ EvaluateFails(s)
  PROVE  /\ PassKeeps /\ pass.at = "next" /\ pass'.at = "next" /\ pass'.todo = pass.todo \ {s}
         /\ \/ cursor' = cursor /\ s \in pass'.failed /\ UNCHANGED kept
            \/ EvaluateNone(s) /\ cursor' = [cursor EXCEPT ![s] = Closed(s)] /\ kept' = kept \ {s}
         /\ UNCHANGED <<now, spec, runs, chats, open, torn, gone, crossed, call>>
<1>0. pass \in PassRecord /\ {s} \in SUBSET Schedules
  BY DEF PhaseInv, PassTypes
<1>1. CASE EvaluateNone(s)
  BY <1>0, <1>1, PassUpdates DEF EvaluateNone, Take, tables, history, sessions
<1>2. CASE EvaluateFails(s)
  <2>1. pass' = [pass EXCEPT !.todo = @ \ {s}, !.failed = @ \cup {s}]
    BY <1>2 DEF EvaluateFails
  <2>2. PassKeeps /\ pass'.at = pass.at /\ pass'.todo = pass.todo \ {s} /\ pass'.failed = pass.failed \cup {s}
    BY <1>0, <2>1, PassUpdates
  <2> QED
    BY <1>2, <2>2 DEF EvaluateFails, Take, tables, history
<1> QED
  BY <1>1, <1>2

LEMMA Saved ==
  ASSUME PhaseInv, SaveCursor
  PROVE  /\ PassKeeps /\ pass.at = "save" /\ pass'.at = "next" /\ pass'.todo = pass.todo /\ ~pass.manual
         /\ pass.cur \in Schedules
         /\ \/ cursor' = [cursor EXCEPT ![pass.cur] = Closed(pass.cur)] /\ kept' = kept \ {pass.cur} /\ UNCHANGED torn
            \/ /\ cursor' = cursor /\ kept' = kept
               /\ pass.cur \in pass'.failed /\ torn' = torn \cup {<<pass.cur, pass.for>>}
         /\ UNCHANGED <<now, spec, runs, chats, open, gone, crossed, call>>
<1>0. pass \in PassRecord /\ pass.cur \in Schedules /\ {pass.cur} \in SUBSET Schedules /\ pass.at = "save" /\ ~pass.manual
  BY DEF PhaseInv, PassTypes, PassRecord, SaveCursor, Phases
<1>1. CASE cursor' = [cursor EXCEPT ![pass.cur] = Closed(pass.cur)] /\ kept' = kept \ {pass.cur} /\ UNCHANGED torn
           /\ pass' = [pass EXCEPT !.at = "next", !.launched = FALSE]
  BY <1>0, <1>1, PassUpdates DEF SaveCursor
<1>2. CASE /\ cursor' = cursor /\ kept' = kept
           /\ pass' = [pass EXCEPT !.at = "next", !.launched = FALSE, !.failed = @ \cup {pass.cur}]
           /\ torn' = torn \cup {<<pass.cur, pass.for>>}
  <2>1. PassKeeps /\ pass'.at = "next" /\ pass'.todo = pass.todo /\ pass'.failed = pass.failed \cup {pass.cur}
    BY <1>0, <1>2, PassUpdates
  <2> QED
    BY <1>0, <1>2, <2>1 DEF SaveCursor
<1> QED
  BY <1>1, <1>2 DEF SaveCursor, Saveable

LEMMA LeftOpen ==
  ASSUME PhaseInv, LeaveOpen
  PROVE  /\ PassKeeps /\ pass.at = "launch" /\ pass'.at = "next" /\ pass'.todo = pass.todo /\ ~pass.manual
         /\ pass.cur \in pass'.failed /\ pass.cur \in Schedules
         /\ open' = open \cup {<<pass.cur, pass.for>>}
         /\ UNCHANGED <<now, spec, cursor, runs, chats, torn, gone, crossed, kept>>
         /\ call' = [call EXCEPT ![Runner] = Idle]
<1>0. pass \in PassRecord /\ pass.cur \in Schedules /\ {pass.cur} \in SUBSET Schedules
  BY DEF PhaseInv, PassTypes, PassRecord
<1>1. pass' = [pass EXCEPT !.at = "next", !.failed = @ \cup {pass.cur}]
  BY DEF LeaveOpen
<1>2. PassKeeps /\ pass'.at = "next" /\ pass'.todo = pass.todo /\ pass'.failed = pass.failed \cup {pass.cur}
  BY <1>0, <1>1, PassUpdates
<1> QED
  BY <1>0, <1>2 DEF LeaveOpen, Cancelled, tables

\* The pass that begins.
LEMMA Begun ==
  ASSUME PhaseInv, BeginPass
  PROVE  /\ pass.at = "idle" /\ pass' \in PassRecord /\ pass'.at = "next" /\ ~pass'.manual
         /\ pass'.time = now /\ pass'.specs = spec
         /\ \A s \in Schedules : pass'.scope /\ pass'.specs[s].on => s \in pass'.todo
         /\ crossed' = (crossed \/ Deletion)
         /\ UNCHANGED <<now, spec, cursor, runs, chats, open, torn, gone, kept, call>>
<1>0. now \in Times /\ spec \in [Schedules -> Specs] /\ NoPass \in PassRecord /\ ~NoPass.manual
  BY NoPassType DEF PhaseInv, PassTypes, NoPass
<1> DEFINE valid == (workspace = "valid")
           todo == {s \in Schedules : workspace = "valid" /\ spec[s].on}
<1>1. pass' = [NoPass EXCEPT !.at = "next", !.time = now, !.specs = spec, !.scope = valid, !.todo = todo]
  BY DEF BeginPass
<1>2. todo \in SUBSET Schedules /\ valid \in BOOLEAN /\ \A s \in Schedules : valid /\ spec[s].on => s \in todo
  OBVIOUS
<1> HIDE DEF valid, todo
<1>3. /\ pass' \in PassRecord /\ pass'.at = "next" /\ ~pass'.manual /\ pass'.time = now
      /\ pass'.specs = spec /\ pass'.scope = valid /\ pass'.todo = todo
  BY <1>0, <1>1, <1>2 DEF PassRecord, Steps
<1> QED
  BY <1>2, <1>3 DEF BeginPass, tables, sessions

\* A deletion's calls are its user's own.
LEMMA DeletionCalls ==
  ASSUME SessionInv, NEW u \in Users, DeleteWorkspace(u)
  PROVE  /\ \A d \in Callers \ {u} : call'[d] = call[d]
         /\ call'[Runner] = call[Runner]
         /\ \/ Return(u) /\ call'[u].at = "idle"
            \/ \E point \in {"remove", "clear", "reload"} : Reach(u, point) /\ call'[u].at = point
<1>0. {"remove", "clear", "reload"} \subseteq Points /\ Runner \in Callers \ {u} /\ u \in Callers
  BY SessionsAssumption DEF Points, Callers
<1>1. Return(u) \/ \E point \in {"remove", "clear", "reload"} : Reach(u, point)
  BY DEF DeleteWorkspace, KillWorkspace, RemoveDirectory, ClearWorkspace, ClearFails, ReloadWorkspace
<1>2. CASE Return(u)
  <2>1. call' = [call EXCEPT ![u] = Idle] /\ call \in [Callers -> Calls] /\ Idle.at = "idle"
    BY <1>2 DEF Return, SessionInv, RowTypes, Idle
  <2> QED
    BY <1>0, <1>2, <2>1
<1>3. ASSUME NEW point \in {"remove", "clear", "reload"}, Reach(u, point)
      PROVE  call'[u].at = point /\ \A d \in Callers \ {u} : call'[d] = call[d]
  BY <1>0, <1>3, Reaching
<1> QED
  BY <1>0, <1>1, <1>2, <1>3

LEMMA PhaseStep ==
  ASSUME SessionInv, PhaseInv, [Next]_svars
  PROVE  PhaseInv'
<1>0. /\ now \in 0 .. MaxTime /\ MaxTime \in Nat /\ pass \in PassRecord /\ pass.time \in Nat /\ pass.for \in Nat
      /\ spec \in [Schedules -> Specs] /\ cursor \in [Schedules -> Cursors]
      /\ NoCursor \in Cursors /\ NoPass \in PassRecord /\ NoPass.at = "idle" /\ NoPass.time = 0 /\ ~NoPass.manual
  BY NoPassType, ScheduleAssumption DEF PhaseInv, PassTypes, PassRecord, Times, NoPass
<1>1. CASE BeginPass
  BY <1>0, <1>1, Begun DEF PhaseInv, PassTypes, Phases, Executing
<1>2. CASE SaveCursor
  <2>1. cursor' \in [Schedules -> Cursors]
    BY <1>0, <1>2, Saved, ClosedCursor DEF PhaseInv
  <2> QED
    BY <1>0, <1>2, <2>1, Saved DEF PassKeeps, PhaseInv, PassTypes, Phases, Executing
<1>3. CASE EndPass
  <2>1. /\ UNCHANGED <<now, spec, call>> /\ pass.at = "next" /\ pass' = NoPass
        /\ \/ UNCHANGED <<cursor, gone>>
           \/ /\ cursor' = [s \in Schedules |-> IF s \in Pruned THEN NoCursor ELSE cursor[s]]
              /\ gone' = [s \in Schedules |-> IF s \in Pruned THEN now ELSE gone[s]]
    BY <1>3 DEF EndPass
  <2>2. cursor' \in [Schedules -> Cursors] /\ gone' \in [Schedules -> Times \cup {-1}]
    BY <1>0, <2>1 DEF PhaseInv, PassTypes
  <2> QED
    BY <1>0, <2>1, <2>2 DEF PhaseInv, PassTypes, Phases, Executing
<1>4. CASE LaunchSpawns
  <2>1. UNCHANGED <<now, spec, cursor, gone, pass>> /\ Spawn(Runner, Cancelled)
    BY <1>4 DEF LaunchSpawns, tables
  <2> QED
    BY <2>1, RunnerAnswers DEF PhaseInv, PassTypes, Phases, Executing
<1>5. CASE RecordRun
  <2>1. UNCHANGED <<now, spec, cursor, gone>> /\ pass.at = "launch" /\ call' = [call EXCEPT ![Runner] = Idle]
    BY <1>5 DEF RecordRun, history
  <2>2. PICK status, id, chat : Closing(pass, status, id, chat)
    BY <1>5, InsertRunCloses DEF RecordRun
  <2>3. PassTypes' /\ call'[Runner].at = "idle"
    BY <1>0, <2>1, <2>2, ClosingPass, RunnerIdles DEF PhaseInv, PassTypes
  <2>4. CASE pass.manual
    <3>1. pass' = NoPass
      BY <1>0, <2>2, <2>4, ClosingPass
    <3> QED
      BY <1>0, <2>1, <2>3, <3>1 DEF PhaseInv, Phases, Executing
  <2>5. CASE ~pass.manual
    <3>1. pass'.at = "save" /\ ~pass'.manual /\ pass'.time = pass.time /\ pass'.for = pass.for
      BY <1>0, <2>2, <2>5, ClosingPass
    <3> QED
      BY <2>1, <2>3, <2>5, <3>1 DEF PhaseInv, Phases, Executing
  <2> QED
    BY <2>4, <2>5
<1>6. CASE LeaveOpen
  BY <1>6, LeftOpen, RunnerIdles DEF PassKeeps, PhaseInv, PassTypes, Phases, Executing
<1>7. ASSUME NEW s \in Schedules, EvaluateNone(s) \/ EvaluateFails(s) PROVE PhaseInv'
  <2>1. cursor' \in [Schedules -> Cursors]
    BY <1>0, <1>7, Evaluated, ClosedCursor DEF PhaseInv
  <2> QED
    BY <1>7, <2>1, Evaluated DEF PassKeeps, PhaseInv, PassTypes, Phases, Executing
<1>8. ASSUME NEW s \in Schedules, EvaluateDue(s) \/ RunNow(s) PROVE PhaseInv'
  BY <1>8, ExecutableNow, DecidePhases DEF PhaseInv
<1>9. ASSUME NEW u \in Users, DeleteWorkspace(u), UNCHANGED <<now, spec, pass, chats, open, torn, missed>> PROVE PhaseInv'
  <2>1. call'[Runner] = call[Runner]
    BY <1>9, DeletionCalls
  <2>2. gone' = gone \/ gone' = [s \in Schedules |-> now]
    BY <1>9 DEF DeleteWorkspace, Vanishes
  <2>3. cursor' = cursor \/ cursor' = [s \in Schedules |-> NoCursor]
    BY <1>9 DEF DeleteWorkspace, DeleteByWorkspace, tables
  <2>4. cursor' \in [Schedules -> Cursors] /\ gone' \in [Schedules -> Times \cup {-1}]
    BY <1>0, <2>2, <2>3 DEF PhaseInv, PassTypes, Times
  <2> QED
    BY <1>9, <2>1, <2>4 DEF PhaseInv, PassTypes, Phases, Executing
<1>10. CASE Exit \/ Crash
  <2>1. UNCHANGED <<now, spec, cursor, gone>> /\ pass' = NoPass /\ call' = [c \in Callers |-> Idle]
    BY <1>10 DEF Exit, Crash, Ends, tables
  <2>2. call'[Runner].at = "idle"
    BY <2>1 DEF Callers, Idle
  <2> QED
    BY <1>0, <2>1, <2>2 DEF PhaseInv, PassTypes, Phases, Executing
<1>11. CASE Tick
  <2>1. now' = now + 1 /\ now < MaxTime /\ UNCHANGED <<spec, cursor, gone, pass, call>>
    BY <1>11 DEF Tick, tables, history, sessions
  <2>2. now' \in Times /\ pass.time <= now'
    BY <1>0, <2>1 DEF Times, PhaseInv, Phases
  <2> QED
    BY <2>1, <2>2 DEF PhaseInv, PassTypes, Phases, Executing
<1>12. CASE Aside
  BY <1>12 DEF Aside, PhaseInv, PassTypes, Phases, Executing
<1> QED
  BY <1>1, <1>2, <1>3, <1>4, <1>5, <1>6, <1>7, <1>8, <1>9, <1>10, <1>11, <1>12, StepsAreMoves DEF Moves, PhaseInv

-----------------------------------------------------------------------------
(* The history of runs, and what an execution leaves in it.                *)

RunTypes == runs \in [Schedules -> Seq(Run)] /\ \A s \in Schedules : Len(runs[s]) <= Keep

\* The newest row is kept, and the others move down by one.
LEMMA TrimKeepsTop ==
  ASSUME NEW row \in Run, NEW rows \in Seq(Run)
  PROVE  LET rest == Trim(<<row>> \o rows) IN
         /\ rest \in Seq(Run) /\ Len(rest) <= Keep /\ 1 <= Len(rest) /\ rest # <<>>
         /\ rest[1] = row
         /\ \A i \in 2 .. Len(rest) : i - 1 \in 1 .. Len(rows) /\ rest[i] = rows[i - 1]
<1> DEFINE all == <<row>> \o rows
           rest == Trim(all)
<1>1. all \in Seq(Run) /\ Len(all) = Len(rows) + 1 /\ all[1] = row
      /\ \A i \in 2 .. Len(rows) + 1 : all[i] = rows[i - 1]
  OBVIOUS
<1>2. Keep \in Nat \ {0} /\ Len(rows) \in Nat
  BY ScheduleAssumption
<1> HIDE DEF all
<1>3. PICK n \in Nat : n = Min({Keep, Len(all)}) /\ n <= Keep /\ n <= Len(all) /\ 1 <= n
  <2>1. {Keep, Len(all)} \subseteq Nat /\ {Keep, Len(all)} # {}
    BY <1>1, <1>2
  <2>2. Min({Keep, Len(all)}) \in {Keep, Len(all)} /\ \A k \in {Keep, Len(all)} : Min({Keep, Len(all)}) <= k
    BY <2>1, MinIsLeast
  <2> QED
    BY <1>1, <1>2, <2>2
<1>4. rest = SubSeq(all, 1, n)
  BY <1>3 DEF Trim
<1>5. rest \in Seq(Run) /\ Len(rest) = n /\ \A i \in 1 .. n : rest[i] = all[i]
  <2>1. \A i \in 1 .. n : all[i] \in Run
    BY <1>1, <1>3
  <2>2. /\ SubSeq(all, 1, n) \in Seq(Run)
        /\ Len(SubSeq(all, 1, n)) = IF 1 <= n THEN n - 1 + 1 ELSE 0
        /\ \A i \in 1 .. n - 1 + 1 : SubSeq(all, 1, n)[i] = all[1 + i - 1]
    BY <2>1, SubSeqProperties
  <2>3. n - 1 + 1 = n /\ \A i \in 1 .. n : 1 + i - 1 = i
    BY <1>3
  <2> HIDE DEF rest
  <2> QED
    BY <1>3, <1>4, <2>2, <2>3
<1> HIDE DEF rest
<1>6. rest[1] = row /\ rest # <<>>
  <2>1. 1 \in 1 .. n
    BY <1>3
  <2> QED
    BY <1>1, <1>5, <2>1
<1>7. \A i \in 2 .. Len(rest) : i - 1 \in 1 .. Len(rows) /\ rest[i] = rows[i - 1]
  <2> TAKE i \in 2 .. Len(rest)
  <2>1. i \in 1 .. n /\ i \in 2 .. Len(rows) + 1 /\ i - 1 \in 1 .. Len(rows)
    BY <1>1, <1>2, <1>3, <1>5
  <2> QED
    BY <1>1, <1>5, <2>1
<1> QED
  BY <1>3, <1>5, <1>6, <1>7 DEF rest, all

LEMMA RecordingRow ==
  ASSUME RunTypes, NEW e \in PassRecord, NEW status \in Statuses, NEW id \in 0 .. MaxChats, NEW chat \in 0 .. MaxChats,
         Recording(e, status, id, chat)
  PROVE  /\ RunTypes'
         /\ runs'[e.cur] # <<>> /\ 1 <= Len(runs'[e.cur]) /\ runs'[e.cur][1] = Row(e, status, id, chat)
         /\ \A i \in 2 .. Len(runs'[e.cur]) : i - 1 \in 1 .. Len(runs[e.cur]) /\ runs'[e.cur][i] = runs[e.cur][i - 1]
         /\ \A s \in Schedules \ {e.cur} : runs'[s] = runs[s]
         /\ e.cur \in Schedules
<1>1. e.cur \in Schedules /\ Row(e, status, id, chat) \in Run /\ runs[e.cur] \in Seq(Run)
  BY DEF PassRecord, Row, Run, RunTypes
<1> DEFINE rest == Trim(<<Row(e, status, id, chat)>> \o runs[e.cur])
<1>2. /\ rest \in Seq(Run) /\ Len(rest) <= Keep /\ 1 <= Len(rest) /\ rest # <<>>
      /\ rest[1] = Row(e, status, id, chat)
      /\ \A i \in 2 .. Len(rest) : i - 1 \in 1 .. Len(runs[e.cur]) /\ rest[i] = runs[e.cur][i - 1]
  BY <1>1, TrimKeepsTop
<1>3. runs' = [runs EXCEPT ![e.cur] = rest]
  BY DEF Recording
<1> HIDE DEF rest
<1>4. runs'[e.cur] = rest /\ \A s \in Schedules \ {e.cur} : runs'[s] = runs[s]
  BY <1>1, <1>3 DEF RunTypes
<1>5. RunTypes'
  BY <1>1, <1>2, <1>3, <1>4 DEF RunTypes
<1> QED
  BY <1>1, <1>2, <1>4, <1>5

\* What the pass has closed, or begun, for the schedule in hand.
Accounting(s) ==
    s \in pass.failed \/ (runs[s] # <<>> /\ runs[s][1].for = pass.for /\ runs[s][1].manual = pass.manual)

LEMMA ClosingRuns ==
  ASSUME RunTypes, NEW e \in PassRecord, NEW status \in Statuses, NEW id \in 0 .. MaxChats, NEW chat \in 0 .. MaxChats,
         Closing(e, status, id, chat)
  PROVE  /\ RunTypes' /\ e.cur \in Schedules
         /\ \A s \in Schedules : runs'[s] # runs[s] => s = e.cur /\ runs'[s][1].for = e.for /\ runs'[s][1].manual = e.manual
         /\ ~e.manual => Accounting(e.cur)'
<1>0. e.cur \in Schedules /\ Row(e, status, id, chat).for = e.for /\ Row(e, status, id, chat).manual = e.manual
  BY DEF PassRecord, Row
<1>1. CASE UNCHANGED runs /\ (~e.manual => e.cur \in pass'.failed)
  BY <1>0, <1>1 DEF RunTypes, Accounting
<1>2. CASE Recording(e, status, id, chat)
  <2>1. ~e.manual => pass'.for = e.for /\ pass'.manual = e.manual
    BY ClosingPass DEF PassRecord
  <2>2. /\ RunTypes' /\ runs'[e.cur] # <<>> /\ runs'[e.cur][1] = Row(e, status, id, chat)
        /\ \A s \in Schedules \ {e.cur} : runs'[s] = runs[s]
    BY <1>2, RecordingRow
  <2> QED
    BY <1>0, <2>1, <2>2 DEF Accounting
<1> QED
  BY <1>1, <1>2, ClosingPass

\* The pass decides on a due schedule: it launches, or has closed.
LEMMA DueDecided ==
  ASSUME SessionInv, PhaseInv, RunTypes, NEW s \in Schedules, EvaluateDue(s)
  PROVE  /\ Passing /\ pass.at = "next" /\ s \in pass.todo /\ Decision(s) # NoneDue
         /\ pass' \in PassRecord /\ ~pass'.manual /\ pass'.time = pass.time /\ pass'.specs = pass.specs
         /\ pass'.scope = pass.scope /\ pass'.todo = pass.todo \ {s} /\ pass'.cur = s /\ pass'.for = Decision(s)
         /\ pass.failed \subseteq pass'.failed
         /\ \/ pass'.at = "launch" /\ UNCHANGED runs
            \/ pass'.at = "save" /\ Accounting(s)' /\ UNCHANGED call
         /\ RunTypes'
         /\ \A c \in Schedules : runs'[c] # runs[c] => c = s /\ runs'[c][1].for = Decision(s)
         /\ UNCHANGED <<now, spec, cursor, chats, open, torn, gone, crossed, kept>>
         /\ \A u \in Users : call'[u] = call[u]
<1> DEFINE e == Due(s)
<1>1. Executable(e) /\ Decide(e)
  BY ExecutableNow DEF PhaseInv
<1>2. e \in PassRecord
  BY <1>1 DEF Executable
<1>3. Passing /\ pass.at = "next" /\ s \in pass.todo /\ Decision(s) # NoneDue /\ ~pass.manual
  BY DEF EvaluateDue, Take, PhaseInv, Phases, Passing
<1>4. /\ e.manual = pass.manual /\ e.time = pass.time /\ e.specs = pass.specs /\ e.scope = pass.scope
      /\ e.todo = pass.todo \ {s} /\ e.cur = s /\ e.for = Decision(s) /\ e.failed = pass.failed
  BY DEF Due, PhaseInv, PassTypes, PassRecord
<1> HIDE DEF e
<1>5. UNCHANGED <<now, spec, cursor, chats, open, torn, gone, crossed, kept>> /\ \A u \in Users : call'[u] = call[u]
  BY <1>1, DecideCases
<1>6. CASE pass' = [e EXCEPT !.at = "launch"] /\ UNCHANGED runs
  BY <1>2, <1>3, <1>4, <1>5, <1>6, LaunchPass DEF RunTypes
<1>7. ASSUME NEW status \in {"skipped", "failed"}, Closing(e, status, 0, 0), UNCHANGED call
      PROVE  /\ pass' \in PassRecord /\ ~pass'.manual /\ pass'.time = pass.time /\ pass'.specs = pass.specs
             /\ pass'.scope = pass.scope /\ pass'.todo = pass.todo \ {s} /\ pass'.cur = s /\ pass'.for = Decision(s)
             /\ pass.failed \subseteq pass'.failed /\ pass'.at = "save" /\ Accounting(s)'
             /\ RunTypes' /\ \A c \in Schedules : runs'[c] # runs[c] => c = s /\ runs'[c][1].for = Decision(s)
  <2>1. status \in Statuses /\ 0 \in 0 .. MaxChats
    BY SessionsAssumption DEF Statuses
  <2>2. RunTypes' /\ Accounting(s)'
        /\ \A c \in Schedules : runs'[c] # runs[c] => c = s /\ runs'[c][1].for = Decision(s)
    BY <1>2, <1>3, <1>4, <1>7, <2>1, ClosingRuns
  <2> QED
    BY <1>2, <1>3, <1>4, <1>7, <2>2, ClosingPass
<1> QED
  BY <1>1, <1>3, <1>5, <1>6, <1>7, DecideCases

LEMMA NowDecided ==
  ASSUME SessionInv, PhaseInv, RunTypes, NEW s \in Schedules, RunNow(s)
  PROVE  /\ pass.at = "idle" /\ (pass' = NoPass \/ (pass'.at = "launch" /\ pass'.manual))
         /\ RunTypes'
         /\ \A c \in Schedules : runs'[c] # runs[c] => c = s /\ runs'[c][1].manual
         /\ UNCHANGED <<now, spec, cursor, chats, open, torn, gone, crossed, kept>>
         /\ \A u \in Users : call'[u] = call[u]
<1> DEFINE e == Manual(s)
<1>1. Executable(e) /\ Decide(e)
  BY ExecutableNow DEF PhaseInv
<1>2. e \in PassRecord /\ e.manual /\ e.cur = s
  BY <1>1, NoPassType DEF Executable, Manual, PassRecord
<1> HIDE DEF e
<1>3. pass.at = "idle"
  BY DEF RunNow
<1>4. UNCHANGED <<now, spec, cursor, chats, open, torn, gone, crossed, kept>> /\ \A u \in Users : call'[u] = call[u]
  BY <1>1, DecideCases
<1>5. CASE pass' = [e EXCEPT !.at = "launch"] /\ UNCHANGED runs
  BY <1>2, <1>3, <1>4, <1>5, LaunchPass DEF RunTypes
<1>6. ASSUME NEW status \in {"skipped", "failed"}, Closing(e, status, 0, 0)
      PROVE  pass' = NoPass /\ RunTypes' /\ \A c \in Schedules : runs'[c] # runs[c] => c = s /\ runs'[c][1].manual
  <2>1. status \in Statuses /\ 0 \in 0 .. MaxChats
    BY SessionsAssumption DEF Statuses
  <2> QED
    BY <1>2, <1>6, <2>1, ClosingRuns, ClosingPass
<1> QED
  BY <1>1, <1>3, <1>4, <1>5, <1>6, DecideCases

LEMMA RunRecorded ==
  ASSUME SessionInv, PhaseInv, RunTypes, RecordRun
  PROVE  /\ pass.at = "launch" /\ pass.cur \in Schedules
         /\ pass.manual => pass' = NoPass
         /\ ~pass.manual => PassKeeps /\ pass'.at = "save" /\ pass'.todo = pass.todo /\ Accounting(pass.cur)'
         /\ RunTypes'
         /\ \A c \in Schedules : runs'[c] # runs[c] =>
                c = pass.cur /\ runs'[c][1].for = pass.for /\ runs'[c][1].manual = pass.manual
         /\ UNCHANGED <<now, spec, cursor, chats, open, torn, gone, crossed, kept>>
         /\ call' = [call EXCEPT ![Runner] = Idle]
<1>1. pass \in PassRecord /\ pass.at = "launch" /\ UNCHANGED <<now, spec, cursor, chats, open, torn, gone, crossed, kept>>
      /\ call' = [call EXCEPT ![Runner] = Idle]
  BY DEF RecordRun, history, PhaseInv, PassTypes
<1>2. PICK status \in {"launched", "failed"}, id \in 0 .. MaxChats, chat \in 0 .. MaxChats : Closing(pass, status, id, chat)
  <2>1. call[Runner].id \in 0 .. MaxChats /\ call[Runner].chat \in 0 .. MaxChats /\ 0 \in 0 .. MaxChats
    BY SessionsAssumption, CallTypes DEF Calls, Callers
  <2> QED
    BY <2>1, InsertRunCloses DEF RecordRun
<1>3. status \in Statuses
  BY DEF Statuses
<1>4. /\ pass.manual => pass' = NoPass
      /\ ~pass.manual => PassKeeps /\ pass'.at = "save" /\ pass'.todo = pass.todo
  <2>1. CASE pass.manual
    BY <1>1, <1>2, <2>1, ClosingPass
  <2>2. CASE ~pass.manual
    <3>1. pass.manual = FALSE
      BY <1>1, <2>2 DEF PassRecord
    <3> QED
      BY <1>1, <1>2, <3>1, ClosingPass DEF PassKeeps
  <2> QED
    BY <2>1, <2>2
<1>5. pass.cur \in Schedules
  BY <1>1 DEF PassRecord
<1>6. /\ RunTypes'
      /\ \A c \in Schedules : runs'[c] # runs[c] =>
             c = pass.cur /\ runs'[c][1].for = pass.for /\ runs'[c][1].manual = pass.manual
      /\ ~pass.manual => Accounting(pass.cur)'
  <2>1. PICK c \in Schedules : c = pass.cur
    BY <1>5
  <2>2. pass.manual \in BOOLEAN
    BY <1>1 DEF PassRecord
  <2>3. /\ RunTypes'
        /\ \A s \in Schedules : runs'[s] # runs[s] =>
               s = pass.cur /\ runs'[s][1].for = pass.for /\ runs'[s][1].manual = pass.manual
        /\ ~pass.manual => Accounting(c)'
    BY <1>1, <1>2, <1>3, <2>1, ClosingRuns DEF Accounting
  <2>4. ~pass.manual => pass'.cur = c
    BY <1>4, <2>1 DEF PassKeeps
  <2> QED
    BY <2>1, <2>3, <2>4 DEF Accounting
<1> QED
  BY <1>1, <1>4, <1>5, <1>6

-----------------------------------------------------------------------------
(* The steps once more, as the invariants below see them.                  *)

\* A deletion whose directory has gone is yet to reach the rows.
Clears == \E u \in Users : call[u].at = "clear"

\* A deletion that stops short of the rows notes the cursors it leaves.
Outliving == (kept' = kept /\ (Clears => Clears')) \/ Outlive

Stopping ==
    /\ pass' = NoPass /\ ~up' /\ Outliving
    /\ torn' = IF pass.at \in {"launch", "save"} THEN torn \cup {<<pass.cur, pass.for>>} ELSE torn
    /\ UNCHANGED <<now, spec, cursor, runs, chats, open, gone, crossed>>
    /\ \A c \in Callers : call'[c].at = "idle"

\* The directory goes; ...
Vanishing ==
    /\ gone' = [s \in Schedules |-> now]
    /\ crossed' = (crossed \/ Passing)
    /\ (kept' = kept /\ Clears') \/ Outlive
    /\ UNCHANGED <<cursor, runs>>

\* ... the rows do.
Clearing ==
    /\ cursor' = [s \in Schedules |-> NoCursor] /\ runs' = [s \in Schedules |-> <<>>]
    /\ UNCHANGED <<gone, crossed>>
    /\ Deletion

LEMMA DeletionCases ==
  ASSUME SessionInv, NEW u \in Users, DeleteWorkspace(u)
  PROVE  /\ call'[Runner] = call[Runner]
         /\ \/ Vanishing
            \/ Clearing
            \/ UNCHANGED <<cursor, runs, gone, crossed>> /\ Outliving /\ (Deletion' => Deletion)
<1>0. /\ call'[Runner] = call[Runner] /\ Users \subseteq Callers /\ u \in Callers
      /\ \A d \in Users \ {u} : call'[d] = call[d]
      /\ Passing <=> (pass.at # "idle" /\ ~pass.manual)
  BY DeletionCalls DEF Callers, Passing
<1>1. ASSUME call[u].at # "clear", UNCHANGED kept PROVE Outliving
  BY <1>0, <1>1 DEF Outliving, Clears
<1>2. ASSUME call'[u].at \in {"clear", "reload"} => call[u].at \in {"clear", "reload"} PROVE Deletion' => Deletion
  BY <1>0, <1>2 DEF Deletion
<1>3. ASSUME Return(u) PROVE call'[u].at = "idle"
  BY <1>3, DeletionCalls, Reaching DEF Return, Reach, Idle, Callers, SessionInv, RowTypes
<1>4. ASSUME NEW point \in Points, Reach(u, point) PROVE call'[u].at = point
  BY <1>4, Reaching
<1>5. CASE KillWorkspace(u) /\ UNCHANGED <<tables, gone, crossed, kept>>
  <2>1. call[u].at # "clear" /\ (Return(u) \/ Reach(u, "remove")) /\ "remove" \in Points
    BY <1>5 DEF KillWorkspace, Free, Points
  <2>2. call'[u].at \notin {"clear", "reload"}
    BY <1>3, <1>4, <2>1
  <2> QED
    BY <1>0, <1>1, <1>2, <1>5, <2>1, <2>2 DEF tables
<1>6. CASE RemoveDirectory(u) /\ UNCHANGED tables /\ present' = present /\ UNCHANGED <<gone, crossed, kept>>
  <2>1. call[u].at # "clear" /\ (Return(u) \/ (present /\ present' = FALSE))
    BY <1>6 DEF RemoveDirectory
  <2>2. call'[u].at \notin {"clear", "reload"}
    BY <1>3, <1>6, <2>1
  <2> QED
    BY <1>0, <1>1, <1>2, <1>6, <2>1, <2>2 DEF tables
<1>7. CASE UNCHANGED tables /\ Vanishes(u)
  <2>1. (kept' = kept /\ Clears') \/ Outlive
    BY <1>7 DEF Vanishes, Clears
  <2>2. crossed' = (crossed \/ Passing)
    BY <1>0, <1>7 DEF Vanishes
  <2> QED
    BY <1>0, <1>7, <2>1, <2>2 DEF Vanishes, Vanishing, tables
<1>8. CASE ClearWorkspace(u) /\ DeleteByWorkspace /\ UNCHANGED <<gone, crossed>>
  <2>1. Deletion
    BY <1>8 DEF ClearWorkspace, Deletion
  <2> QED
    BY <1>0, <1>8, <2>1 DEF DeleteByWorkspace, Clearing
<1>9. CASE ClearFails(u) /\ Outlive /\ UNCHANGED <<tables, gone, crossed>>
  <2>1. Deletion
    BY <1>9 DEF ClearFails, Deletion
  <2> QED
    BY <1>0, <1>9, <2>1 DEF Outliving, tables
<1>10. CASE ReloadWorkspace(u) /\ UNCHANGED <<tables, gone, crossed, kept>>
  <2>1. Deletion /\ call[u].at # "clear"
    BY <1>10 DEF ReloadWorkspace, Deletion
  <2> QED
    BY <1>0, <1>1, <1>10, <2>1 DEF tables
<1> QED
  BY <1>5, <1>6, <1>7, <1>8, <1>9, <1>10 DEF DeleteWorkspace

LEMMA StopCases ==
  ASSUME Exit \/ Crash
  PROVE  Stopping
<1>1. Ends
  BY DEF Exit, Crash
<1>2. call' = [c \in Callers |-> Idle]
  BY <1>1 DEF Ends
<1>3. \A c \in Callers : call'[c].at = "idle"
  BY <1>2 DEF Idle
<1>4. Outliving
  BY <1>1 DEF Ends, Outliving, Clears
<1> QED
  BY <1>1, <1>3, <1>4 DEF Ends, Stopping, tables

LEMMA SpawnCases ==
  ASSUME SessionInv, LaunchSpawns
  PROVE  /\ UNCHANGED <<now, spec, cursor, runs, pass, open, torn, gone, crossed, kept>>
         /\ call[Runner].at = "spawn" /\ call'[Runner].at # "spawn" /\ \A u \in Users : call'[u] = call[u]
         /\ \/ chats' = chats
            \/ /\ call'[Runner].at = "settle" /\ live' = live \cup {call[Runner].chat}
               /\ call[Runner].chat \notin live
               /\ chats' = chats \cup {[s |-> pass.cur, for |-> pass.for, chat |-> call[Runner].chat, manual |-> pass.manual]}
<1>1. Spawn(Runner, Cancelled)
  BY DEF LaunchSpawns
<1>2. call[Runner].at = "spawn" /\ call'[Runner].at # "spawn" /\ \A u \in Users : call'[u] = call[u]
  BY <1>1, RunnerAnswers
<1>3. CASE live' = live
  BY <1>2, <1>3 DEF LaunchSpawns, tables
<1>4. CASE live' # live
  <2>1. /\ live' = live \cup {call[Runner].chat} /\ call[Runner].chat \notin live
        /\ call' = [call EXCEPT ![Runner] = IF Detached(Runner) THEN [@ EXCEPT !.at = "settle"] ELSE Idle]
    BY <1>1, <1>4 DEF Spawn
  <2>2. call \in [Callers -> Calls] /\ Runner \in Callers
    BY DEF SessionInv, RowTypes, Callers
  <2>3. call'[Runner] = [call[Runner] EXCEPT !.at = "settle"]
    BY <2>1, <2>2 DEF Detached
  <2>4. call'[Runner].at = "settle"
    BY <2>2, <2>3 DEF Calls
  <2> QED
    BY <1>2, <1>4, <2>1, <2>4 DEF LaunchSpawns, tables
<1> QED
  BY <1>3, <1>4

LEMMA EndCases ==
  ASSUME EndPass
  PROVE  /\ pass.at = "next" /\ pass.todo = {} /\ pass' = NoPass
         /\ UNCHANGED <<now, spec, runs, chats, open, torn, crossed, call>>
         /\ \/ UNCHANGED <<cursor, gone, kept>>
            \/ /\ cursor' = [s \in Schedules |-> IF s \in Pruned THEN NoCursor ELSE cursor[s]]
               /\ gone' = [s \in Schedules |-> IF s \in Pruned THEN now ELSE gone[s]]
               /\ kept' = kept \ Pruned
  BY DEF EndPass

LEMMA TickCases ==
  ASSUME Tick
  PROVE  now' = now + 1 /\ UNCHANGED <<spec, cursor, runs, pass, chats, open, torn, gone, crossed, kept, call>>
  BY DEF Tick, tables, history, sessions

LEMMA Idling == NoPass.at = "idle" /\ ~NoPass.manual /\ (pass' = NoPass => ~Passing' /\ ~Executing')
  BY DEF NoPass, Passing, Executing

LEMMA RunTypesInit == Init => RunTypes
<1> SUFFICES ASSUME Init PROVE RunTypes
  OBVIOUS
<1>1. <<>> \in Seq(Run) /\ Len(<<>>) <= Keep
  BY ScheduleAssumption
<1> QED
  BY <1>1 DEF Init, RunTypes

LEMMA RunTypesStep ==
  ASSUME SessionInv, PhaseInv, RunTypes, [Next]_svars
  PROVE  RunTypes'
<1>1. CASE UNCHANGED runs
  BY <1>1 DEF RunTypes
<1>2. CASE runs' = [s \in Schedules |-> <<>>]
  <2>1. <<>> \in Seq(Run) /\ Len(<<>>) <= Keep
    BY ScheduleAssumption
  <2> QED
    BY <1>2, <2>1 DEF RunTypes
<1>3. ASSUME NEW s \in Schedules, EvaluateNone(s) \/ EvaluateFails(s) \/ EvaluateDue(s) \/ RunNow(s) PROVE RunTypes'
  BY <1>1, <1>3, Evaluated, DueDecided, NowDecided
<1>4. CASE BeginPass \/ SaveCursor \/ EndPass \/ LaunchSpawns \/ LeaveOpen
  BY <1>1, <1>4, Begun, Saved, EndCases, SpawnCases, LeftOpen
<1>5. CASE RecordRun
  BY <1>5, RunRecorded
<1>6. ASSUME NEW u \in Users, DeleteWorkspace(u) PROVE RunTypes'
  BY <1>1, <1>2, <1>6, DeletionCases DEF Clearing, Vanishing
<1>7. CASE Exit \/ Crash \/ Tick \/ Aside
  BY <1>1, <1>7, StopCases, TickCases DEF Stopping, Aside
<1> QED
  BY <1>3, <1>4, <1>5, <1>6, <1>7, StepsAreMoves DEF Moves, PhaseInv

-----------------------------------------------------------------------------
(* A deletion that runs beside a pass is noted.                            *)

Crossing == Passing /\ Deletion => crossed

\* The pass's steps begin no deletion.
LEMMA NoDeletion ==
  ASSUME \A u \in Users : call'[u] = call[u]
  PROVE  (Deletion' <=> Deletion) /\ (Clears' <=> Clears)
  BY DEF Deletion, Clears

LEMMA CrossingStep ==
  ASSUME SessionInv, PhaseInv, RunTypes, Crossing, [Next]_svars
  PROVE  Crossing' /\ (crossed => crossed')
<1>0. Runner \in Callers /\ Users \subseteq Callers
  BY DEF Callers
<1>1. CASE BeginPass
  BY <1>1, Begun, NoDeletion DEF Crossing
<1>2. CASE SaveCursor \/ LeaveOpen \/ \E s \in Schedules : EvaluateNone(s) \/ EvaluateFails(s)
  <2>1. PassKeeps /\ Passing /\ UNCHANGED crossed /\ \A u \in Users : call'[u] = call[u]
    BY <1>2, Saved, LeftOpen, Evaluated, RunnerIdles DEF Passing, PassKeeps, PhaseInv, Phases
  <2> QED
    BY <2>1, NoDeletion DEF Crossing
<1>3. ASSUME NEW s \in Schedules, EvaluateDue(s) \/ RunNow(s) PROVE Crossing' /\ (crossed => crossed')
  <2>1. CASE EvaluateDue(s)
    BY <2>1, DueDecided, NoDeletion DEF Crossing
  <2>2. CASE RunNow(s)
    BY <2>2, NowDecided, Idling DEF Crossing, Passing
  <2> QED
    BY <1>3, <2>1, <2>2
<1>4. CASE EndPass \/ Exit \/ Crash
  BY <1>4, EndCases, StopCases, Idling DEF Crossing, Stopping
<1>5. CASE LaunchSpawns
  BY <1>5, SpawnCases, NoDeletion DEF Crossing, Passing
<1>6. CASE RecordRun
  <2>1. Passing' => Passing
    BY <1>6, RunRecorded, Idling DEF Passing
  <2> QED
    BY <1>6, <2>1, RunRecorded, RunnerIdles, NoDeletion DEF Crossing
<1>7. ASSUME NEW u \in Users, DeleteWorkspace(u), UNCHANGED pass PROVE Crossing' /\ (crossed => crossed')
  <2>1. Passing' <=> Passing
    BY <1>7 DEF Passing
  <2>2. CASE Vanishing
    <3>1. crossed' = (crossed \/ Passing)
      BY <2>2 DEF Vanishing
    <3>2. (crossed => crossed') /\ (Passing => crossed')
      BY <3>1, Zenon
    <3> QED
      BY <2>1, <3>2 DEF Crossing
  <2>3. CASE UNCHANGED crossed /\ (Deletion' => Deletion)
    BY <2>1, <2>3 DEF Crossing
  <2> QED
    BY <1>7, <2>2, <2>3, DeletionCases DEF Clearing
<1>8. CASE Tick \/ Aside
  <2>1. UNCHANGED <<pass, crossed>> /\ (Deletion' => Deletion)
    BY <1>8, TickCases DEF Aside, Deletes, Deletion
  <2> QED
    BY <2>1 DEF Crossing, Passing
<1>9. CASE \E s \in Schedules : EvaluateNone(s) \/ EvaluateFails(s) \/ EvaluateDue(s) \/ RunNow(s)
  BY <1>2, <1>3, <1>9
<1> QED
  BY <1>1, <1>2, <1>4, <1>5, <1>6, <1>7, <1>8, <1>9, StepsAreMoves DEF Moves, PhaseInv

-----------------------------------------------------------------------------
(* A pass leaves no schedule behind.                                       *)

\* Every schedule the pass saw is still to come, in hand, failed, or its cursor
\* stands at the pass's time.
Handled(s) ==
    \/ s \in pass.todo \/ s \in pass.failed \/ crossed
    \/ cursor[s].through = pass.time
    \/ Executing /\ s = pass.cur

DueInv == Passing => \A s \in Schedules : pass.scope /\ pass.specs[s].on => Handled(s)

LEMMA DueInvInit == Init => DueInv
  BY Idling DEF Init, DueInv, Passing

\* A step of the pass that is about one schedule.
LEMMA HandledStep ==
  ASSUME DueInv, Passing, crossed => crossed',
         pass'.time = pass.time, pass'.specs = pass.specs, pass'.scope = pass.scope, pass.failed \subseteq pass'.failed,
         NEW s \in Schedules,
         pass.todo \ {s} \subseteq pass'.todo,
         \A c \in Schedules \ {s} : cursor'[c] = cursor[c] \/ crossed,
         Executing => pass.cur = s,
         Handled(s)'
  PROVE  DueInv'
<1> SUFFICES ASSUME NEW c \in Schedules, pass.scope /\ pass.specs[c].on PROVE Handled(c)'
  BY DEF DueInv
<1>1. CASE c = s
  BY <1>1
<1>2. CASE c # s
  <2>1. Handled(c)
    BY DEF DueInv
  <2> QED
    BY <1>2, <2>1 DEF Handled
<1> QED
  BY <1>1, <1>2

LEMMA DueInvStep ==
  ASSUME SessionInv, PhaseInv, RunTypes, Crossing, DueInv, [Next]_svars
  PROVE  DueInv'
<1>0. (crossed => crossed') /\ cursor \in [Schedules -> Cursors] /\ pass \in PassRecord /\ pass.cur \in Schedules
  BY CrossingStep DEF PhaseInv, PassTypes, PassRecord
<1>1. CASE BeginPass
  BY <1>1, Begun DEF DueInv, Handled
<1>2. CASE SaveCursor
  <2>1. Passing /\ PassKeeps /\ pass'.todo = pass.todo /\ Handled(pass.cur)' /\ \A c \in Schedules \ {pass.cur} : cursor'[c] = cursor[c]
    <3>1. pass.cur = pass'.cur /\ pass'.time = pass.time /\ Passing
      BY <1>2, Saved DEF PassKeeps, Passing
    <3>2. CASE cursor' = cursor /\ pass.cur \in pass'.failed
      BY <1>2, <3>1, <3>2, Saved DEF Handled
    <3>3. CASE cursor' = [cursor EXCEPT ![pass.cur] = Closed(pass.cur)]
      <4>1. cursor'[pass.cur].through = pass.time /\ \A c \in Schedules \ {pass.cur} : cursor'[c] = cursor[c]
        BY <1>0, <3>3, ClosedCursor DEF PhaseInv
      <4> QED
        BY <1>2, <3>1, <4>1, Saved DEF Handled
    <3> QED
      BY <1>2, <3>2, <3>3, Saved
  <2>2. PICK s \in Schedules : s = pass.cur
    BY <1>0
  <2>3. Handled(s)'
    BY <2>1, <2>2 DEF PassKeeps, Handled
  <2> QED
    BY <1>0, <2>1, <2>2, <2>3, HandledStep DEF PassKeeps
<1>3. CASE LeaveOpen
  <2>1. Passing /\ PassKeeps /\ pass'.todo = pass.todo /\ pass.cur \in pass'.failed /\ UNCHANGED cursor
    BY <1>3, LeftOpen DEF Passing
  <2>2. PICK s \in Schedules : s = pass.cur
    BY <1>0
  <2>3. Handled(s)'
    BY <2>1, <2>2 DEF Handled
  <2> QED
    BY <1>0, <2>1, <2>2, <2>3, HandledStep DEF PassKeeps
<1>4. ASSUME NEW s \in Schedules, EvaluateNone(s) \/ EvaluateFails(s) PROVE DueInv'
  <2>1. Passing /\ PassKeeps /\ pass'.todo = pass.todo \ {s} /\ ~Executing
    BY <1>4, Evaluated DEF Passing, Executing, PhaseInv, Phases
  <2>2. Handled(s)' /\ \A c \in Schedules \ {s} : cursor'[c] = cursor[c]
    <3>1. CASE cursor' = cursor /\ s \in pass'.failed
      BY <3>1 DEF Handled
    <3>2. CASE cursor' = [cursor EXCEPT ![s] = Closed(s)]
      BY <1>0, <2>1, <3>2, ClosedCursor DEF PhaseInv, Handled, PassKeeps
    <3> QED
      BY <1>4, <3>1, <3>2, Evaluated
  <2> QED
    BY <1>0, <2>1, <2>2, HandledStep DEF PassKeeps
<1>5. ASSUME NEW s \in Schedules, EvaluateDue(s) PROVE DueInv'
  <2>1. /\ Passing /\ ~Executing /\ pass'.time = pass.time /\ pass'.specs = pass.specs /\ pass'.scope = pass.scope
        /\ pass.failed \subseteq pass'.failed /\ pass'.todo = pass.todo \ {s} /\ UNCHANGED cursor
        /\ pass'.cur = s /\ Executing'
    BY <1>5, DueDecided DEF Executing
  <2>2. Handled(s)'
    BY <2>1 DEF Handled
  <2> QED
    BY <1>0, <2>1, <2>2, HandledStep
<1>6. CASE EndPass \/ Exit \/ Crash
  BY <1>6, EndCases, StopCases, Idling DEF Stopping, DueInv
<1>7. ASSUME NEW s \in Schedules, RunNow(s) PROVE DueInv'
  BY <1>7, NowDecided, Idling DEF DueInv, Passing
<1>8. CASE LaunchSpawns \/ Tick \/ Aside
  BY <1>8, SpawnCases, TickCases DEF Aside, DueInv, Handled, Passing, Executing
<1>9. CASE RecordRun
  <2>1. CASE pass.manual
    BY <1>9, <2>1, RunRecorded, Idling DEF DueInv
  <2>2. CASE ~pass.manual
    <3>1. /\ Passing /\ PassKeeps /\ pass'.todo = pass.todo /\ UNCHANGED cursor /\ pass.cur \in Schedules
          /\ Executing'
      BY <1>9, <2>2, RunRecorded DEF Passing, Executing, PassKeeps
    <3>2. PICK s \in Schedules : s = pass.cur
      BY <1>0
    <3>3. Handled(s)'
      BY <3>1, <3>2 DEF PassKeeps, Handled
    <3> QED
      BY <1>0, <3>1, <3>2, <3>3, HandledStep DEF PassKeeps
  <2> QED
    BY <2>1, <2>2
<1>10. ASSUME NEW u \in Users, DeleteWorkspace(u), UNCHANGED pass PROVE DueInv'
  <2>1. CASE UNCHANGED cursor
    BY <1>0, <1>10, <2>1 DEF DueInv, Handled, Passing, Executing
  <2>2. CASE Clearing
    <3>1. Passing => crossed'
      BY <1>0, <2>2, Zenon DEF Clearing, Crossing
    <3> QED
      BY <1>10, <3>1 DEF DueInv, Handled, Passing
  <2> QED
    BY <1>10, <2>1, <2>2, DeletionCases DEF Vanishing
<1> QED
  BY <1>1, <1>2, <1>3, <1>4, <1>5, <1>6, <1>7, <1>8, <1>9, <1>10, StepsAreMoves DEF Moves, PhaseInv

\* Only the end of a pass takes it from its schedules to idleness.
LEMMA PassEnds ==
  ASSUME SessionInv, PhaseInv, RunTypes, [Next]_svars, pass.at = "next", pass'.at = "idle", up'
  PROVE  EndPass
<1>1. CASE BeginPass \/ SaveCursor \/ LaunchSpawns \/ LeaveOpen \/ RecordRun
  BY <1>1, Begun, Saved, SpawnCases, LeftOpen, RunRecorded DEF PhaseInv, Phases
<1>2. ASSUME NEW s \in Schedules, EvaluateNone(s) \/ EvaluateFails(s) \/ EvaluateDue(s) \/ RunNow(s) PROVE FALSE
  BY <1>2, Evaluated, DueDecided, NowDecided
<1>3. CASE Tick \/ Aside \/ UNCHANGED pass
  BY <1>3, TickCases DEF Aside
<1>4. CASE Exit \/ Crash
  BY <1>4, StopCases DEF Stopping
<1> QED
  BY <1>1, <1>2, <1>3, <1>4, StepsAreMoves DEF Moves, PhaseInv

-----------------------------------------------------------------------------
(* All that is known of the scheduler, as one invariant; the properties     *)
(* below add their own to it.                                              *)

SchedulerInv == SessionInv /\ PhaseInv /\ RunTypes /\ Crossing /\ DueInv

LEMMA SchedulerInvInit == Init => SchedulerInv
<1>1. Init => SessionInv
  BY SessionInvInit DEF Init
<1>2. Init => Crossing
  BY Idling DEF Init, Crossing, Passing
<1> QED
  BY <1>1, <1>2, PhaseInvInit, RunTypesInit, DueInvInit DEF SchedulerInv

LEMMA SchedulerStep == SchedulerInv /\ [Next]_svars => SchedulerInv'
  BY SessionStep, PhaseStep, RunTypesStep, CrossingStep, DueInvStep DEF SchedulerInv

\* What NoneLeftDue says of a step.
NoneLeft ==
    (pass.at = "next" /\ pass'.at = "idle" /\ up') =>
        \A s \in Schedules :
            (pass.scope /\ pass.specs[s].on) =>
                s \in pass.failed \/ crossed \/ cursor[s].through = pass.time

\* A pass leaves no schedule behind (scheduler.go, evaluateAll): when it ends,
\* every schedule it saw reported an error or has its cursor at the pass's time.
THEOREM NoneLeftDueHolds == Spec => NoneLeftDue
<1>1. SchedulerInv /\ [Next]_svars => [NoneLeft]_svars
  <2> SUFFICES ASSUME SchedulerInv, [Next]_svars, pass.at = "next", pass'.at = "idle", up',
                      NEW s \in Schedules, pass.scope /\ pass.specs[s].on
               PROVE  s \in pass.failed \/ crossed \/ cursor[s].through = pass.time
    BY DEF NoneLeft
  <2>1. EndPass
    BY PassEnds DEF SchedulerInv
  <2>2. pass.todo = {} /\ Passing /\ ~Executing
    BY <2>1, EndCases DEF SchedulerInv, PhaseInv, Phases, Passing, Executing
  <2> QED
    BY <2>2 DEF SchedulerInv, DueInv, Handled
<1>2. Spec => [][NoneLeft]_svars
  BY <1>1, SchedulerInvInit, SchedulerStep, PTL DEF Spec
<1> QED
  BY <1>2 DEF NoneLeftDue, NoneLeft

-----------------------------------------------------------------------------
(* A schedule that was gone does not run for what it missed.               *)

\* The occurrence a pass decides on lies between the cursor and the pass.
LEMMA DueLater ==
  ASSUME PassTypes, NEW s \in Schedules, Decision(s) # NoneDue
  PROVE  /\ cursor[s].through \in Times /\ cursor[s].cron = pass.specs[s].cron
         /\ Decision(s) \in Times /\ cursor[s].through < Decision(s) /\ Decision(s) <= pass.time
         /\ Decision(s) \in Occurs[cursor[s].cron]
         /\ \A t \in Occurs[cursor[s].cron] : cursor[s].through < t /\ t <= pass.time => t <= Decision(s)
<1>1. /\ ~Fresh(s) /\ Decision(s) \in Window(s, cursor[s].through, pass.time)
      /\ \A t \in Window(s, cursor[s].through, pass.time) : t <= Decision(s)
  BY DecisionIsLatest
<1>2. cursor[s] \in Cursors /\ pass.specs[s].cron \in Crons
  BY DEF PassTypes, PassRecord, Specs
<1>3. Occurs[pass.specs[s].cron] \subseteq 1 .. MaxTime /\ MaxTime \in Nat
  BY <1>2, ScheduleAssumption
<1>4. Decision(s) \in 1 .. MaxTime
  BY <1>1, <1>3 DEF Window
<1>5. Decision(s) \in Times
  BY <1>3, <1>4 DEF Times
<1>6. cursor[s].through \in Times /\ cursor[s].cron = pass.specs[s].cron
  BY <1>1, <1>2 DEF Fresh, Cursors
<1> QED
  BY <1>1, <1>5, <1>6 DEF Window

\* A cursor that stands is later than its schedule was gone, or it is one a
\* deletion has yet to reach, or never will.
Stands(s) == cursor[s].through = -1 \/ crossed \/ s \in kept \/ Clears \/ gone[s] <= cursor[s].through

Behind(s) ==
    /\ gone[s] <= now
    /\ Passing => crossed \/ gone[s] <= pass.time
    /\ Stands(s)
    /\ Executing /\ s = pass.cur => crossed \/ s \in kept \/ gone[s] < pass.for

GoneInv == \A s \in Schedules : Behind(s)

LEMMA GoneInvInit == Init => GoneInv
<1> SUFFICES ASSUME Init, NEW s \in Schedules PROVE Behind(s)
  BY DEF GoneInv
<1>1. gone[s] = -1 /\ now = 0 /\ cursor[s] = NoCursor /\ ~Passing /\ ~Executing
  BY Idling DEF Init, Passing, Executing
<1> QED
  BY <1>1 DEF Behind, Stands, NoCursor

\* A step that leaves gone alone, and whose cursors close at the pass's time.
LEMMA BehindStep ==
  ASSUME PhaseInv, NEW s \in Schedules, Behind(s), crossed => crossed', gone' = gone, now' \in Times, now <= now',
         \/ cursor'[s] = cursor[s] /\ (s \in kept => s \in kept') /\ (Clears => Clears')
         \/ cursor'[s] = NoCursor
         \/ Passing /\ cursor'[s] = Closed(s),
         ~Passing' \/ (Passing /\ pass'.time = pass.time),
         Executing' /\ s = pass'.cur => crossed \/ s \in kept' \/ gone[s] < pass'.for
  PROVE  Behind(s)'
<1>1. gone[s] \in Int /\ now \in Int /\ now' \in Int /\ pass.time \in Int
  BY ScheduleAssumption DEF PhaseInv, PassTypes, PassRecord, Times
<1>2. gone'[s] <= now'
  BY <1>1 DEF Behind
<1>3. Passing' => crossed' \/ gone'[s] <= pass'.time
  BY DEF Behind
<1>4. Stands(s)'
  <2>1. CASE cursor'[s] = cursor[s] /\ (s \in kept => s \in kept') /\ (Clears => Clears')
    BY <2>1 DEF Behind, Stands
  <2>2. CASE cursor'[s] = NoCursor
    BY <2>2 DEF NoCursor, Stands
  <2>3. CASE Passing /\ cursor'[s] = Closed(s)
    BY <2>3, ClosedCursor DEF Behind, Stands, PhaseInv
  <2> QED
    BY <2>1, <2>2, <2>3
<1>5. Executing' /\ s = pass'.cur => crossed' \/ s \in kept' \/ gone'[s] < pass'.for
  OBVIOUS
<1> QED
  BY <1>2, <1>3, <1>4, <1>5 DEF Behind

\* A pass beside a call that has yet to reach the rows is noted.
LEMMA CrossingClears ==
  ASSUME SchedulerInv, Passing, Clears
  PROVE  crossed
  BY DEF SchedulerInv, Crossing, Deletion, Clears

LEMMA GoneInvStep ==
  ASSUME SchedulerInv, GoneInv, [Next]_svars
  PROVE  GoneInv'
<1> SUFFICES ASSUME NEW s \in Schedules PROVE Behind(s)'
  BY DEF GoneInv
<1>0. /\ SessionInv /\ PhaseInv /\ RunTypes /\ PassTypes /\ Behind(s) /\ (crossed => crossed')
      /\ now \in Times /\ now <= now /\ MaxTime \in Nat /\ cursor \in [Schedules -> Cursors]
  BY CrossingStep, ScheduleAssumption DEF SchedulerInv, GoneInv, PhaseInv, PassTypes, Times
<1>1. CASE BeginPass
  <2>1. UNCHANGED <<now, cursor, gone, kept>> /\ pass'.time = now /\ ~Executing' /\ (Clears => Clears')
    BY <1>0, <1>1, Begun, NoDeletion DEF Executing
  <2> QED
    BY <1>0, <2>1 DEF Behind, Stands
<1>2. CASE SaveCursor
  <2>1. /\ UNCHANGED <<now, gone>> /\ Passing /\ pass'.time = pass.time /\ ~Executing'
        /\ (Clears => Clears') /\ ((cursor'[s] = cursor[s] /\ (s \in kept => s \in kept')) \/ cursor'[s] = Closed(s))
    BY <1>0, <1>2, Saved, NoDeletion DEF PassKeeps, Passing, Executing
  <2> QED
    BY <1>0, <2>1, BehindStep
<1>3. CASE LeaveOpen
  <2>1. UNCHANGED <<now, gone, cursor, kept>> /\ Passing /\ pass'.time = pass.time /\ ~Executing' /\ (Clears => Clears')
    BY <1>0, <1>3, LeftOpen, RunnerIdles, NoDeletion DEF PassKeeps, Passing, Executing
  <2> QED
    BY <1>0, <2>1, BehindStep
<1>4. ASSUME NEW c \in Schedules, EvaluateNone(c) \/ EvaluateFails(c) PROVE Behind(s)'
  <2>1. /\ UNCHANGED <<now, gone>> /\ Passing /\ pass'.time = pass.time /\ ~Executing'
        /\ (Clears => Clears') /\ ((cursor'[s] = cursor[s] /\ (s \in kept => s \in kept')) \/ cursor'[s] = Closed(s))
    BY <1>0, <1>4, Evaluated, NoDeletion DEF PassKeeps, Passing, Executing, Phases, PhaseInv
  <2> QED
    BY <1>0, <2>1, BehindStep
<1>5. ASSUME NEW c \in Schedules, EvaluateDue(c) PROVE Behind(s)'
  <2>1. /\ UNCHANGED <<now, gone, cursor, kept>> /\ Passing /\ pass'.time = pass.time /\ (Clears => Clears')
        /\ pass'.cur = c /\ pass'.for = Decision(c) /\ Decision(c) # NoneDue
    BY <1>0, <1>5, DueDecided, NoDeletion
  <2>2. s = c => crossed \/ s \in kept \/ gone[s] < Decision(c)
    <3>0. Clears => crossed
      BY <1>0, <2>1, CrossingClears
    <3>1. cursor[c].through < Decision(c) /\ cursor[c].through \in Nat /\ Decision(c) \in Nat
      BY <1>0, <2>1, DueLater DEF Times
    <3>2. gone[s] \in Int
      BY <1>0 DEF PassTypes, Times
    <3> QED
      BY <1>0, <3>0, <3>1, <3>2 DEF Behind, Stands
  <2> QED
    BY <1>0, <2>1, <2>2, BehindStep
<1>6. CASE EndPass
  <2>1. UNCHANGED now /\ ~Passing' /\ ~Executing' /\ (Clears => Clears')
    BY <1>6, EndCases, Idling, NoDeletion
  <2>2. CASE UNCHANGED <<cursor, gone, kept>> \/ s \notin Pruned
    <3>1. cursor'[s] = cursor[s] /\ gone'[s] = gone[s] /\ (s \in kept => s \in kept')
      BY <1>0, <1>6, <2>2, EndCases
    <3> QED
      BY <1>0, <2>1, <3>1 DEF Behind, Stands
  <2>3. CASE ~UNCHANGED <<cursor, gone, kept>> /\ s \in Pruned
    <3>1. cursor'[s] = NoCursor /\ gone'[s] = now
      BY <1>6, <2>3, EndCases
    <3> QED
      BY <1>0, <2>1, <3>1 DEF Behind, Stands, NoCursor
  <2> QED
    BY <2>2, <2>3
<1>7. CASE Exit \/ Crash
  <2>1. UNCHANGED <<now, gone, cursor>> /\ ~Passing' /\ ~Executing' /\ Outliving
    BY <1>7, StopCases, Idling DEF Stopping
  <2>2. Stands(s)'
    BY <1>0, <2>1 DEF Behind, Stands, Outliving, Outlive
  <2> QED
    BY <1>0, <2>1, <2>2 DEF Behind
<1>8. ASSUME NEW c \in Schedules, RunNow(c) PROVE Behind(s)'
  <2>1. UNCHANGED <<now, gone, cursor, kept>> /\ ~Passing' /\ ~Executing' /\ (Clears => Clears')
    BY <1>0, <1>8, NowDecided, Idling, NoDeletion DEF Passing, Executing
  <2> QED
    BY <1>0, <2>1, BehindStep
<1>9. CASE RecordRun
  <2>0. Clears => Clears'
    BY <1>0, <1>9, RunRecorded, RunnerIdles, NoDeletion
  <2>1. CASE pass.manual
    <3>1. UNCHANGED <<now, gone, cursor, kept>> /\ ~Passing' /\ ~Executing'
      BY <1>0, <1>9, <2>1, RunRecorded, Idling
    <3> QED
      BY <1>0, <2>0, <3>1, BehindStep
  <2>2. CASE ~pass.manual
    <3>1. UNCHANGED <<now, gone, cursor, kept>> /\ Passing /\ Executing
          /\ pass'.time = pass.time /\ pass'.cur = pass.cur /\ pass'.for = pass.for
      BY <1>0, <1>9, <2>2, RunRecorded DEF PassKeeps, Passing, Executing
    <3>2. s = pass'.cur => crossed \/ s \in kept \/ gone[s] < pass'.for
      BY <1>0, <3>1 DEF Behind
    <3> QED
      BY <1>0, <2>0, <3>1, <3>2, BehindStep
  <2> QED
    BY <2>1, <2>2
<1>10. CASE LaunchSpawns \/ Tick \/ Aside
  <2>1. UNCHANGED <<gone, cursor, pass, kept>> /\ now' \in Times /\ now <= now' /\ (Clears => Clears')
    <3>1. CASE LaunchSpawns
      BY <1>0, <3>1, SpawnCases, NoDeletion
    <3>2. CASE Tick
      BY <1>0, <3>2, TickCases, NoDeletion DEF Tick, Times
    <3>3. CASE Aside
      BY <1>0, <3>3 DEF Aside, Deletes, Clears
    <3> QED
      BY <1>10, <3>1, <3>2, <3>3
  <2>2. /\ (Passing' <=> Passing) /\ (Executing' <=> Executing)
        /\ Executing /\ s = pass.cur => crossed \/ s \in kept \/ gone[s] < pass.for
    BY <1>0, <2>1 DEF Passing, Executing, Behind
  <2> QED
    BY <1>0, <2>1, <2>2, BehindStep
<1>11. ASSUME NEW u \in Users, DeleteWorkspace(u), UNCHANGED <<now, pass>> PROVE Behind(s)'
  <2>0. (Passing' <=> Passing) /\ (Executing' <=> Executing) /\ (Executing => Passing) /\ pass'.cur = pass.cur /\ pass'.for = pass.for
    BY <1>11 DEF Passing, Executing
  <2>1. CASE Vanishing
    <3>1. gone'[s] = now /\ (Passing => crossed') /\ now' = now /\ UNCHANGED cursor
      BY <1>11, <2>1, Zenon DEF Vanishing
    <3>2. Stands(s)'
      BY <2>1, <3>1 DEF Vanishing, Stands, Outlive
    <3> QED
      BY <1>0, <2>0, <3>1, <3>2 DEF Behind
  <2>2. CASE Clearing
    <3>1. cursor'[s] = NoCursor /\ UNCHANGED <<gone, now, crossed, pass>> /\ (Passing => crossed')
      BY <1>11, <2>2, Zenon DEF Clearing, SchedulerInv, Crossing
    <3> QED
      BY <1>0, <2>0, <3>1 DEF Behind, Stands, NoCursor
  <2>3. CASE UNCHANGED <<cursor, gone, crossed>> /\ Outliving
    <3>1. s \in kept => s \in kept'
      BY <2>3 DEF Outliving, Outlive
    <3>2. Stands(s)'
      BY <1>0, <2>3 DEF Behind, Stands, Outliving, Outlive
    <3> QED
      BY <1>0, <1>11, <2>0, <2>3, <3>1, <3>2 DEF Behind
  <2> QED
    BY <1>0, <1>11, <2>1, <2>2, <2>3, DeletionCases
<1> QED
  BY <1>0, <1>1, <1>2, <1>3, <1>4, <1>5, <1>6, <1>7, <1>8, <1>9, <1>10, <1>11, StepsAreMoves DEF Moves

\* What NoBackfire says of a step.
Backfires(s) ==
    (runs'[s] # runs[s] /\ runs'[s] # <<>>) =>
        \/ runs'[s][1].manual \/ crossed \/ s \in kept
        \/ runs'[s][1].for > gone[s]

LEMMA BackfireStep ==
  ASSUME SchedulerInv, GoneInv, [Next]_svars, NEW s \in Schedules
  PROVE  Backfires(s)
<1>0. SessionInv /\ PhaseInv /\ RunTypes /\ PassTypes /\ Behind(s) /\ gone[s] \in Int
  BY DEF SchedulerInv, GoneInv, PhaseInv, PassTypes, Times
<1> SUFFICES ASSUME runs'[s] # runs[s], runs'[s] # <<>>
             PROVE  runs'[s][1].manual \/ crossed \/ s \in kept \/ runs'[s][1].for > gone[s]
  BY DEF Backfires
<1>1. ASSUME NEW c \in Schedules, EvaluateDue(c) PROVE crossed \/ s \in kept \/ runs'[s][1].for > gone[s]
  <2>1. s = c /\ runs'[s][1].for = Decision(s) /\ Decision(s) # NoneDue
    BY <1>0, <1>1, DueDecided
  <2>2. cursor[s].through < Decision(s) /\ cursor[s].through \in Nat /\ Decision(s) \in Nat
    BY <1>0, <2>1, DueLater DEF Times
  <2>3. Clears => crossed
    BY <1>0, <1>1, DueDecided, CrossingClears
  <2> QED
    BY <1>0, <2>1, <2>2, <2>3 DEF Behind, Stands
<1>2. ASSUME NEW c \in Schedules, RunNow(c) PROVE runs'[s][1].manual
  BY <1>0, <1>2, NowDecided
<1>3. CASE RecordRun
  <2>1. pass.at = "launch" /\ s = pass.cur /\ runs'[s][1].for = pass.for /\ runs'[s][1].manual = pass.manual
    BY <1>0, <1>3, RunRecorded
  <2>2. pass.for \in Int
    BY <1>0 DEF PassTypes, PassRecord, Times
  <2> QED
    BY <1>0, <2>1, <2>2 DEF Behind, Executing
<1>4. ASSUME NEW c \in Schedules, EvaluateNone(c) \/ EvaluateFails(c) PROVE FALSE
  BY <1>0, <1>4, Evaluated
<1>5. CASE BeginPass \/ SaveCursor \/ EndPass \/ LaunchSpawns \/ LeaveOpen \/ Exit \/ Crash \/ Tick \/ Aside
  BY <1>0, <1>5, Begun, Saved, EndCases, SpawnCases, LeftOpen, StopCases, TickCases DEF Stopping, Aside
<1>6. ASSUME NEW u \in Users, DeleteWorkspace(u) PROVE FALSE
  BY <1>0, <1>6, DeletionCases DEF Clearing, Vanishing
<1> QED
  BY <1>0, <1>1, <1>2, <1>3, <1>4, <1>5, <1>6, StepsAreMoves DEF Moves

\* A schedule that was gone never runs for an occurrence from before it was
\* declared again (scheduler.go, PruneCursors and DeleteByWorkspace), unless a
\* pass ran beside the deletion of its workspace, or that deletion was cut
\* short between the directory and the rows and its cursor is still the one it
\* left behind.
THEOREM NoBackfireHolds == Spec => NoBackfire
<1> DEFINE Step == \A s \in Schedules : Backfires(s)
<1>1. SchedulerInv /\ GoneInv /\ [Next]_svars => [Step]_svars
  BY BackfireStep
<1>2. SchedulerInv /\ GoneInv /\ [Next]_svars => (SchedulerInv /\ GoneInv)'
  BY SchedulerStep, GoneInvStep
<1>3. Spec => [][Step]_svars
  <2> HIDE DEF Step
  <2> QED
    BY <1>1, <1>2, SchedulerInvInit, GoneInvInit, PTL DEF Spec
<1> QED
  BY <1>3 DEF NoBackfire, Backfires

-----------------------------------------------------------------------------
(* The cursor passes an occurrence with a row for it, or an error.         *)

\* The occurrence in hand is the latest the cursor is about to pass, and once
\* the pass comes to the cursor there is a row for it; or the workspace's
\* deletion took both.
Latest ==
    /\ pass.for \in Occurs[cursor[pass.cur].cron]
    /\ cursor[pass.cur].through < pass.for /\ pass.for <= pass.time
    /\ \A t \in Occurs[cursor[pass.cur].cron] : cursor[pass.cur].through < t /\ t <= pass.time => t <= pass.for

SpentInv ==
    Executing => \/ cursor[pass.cur].through = -1
                 \/ Latest /\ (pass.at = "save" => Accounting(pass.cur))

LEMMA SpentInvInit == Init => SpentInv
  BY Idling DEF Init, SpentInv, Executing

LEMMA SpentInvStep ==
  ASSUME SchedulerInv, SpentInv, [Next]_svars
  PROVE  SpentInv'
<1>0. /\ SessionInv /\ PhaseInv /\ RunTypes /\ PassTypes
      /\ cursor \in [Schedules -> Cursors] /\ pass.cur \in Schedules
  BY DEF SchedulerInv, PhaseInv, PassTypes, PassRecord
<1>1. CASE BeginPass \/ SaveCursor \/ LeaveOpen
  BY <1>0, <1>1, Begun, Saved, LeftOpen DEF SpentInv, Executing
<1>2. CASE EndPass \/ Exit \/ Crash
  BY <1>2, EndCases, StopCases, Idling DEF SpentInv, Stopping
<1>3. ASSUME NEW s \in Schedules, EvaluateNone(s) \/ EvaluateFails(s) \/ RunNow(s) PROVE SpentInv'
  BY <1>0, <1>3, Evaluated, NowDecided, Idling DEF SpentInv, Executing
<1>4. ASSUME NEW s \in Schedules, EvaluateDue(s) PROVE SpentInv'
  <2>1. /\ pass'.cur = s /\ pass'.for = Decision(s) /\ pass'.time = pass.time /\ Decision(s) # NoneDue /\ UNCHANGED cursor
        /\ pass'.at = "save" => Accounting(s)'
    BY <1>0, <1>4, DueDecided
  <2>2. Latest'
    BY <1>0, <2>1, DueLater DEF Latest
  <2>3. pass'.at = "save" => Accounting(pass.cur)'
    BY <2>1 DEF Accounting
  <2> QED
    BY <2>2, <2>3 DEF SpentInv
<1>5. CASE RecordRun
  <2>1. CASE pass.manual
    BY <1>0, <1>5, <2>1, RunRecorded, Idling DEF SpentInv
  <2>2. CASE ~pass.manual
    <3>1. /\ Executing /\ UNCHANGED cursor /\ pass'.cur = pass.cur /\ pass'.for = pass.for /\ pass'.time = pass.time
          /\ Accounting(pass.cur)'
      BY <1>0, <1>5, <2>2, RunRecorded DEF PassKeeps, Executing
    <3> QED
      BY <3>1 DEF SpentInv, Latest
  <2> QED
    BY <2>1, <2>2
<1>6. CASE UNCHANGED <<cursor, runs, pass>>
  BY <1>6 DEF SpentInv, Executing, Latest, Accounting
<1>7. CASE LaunchSpawns \/ Tick \/ Aside
  BY <1>0, <1>6, <1>7, SpawnCases, TickCases DEF Aside
<1>8. ASSUME NEW u \in Users, DeleteWorkspace(u), UNCHANGED pass PROVE SpentInv'
  <2>1. CASE Clearing
    <3>1. cursor'[pass'.cur].through = -1
      BY <1>0, <1>8, <2>1 DEF Clearing, NoCursor
    <3> QED
      BY <3>1 DEF SpentInv
  <2> QED
    BY <1>0, <1>6, <1>8, <2>1, DeletionCases DEF Vanishing
<1> QED
  BY <1>0, <1>1, <1>2, <1>3, <1>4, <1>5, <1>7, <1>8, StepsAreMoves DEF Moves

\* What Accounted says of a step.
Passed(s) == {t \in Occurs[cursor[s].cron] : cursor[s].through < t /\ t <= cursor'[s].through}
Accounts(s) ==
    LET due == {t \in Occurs[cursor[s].cron] : cursor[s].through < t /\ t <= cursor'[s].through} IN
    (/\ cursor[s].through # -1 /\ cursor'[s].cron = cursor[s].cron
     /\ due # {} /\ ~pass.specs[s].disabled)
    => s \in pass.failed \/ (runs[s] # <<>> /\ runs[s][1].for = Max(due))

LEMMA AccountStep ==
  ASSUME SchedulerInv, SpentInv, [Next]_svars, NEW s \in Schedules
  PROVE  Accounts(s)
<1>0. /\ SessionInv /\ PhaseInv /\ RunTypes /\ PassTypes /\ Phases /\ pass \in PassRecord
      /\ cursor \in [Schedules -> Cursors] /\ pass.cur \in Schedules /\ MaxTime \in Nat
  BY ScheduleAssumption DEF SchedulerInv, PhaseInv, PassTypes, PassRecord
<1> SUFFICES ASSUME cursor[s].through # -1, cursor'[s].cron = cursor[s].cron, Passed(s) # {}, ~pass.specs[s].disabled
             PROVE  s \in pass.failed \/ (runs[s] # <<>> /\ runs[s][1].for = Max(Passed(s)))
  BY DEF Accounts, Passed
<1>1. /\ cursor[s].through \in Times /\ cursor[s].cron \in Crons /\ Occurs[cursor[s].cron] \subseteq 1 .. MaxTime
      /\ Passed(s) \subseteq 1 .. MaxTime
  BY <1>0, ScheduleAssumption DEF Cursors, Passed
<1>2. cursor'[s] # cursor[s]
  BY <1>0, <1>1 DEF Passed, Times
<1>3. cursor'[s] # NoCursor
  BY <1>0, <1>1 DEF Passed, Times, NoCursor
<1>4. ASSUME NEW c \in Schedules, EvaluateNone(c) \/ EvaluateFails(c) PROVE FALSE
  <2>1. c = s /\ EvaluateNone(s) /\ cursor'[s] = Closed(s)
    BY <1>0, <1>2, <1>4, Evaluated
  <2>2. Decision(s) = NoneDue /\ cursor'[s].through = pass.time /\ cursor'[s].cron = pass.specs[s].cron
    BY <1>0, <2>1, ClosedCursor DEF EvaluateNone
  <2>3. ~Fresh(s)
    BY <2>2 DEF Fresh
  <2>4. Window(s, cursor[s].through, pass.time) = {}
    BY <1>0, <2>2, <2>3, DecisionIsLatest
  <2> QED
    BY <2>2, <2>4 DEF Window, Passed
<1>5. CASE SaveCursor
  <2>1. s = pass.cur /\ cursor'[s] = Closed(s) /\ Executing /\ pass.at = "save"
    BY <1>0, <1>2, <1>5, Saved DEF Executing
  <2>2. cursor'[s].through = pass.time
    BY <1>0, <2>1, ClosedCursor
  <2>3. Latest /\ Accounting(s)
    BY <2>1 DEF SchedulerInv, SpentInv
  <2>4. pass.for \in Passed(s) /\ \A t \in Passed(s) : t <= pass.for
    BY <2>1, <2>2, <2>3 DEF Latest, Passed
  <2>5. Max(Passed(s)) = pass.for
    <3>1. PICK W : W = Passed(s)
      OBVIOUS
    <3>2. W \subseteq 1 .. MaxTime /\ W # {} /\ 1 \in Int /\ MaxTime \in Int
      BY <1>0, <1>1, <2>4, <3>1
    <3>3. Max(W) \in W /\ \A t \in W : t <= Max(W)
      BY <1>0, <3>2, MaxIsGreatest
    <3> QED
      BY <2>4, <3>1, <3>2, <3>3
  <2> QED
    BY <2>1, <2>3, <2>5 DEF Accounting
<1>6. ASSUME NEW c \in Schedules, EvaluateDue(c) \/ RunNow(c) PROVE FALSE
  BY <1>0, <1>2, <1>6, DueDecided, NowDecided
<1>7. CASE BeginPass \/ LaunchSpawns \/ LeaveOpen \/ RecordRun \/ Exit \/ Crash \/ Tick \/ Aside
  BY <1>0, <1>2, <1>7, Begun, SpawnCases, LeftOpen, RunRecorded, StopCases, TickCases DEF Stopping, Aside
<1>8. CASE EndPass
  BY <1>0, <1>2, <1>3, <1>8, EndCases
<1>9. ASSUME NEW u \in Users, DeleteWorkspace(u) PROVE FALSE
  BY <1>0, <1>2, <1>3, <1>9, DeletionCases DEF Clearing, Vanishing
<1> QED
  BY <1>0, <1>4, <1>5, <1>6, <1>7, <1>8, <1>9, StepsAreMoves DEF Moves

\* The cursor passes the occurrences of an enabled schedule only with a run row
\* for the latest of them (scheduler.go, evaluate and execute), or an error that
\* cost that row.
THEOREM AccountedHolds == Spec => Accounted
<1> DEFINE Step == \A s \in Schedules : Accounts(s)
<1>1. SchedulerInv /\ SpentInv /\ [Next]_svars => [Step]_svars
  BY AccountStep
<1>2. SchedulerInv /\ SpentInv /\ [Next]_svars => (SchedulerInv /\ SpentInv)'
  BY SchedulerStep, SpentInvStep
<1>3. Spec => [][Step]_svars
  <2> HIDE DEF Step
  <2> QED
    BY <1>1, <1>2, SchedulerInvInit, SpentInvInit, PTL DEF Spec
<1> QED
  BY <1>3, PTL DEF Accounted, Accounts

-----------------------------------------------------------------------------
(* No occurrence starts two chats.                                         *)

\* Time goes on, and what was left open or torn stays so.
LEMMA Onward ==
  ASSUME SchedulerInv, [Next]_svars
  PROVE  /\ now' \in Times /\ now <= now' /\ open \subseteq open' /\ torn \subseteq torn'
         /\ Passing' => pass'.time = now \/ (Passing /\ pass'.time = pass.time)
<1>0. SessionInv /\ PhaseInv /\ RunTypes /\ PassTypes /\ now \in Times /\ now <= now /\ MaxTime \in Nat
  BY ScheduleAssumption DEF SchedulerInv, PhaseInv, PassTypes, Times
<1>1. CASE BeginPass
  BY <1>0, <1>1, Begun
<1>2. CASE SaveCursor \/ LeaveOpen
  BY <1>0, <1>2, Saved, LeftOpen DEF PassKeeps, Passing
<1>3. CASE EndPass \/ Exit \/ Crash
  <2>1. ~Passing' /\ UNCHANGED now /\ open \subseteq open' /\ torn \subseteq torn'
    BY <1>3, EndCases, StopCases, Idling DEF Stopping
  <2> QED
    BY <1>0, <2>1
<1>4. ASSUME NEW s \in Schedules, EvaluateNone(s) \/ EvaluateFails(s)
      PROVE  /\ UNCHANGED <<now, open, torn>> /\ Passing /\ pass'.time = pass.time
  BY <1>0, <1>4, Evaluated DEF PassKeeps, Passing, PhaseInv, Phases
<1>5. ASSUME NEW s \in Schedules, EvaluateDue(s)
      PROVE  /\ UNCHANGED <<now, open, torn>> /\ Passing /\ pass'.time = pass.time
  BY <1>0, <1>5, DueDecided
<1>6. ASSUME NEW s \in Schedules, RunNow(s)
      PROVE  /\ UNCHANGED <<now, open, torn>> /\ ~Passing'
  BY <1>0, <1>6, NowDecided, Idling DEF Passing
<1>7. CASE RecordRun
  <2>1. Passing' => Passing /\ pass'.time = pass.time
    BY <1>0, <1>7, RunRecorded, Idling DEF PassKeeps, Passing
  <2> QED
    BY <1>0, <1>7, <2>1, RunRecorded
<1>8. CASE LaunchSpawns \/ Aside
  BY <1>0, <1>8, SpawnCases DEF Aside, Passing
<1>9. CASE Tick
  <2>1. now' = now + 1 /\ now < MaxTime
    BY <1>9 DEF Tick
  <2> QED
    BY <1>0, <1>9, <2>1, TickCases DEF Times, Passing
<1>10. CASE \E u \in Users : DeleteWorkspace(u) /\ UNCHANGED <<now, spec, pass, chats, open, torn, missed>>
  BY <1>0, <1>10 DEF Passing
<1> QED
  BY <1>0, <1>1, <1>2, <1>3, <1>4, <1>5, <1>6, <1>7, <1>8, <1>9, <1>10, StepsAreMoves DEF Moves

\* A cursor is dropped, or closes at the pass's time.
LEMMA CursorMoves ==
  ASSUME SchedulerInv, [Next]_svars, NEW s \in Schedules
  PROVE  \/ cursor'[s] = cursor[s] \/ cursor'[s] = NoCursor
         \/ Passing /\ cursor'[s].through = pass.time
<1>0. SessionInv /\ PhaseInv /\ RunTypes /\ PassTypes /\ cursor \in [Schedules -> Cursors]
  BY DEF SchedulerInv, PhaseInv, PassTypes
<1>1. CASE SaveCursor
  BY <1>0, <1>1, Saved, ClosedCursor DEF Passing
<1>2. ASSUME NEW c \in Schedules, EvaluateNone(c) \/ EvaluateFails(c)
      PROVE  cursor'[s] = cursor[s] \/ (Passing /\ cursor'[s].through = pass.time)
  BY <1>0, <1>2, Evaluated, ClosedCursor DEF Passing, PhaseInv, Phases
<1>3. ASSUME NEW c \in Schedules, EvaluateDue(c) \/ RunNow(c) PROVE UNCHANGED cursor
  BY <1>0, <1>3, DueDecided, NowDecided
<1>4. CASE BeginPass \/ LaunchSpawns \/ RecordRun \/ LeaveOpen \/ Exit \/ Crash \/ Tick \/ Aside
  BY <1>0, <1>4, Begun, SpawnCases, RunRecorded, LeftOpen, StopCases, TickCases DEF Stopping, Aside
<1>5. CASE EndPass
  BY <1>5, EndCases
<1>6. ASSUME NEW u \in Users, DeleteWorkspace(u) PROVE cursor'[s] = cursor[s] \/ cursor'[s] = NoCursor
  BY <1>0, <1>6, DeletionCases DEF Clearing, Vanishing
<1> QED
  BY <1>0, <1>1, <1>2, <1>3, <1>4, <1>5, <1>6, StepsAreMoves DEF Moves

\* An occurrence in hand stays there, is left open or torn, or is passed by its
\* cursor; a launch that is past its spawn does not spawn again.
LEMMA HandMoves ==
  ASSUME SchedulerInv, [Next]_svars, Executing
  PROVE  \/ <<pass.cur, pass.for>> \in open' \cup torn'
         \/ cursor'[pass.cur].through = pass.time
         \/ /\ Executing' /\ pass'.cur = pass.cur /\ pass'.for = pass.for
            /\ call[Runner].at # "spawn" => call'[Runner].at # "spawn"
<1>0. SessionInv /\ PhaseInv /\ RunTypes /\ PassTypes /\ cursor \in [Schedules -> Cursors] /\ pass.cur \in Schedules
  BY DEF SchedulerInv, PhaseInv, PassTypes, PassRecord
<1>1. CASE SaveCursor
  BY <1>0, <1>1, Saved, ClosedCursor
<1>2. CASE LeaveOpen
  BY <1>0, <1>2, LeftOpen
<1>3. CASE RecordRun
  BY <1>0, <1>3, RunRecorded, RunnerIdles DEF PassKeeps, Executing
<1>4. CASE Exit \/ Crash
  BY <1>4, StopCases DEF Stopping, Executing
<1>5. CASE BeginPass \/ EndPass \/ \E s \in Schedules : EvaluateNone(s) \/ EvaluateFails(s) \/ EvaluateDue(s) \/ RunNow(s)
  BY <1>0, <1>5, Begun, EndCases, Evaluated, DueDecided, NowDecided DEF Executing
<1>6. CASE LaunchSpawns \/ Tick \/ Aside
  BY <1>0, <1>6, SpawnCases, TickCases DEF Aside, Executing
<1>7. CASE \E u \in Users : DeleteWorkspace(u) /\ UNCHANGED <<now, spec, pass, chats, open, torn, missed>>
  BY <1>0, <1>7, DeletionCases DEF Executing
<1> QED
  BY <1>0, <1>1, <1>2, <1>3, <1>4, <1>5, <1>6, <1>7, StepsAreMoves DEF Moves

\* A launch of the pass that is to spawn was, or has just been decided on.
Spawns == pass.at = "launch" /\ ~pass.manual /\ call[Runner].at = "spawn"

LEMMA SpawnMoves ==
  ASSUME SchedulerInv, [Next]_svars, Spawns'
  PROVE  \/ Spawns /\ pass'.cur = pass.cur /\ pass'.for = pass.for
         \/ EvaluateDue(pass'.cur) /\ pass'.cur \in Schedules /\ pass'.for = Decision(pass'.cur)
<1>0. SessionInv /\ PhaseInv /\ RunTypes
  BY DEF SchedulerInv
<1>1. pass'.at = "launch" /\ ~pass'.manual /\ call'[Runner].at = "spawn"
  BY DEF Spawns
<1>2. CASE BeginPass \/ SaveCursor \/ LeaveOpen \/ EndPass \/ Exit \/ Crash
  BY <1>0, <1>1, <1>2, Begun, Saved, LeftOpen, EndCases, StopCases, Idling DEF Stopping
<1>3. CASE RecordRun
  BY <1>0, <1>1, <1>3, RunRecorded, RunnerIdles
<1>4. ASSUME NEW s \in Schedules, EvaluateNone(s) \/ EvaluateFails(s) \/ RunNow(s) PROVE FALSE
  BY <1>0, <1>1, <1>4, Evaluated, NowDecided, Idling
<1>5. ASSUME NEW s \in Schedules, EvaluateDue(s) PROVE pass'.cur = s /\ pass'.for = Decision(s)
  BY <1>0, <1>5, DueDecided
<1>6. CASE LaunchSpawns \/ Tick \/ Aside
  BY <1>0, <1>1, <1>6, SpawnCases, TickCases DEF Aside, Spawns
<1>7. CASE \E u \in Users : DeleteWorkspace(u) /\ UNCHANGED <<now, spec, pass, chats, open, torn, missed>>
  BY <1>0, <1>1, <1>7, DeletionCases DEF Spawns
<1> QED
  BY <1>0, <1>2, <1>3, <1>4, <1>5, <1>6, <1>7, StepsAreMoves DEF Moves, PhaseInv

\* Chats are noted as they are spawned.
LEMMA ChatMoves ==
  ASSUME SchedulerInv, [Next]_svars, chats' # chats
  PROVE  LaunchSpawns
<1>0. SessionInv /\ PhaseInv /\ RunTypes
  BY DEF SchedulerInv
<1>1. CASE BeginPass \/ SaveCursor \/ LeaveOpen \/ EndPass \/ Exit \/ Crash \/ RecordRun \/ Tick \/ Aside
  BY <1>0, <1>1, Begun, Saved, LeftOpen, EndCases, StopCases, RunRecorded, TickCases DEF Stopping, Aside
<1>2. ASSUME NEW s \in Schedules, EvaluateNone(s) \/ EvaluateFails(s) \/ RunNow(s) \/ EvaluateDue(s) PROVE FALSE
  BY <1>0, <1>2, Evaluated, NowDecided, DueDecided
<1> QED
  BY <1>0, <1>1, <1>2, StepsAreMoves DEF Moves, PhaseInv

Repeatable(c) == <<c.s, c.for>> \in open \cup torn
InHand(c)     == Executing /\ pass.cur = c.s /\ pass.for = c.for /\ call[Runner].at # "spawn"

\* A chat's occurrence is past; its cursor has passed it, or is about to, or was
\* dropped with its schedule.
Dated(c)   == c.for <= now /\ (Passing => c.for <= pass.time)
Settled(c) == Repeatable(c) \/ cursor[c.s].through = -1 \/ c.for <= cursor[c.s].through \/ InHand(c)

ChatRecord == [s : Schedules, for : Times, chat : Chats, manual : BOOLEAN]

\* A pass about to spawn has an occurrence no chat was started for.
Unspent == Spawns => \A c \in chats : c.manual \/ c.s # pass.cur \/ c.for # pass.for \/ Repeatable(c)

LaunchInv ==
    /\ chats \subseteq ChatRecord
    /\ \A c \in chats : c.manual \/ (Dated(c) /\ Settled(c))
    /\ Unspent
    /\ LaunchedOnce

LEMMA LaunchInvInit == Init => LaunchInv
<1>1. ASSUME Init PROVE chats = {}
  BY <1>1 DEF Init
<1> QED
  BY <1>1 DEF LaunchInv, Unspent, LaunchedOnce

\* What is known of a chat outlives a step.
LEMMA DatedStays ==
  ASSUME SchedulerInv, [Next]_svars, NEW c \in ChatRecord, Dated(c)
  PROVE  Dated(c)'
<1>1. /\ now' \in Times /\ now <= now' /\ now \in Times /\ c.for \in Times /\ MaxTime \in Nat
      /\ Passing' => pass'.time = now \/ (Passing /\ pass'.time = pass.time)
  BY Onward, ScheduleAssumption DEF ChatRecord, SchedulerInv, PhaseInv, PassTypes
<1> QED
  BY <1>1 DEF Dated, Times

LEMMA SettledStays ==
  ASSUME SchedulerInv, [Next]_svars, NEW c \in ChatRecord, Dated(c), Settled(c)
  PROVE  Settled(c)'
<1>1. open \subseteq open' /\ torn \subseteq torn' /\ c.s \in Schedules
  BY Onward DEF ChatRecord
<1>2. CASE Repeatable(c)
  BY <1>1, <1>2 DEF Settled, Repeatable
<1>3. CASE cursor'[c.s] = NoCursor
  BY <1>3 DEF Settled, NoCursor
<1>4. CASE Passing /\ cursor'[c.s].through = pass.time
  BY <1>4 DEF Settled, Dated
<1>5. CASE cursor'[c.s] = cursor[c.s] /\ ~InHand(c)
  BY <1>1, <1>2, <1>5 DEF Settled
<1>6. CASE InHand(c)
  <2>1. CASE cursor'[c.s].through = pass.time
    BY <1>6, <2>1 DEF Settled, Dated, InHand, Executing, Passing
  <2> QED
    BY <1>6, <2>1, HandMoves DEF InHand, Settled, Repeatable
<1> QED
  BY <1>1, <1>3, <1>4, <1>5, <1>6, CursorMoves

\* The occurrence decided on is one no chat was started for.
LEMMA UnspentDecision ==
  ASSUME SchedulerInv, LaunchInv, NEW s \in Schedules, EvaluateDue(s), NEW c \in chats, ~c.manual, c.s = s, c.for = Decision(s)
  PROVE  Repeatable(c)
<1>1. SessionInv /\ PhaseInv /\ RunTypes /\ PassTypes /\ Settled(c)
  BY DEF SchedulerInv, PhaseInv, LaunchInv
<1>2. pass.at = "next" /\ Decision(s) # NoneDue
  BY <1>1, DueDecided
<1>3. cursor[s].through \in Times /\ cursor[s].through < Decision(s) /\ Decision(s) \in Times
  BY <1>1, <1>2, DueLater
<1>4. MaxTime \in Nat /\ cursor[s].through # -1 /\ ~(c.for <= cursor[s].through)
  BY <1>3, ScheduleAssumption DEF Times
<1> QED
  BY <1>1, <1>2, <1>4 DEF Settled, InHand, Executing

LEMMA LaunchInvStep ==
  ASSUME SchedulerInv, LaunchInv, [Next]_svars
  PROVE  LaunchInv'
<1>0. SessionInv /\ PhaseInv /\ PassTypes /\ Phases /\ pass \in PassRecord /\ open \subseteq open' /\ torn \subseteq torn'
  BY Onward DEF SchedulerInv, PhaseInv, PassTypes
<1>1. ASSUME NEW c \in chats PROVE c.manual \/ (Dated(c) /\ Settled(c))'
  <2>1. c \in ChatRecord /\ (c.manual \/ (Dated(c) /\ Settled(c)))
    BY DEF LaunchInv
  <2> QED
    BY <2>1, DatedStays, SettledStays
<1>2. ASSUME NEW c \in chats, NEW d \in chats, ~c.manual, ~d.manual, c.s = d.s, c.for = d.for, c # d
      PROVE  <<c.s, c.for>> \in open' \cup torn'
  BY <1>0, <1>2 DEF LaunchInv, LaunchedOnce
<1>3. CASE chats' = chats
  <2>1. Unspent'
    <3> SUFFICES ASSUME Spawns', NEW c \in chats, ~c.manual, c.s = pass'.cur, c.for = pass'.for
                 PROVE  Repeatable(c)'
      BY <1>3 DEF Unspent
    <3>1. CASE Spawns /\ pass'.cur = pass.cur /\ pass'.for = pass.for
      BY <1>0, <3>1 DEF LaunchInv, Unspent, Repeatable
    <3>2. CASE EvaluateDue(pass'.cur) /\ pass'.cur \in Schedules /\ pass'.for = Decision(pass'.cur)
      <4>1. PICK s \in Schedules : s = pass'.cur
        BY <3>2
      <4>2. Repeatable(c)
        BY <3>2, <4>1, UnspentDecision
      <4> QED
        BY <1>0, <4>2 DEF Repeatable
    <3> QED
      BY <3>1, <3>2, SpawnMoves
  <2> QED
    BY <1>1, <1>2, <1>3, <2>1 DEF LaunchInv, LaunchedOnce
<1>4. CASE chats' # chats
  <2>1. LaunchSpawns
    BY <1>4, ChatMoves
  <2>a. PICK new : new = [s |-> pass.cur, for |-> pass.for, chat |-> call[Runner].chat, manual |-> pass.manual]
    OBVIOUS
  <2>2. /\ UNCHANGED <<now, cursor, pass, open, torn>> /\ call[Runner].at = "spawn" /\ call'[Runner].at # "spawn"
        /\ chats' = chats \cup {new} /\ call[Runner].chat \notin live
    BY <1>0, <1>4, <2>a, <2>1, SpawnCases
  <2>3. pass.at = "launch"
    BY <1>0, <2>2 DEF Phases
  <2>4. new \in ChatRecord
    <3>1. call[Runner] \in Calls
      BY <1>0, CallTypes DEF Callers
    <3>2. call[Runner].chat \in 1 .. born /\ born \in 0 .. MaxChats /\ MaxChats \in Nat
      BY <1>0, <2>2, SessionsAssumption DEF SessionInv, CallInv, Callers, RowTypes
    <3>3. call[Runner].chat \in Chats
      BY <3>2 DEF Chats
    <3> QED
      BY <1>0, <2>a, <3>3 DEF ChatRecord, PassRecord
  <2>5. new.s = pass.cur /\ new.for = pass.for /\ new.manual = pass.manual
    BY <2>a
  <2>6. ~new.manual => Dated(new)' /\ Settled(new)'
    <3>1. ~new.manual => Executing /\ pass.for <= pass.time /\ pass.time <= now
      BY <1>0, <2>3, <2>5 DEF Executing, Phases
    <3>2. pass.for \in Nat /\ pass.time \in Nat /\ now \in Nat
      BY <1>0, ScheduleAssumption DEF PassTypes, PassRecord, Times
    <3>3. ~new.manual => new.for <= now' /\ new.for <= pass'.time
      BY <2>2, <2>5, <3>1, <3>2
    <3> QED
      BY <2>2, <2>5, <3>1, <3>3 DEF Dated, Settled, InHand, Executing
  <2>7. Unspent'
    BY <2>2 DEF Unspent, Spawns
  <2>8. ASSUME NEW c \in chats, ~c.manual, ~new.manual, c.s = new.s, c.for = new.for
        PROVE  <<c.s, c.for>> \in open' \cup torn'
    BY <1>0, <2>2, <2>3, <2>5, <2>8 DEF LaunchInv, Unspent, Spawns, Repeatable
  <2>9. LaunchedOnce'
    <3>1. ASSUME NEW c \in chats', NEW d \in chats', ~c.manual, ~d.manual, c.s = d.s, c.for = d.for, c # d
          PROVE  <<c.s, c.for>> \in open' \cup torn'
      <4>1. CASE c \in chats /\ d \in chats
        BY <1>2, <3>1, <4>1
      <4>2. CASE c \in chats /\ d = new
        BY <2>8, <3>1, <4>2
      <4>3. CASE c = new /\ d \in chats
        BY <2>8, <3>1, <4>3
      <4> QED
        BY <2>2, <3>1, <4>1, <4>2, <4>3
    <3> QED
      BY <3>1 DEF LaunchedOnce
  <2>10. chats' \subseteq ChatRecord
    BY <2>2, <2>4 DEF LaunchInv
  <2>11. ASSUME NEW c \in chats' PROVE c.manual \/ (Dated(c) /\ Settled(c))'
    BY <1>1, <2>2, <2>6
  <2> QED
    BY <2>7, <2>9, <2>10, <2>11 DEF LaunchInv
<1> QED
  BY <1>3, <1>4

\* No occurrence starts two chats (scheduler.go: the mutex, and the cursor
\* written once the chat runs), unless its first execution was cut short before
\* that write.
THEOREM LaunchedOnceHolds == Spec => []LaunchedOnce
<1>1. LaunchInv => LaunchedOnce
  BY DEF LaunchInv
<1>2. SchedulerInv /\ LaunchInv /\ [Next]_svars => (SchedulerInv /\ LaunchInv)'
  BY SchedulerStep, LaunchInvStep
<1> QED
  BY <1>1, <1>2, SchedulerInvInit, LaunchInvInit, PTL DEF Spec

-----------------------------------------------------------------------------
(* What a step is to the chats: at most one call goes on with a launch, and *)
(* only a launch or a resume that spawns adds to what tmux runs.           *)

Launching == {"spawn", "settle", "launched"}
\* A call that minted its chat; one that has yet to spawn it.
Minted(c) == call[c].at \in Launching /\ ~call[c].resume
Unborn(c) == call[c].at = "spawn" /\ ~call[c].resume

GoesOn(c) ==
    \/ call'[c].at \notin Launching \/ call'[c] = call[c]
    \/ c # Runner /\ call'[c].resume
    \/ call'[c].at = "spawn" /\ ~call'[c].resume /\ born' = born + 1 /\ call'[c].chat = born'
    \/ /\ call[c].at \in {"spawn", "settle"} /\ call'[c].at \in {"settle", "launched"}
       /\ call'[c].chat = call[c].chat /\ call'[c].resume = call[c].resume

SessionMove ==
    /\ \E c \in Callers :
        /\ GoesOn(c)
        /\ \A d \in Callers \ {c} : call'[d] = call[d] \/ call'[d].at \notin Launching
    /\ born' = born \/ born' = born + 1
    /\ \A i \in Ids : record'[i] = record[i] \/ record'[i] = 0 \/ (born' = born + 1 /\ record'[i] = born')
    /\ relaunched \subseteq relaunched'
    /\ \A t \in live' : t \in live \/ t \in relaunched' \/ \E c \in Callers : Unborn(c) /\ t = call[c].chat

\* A step that launches nothing.
LEMMA MovesNothing ==
  ASSUME \A d \in Callers : call'[d] = call[d] \/ call'[d].at \notin Launching,
         UNCHANGED <<born, relaunched>>, live' \subseteq live,
         \A i \in Ids : record'[i] = record[i] \/ record'[i] = 0
  PROVE  SessionMove
<1>1. Runner \in Callers
  BY DEF Callers
<1> QED
  BY <1>1 DEF SessionMove, GoesOn

\* A call that another value replaces.
LEMMA CallBecomes ==
  ASSUME SessionInv, NEW c \in Callers, NEW k, call' = [call EXCEPT ![c] = k]
  PROVE  call'[c] = k /\ \A d \in Callers \ {c} : call'[d] = call[d]
  BY DEF SessionInv, RowTypes

\* A caller that is answered.
LEMMA AnswerMoves ==
  ASSUME SessionInv, NEW c \in Callers, NEW outcome \in {"launched", "failed"}, Answer(c, outcome),
         outcome = "launched" => call[c].at = "settle"
  PROVE  GoesOn(c) /\ \A d \in Callers \ {c} : call'[d] = call[d]
<1>1. call[c] \in Calls
  BY CallTypes
<1>2. CASE Detached(c)
  <2>1. call'[c] = [call[c] EXCEPT !.at = outcome] /\ \A d \in Callers \ {c} : call'[d] = call[d]
    BY <1>2, CallBecomes DEF Answer
  <2>2. call'[c].at = outcome /\ call'[c].chat = call[c].chat /\ call'[c].resume = call[c].resume
    BY <1>1, <2>1 DEF Calls
  <2> QED
    BY <2>1, <2>2 DEF GoesOn, Launching
<1>3. CASE ~Detached(c)
  <2>1. call' = [call EXCEPT ![c] = Idle]
    BY <1>3 DEF Answer
  <2>2. call'[c] = Idle /\ \A d \in Callers \ {c} : call'[d] = call[d]
    BY <2>1, CallBecomes
  <2>3. Idle.at \notin Launching
    BY DEF Idle, Launching
  <2> QED
    BY <2>2, <2>3 DEF GoesOn
<1> QED
  BY <1>2, <1>3

LEMMA StartMoves ==
  ASSUME SessionInv, NEW c \in Callers, NEW cancelled, StartSession(c, cancelled)
  PROVE  SessionMove
<1>1. born' = born + 1 /\ UNCHANGED <<live, relaunched>> /\ record \in [Ids -> 0 .. MaxChats]
      /\ (UNCHANGED record \/ record' = [record EXCEPT ![NextId] = born + 1])
  BY DEF StartSession, SessionInv, RowTypes
<1>2. \A i \in Ids : record'[i] = record[i] \/ record'[i] = born'
  BY <1>1
<1>3. CASE BelowCap
  <2> DEFINE k == [at |-> "spawn", id |-> NextId, chat |-> born + 1, resume |-> FALSE]
  <2>1. call' = [call EXCEPT ![c] = k]
    BY <1>3 DEF StartSession
  <2>2. k.at = "spawn" /\ k.chat = born + 1 /\ k.resume = FALSE
    OBVIOUS
  <2> HIDE DEF k
  <2>3. call'[c] = k /\ \A d \in Callers \ {c} : call'[d] = call[d]
    BY <2>1, CallBecomes
  <2>4. GoesOn(c)
    BY <1>1, <2>2, <2>3 DEF GoesOn
  <2> QED
    BY <1>1, <1>2, <2>3, <2>4 DEF SessionMove
<1>4. CASE ~BelowCap
  <2>1. Answer(c, "failed")
    BY <1>4 DEF StartSession
  <2>2. GoesOn(c) /\ \A d \in Callers \ {c} : call'[d] = call[d]
    BY <2>1, AnswerMoves
  <2> QED
    BY <1>1, <1>2, <2>2 DEF SessionMove
<1> QED
  BY <1>3, <1>4

LEMMA SpawnMovesOn ==
  ASSUME SessionInv, NEW c \in Callers, NEW cancelled, Spawn(c, cancelled)
  PROVE  SessionMove
<1>0. call[c] \in Calls /\ call[c].at = "spawn" /\ UNCHANGED born /\ record \in [Ids -> 0 .. MaxChats]
  BY CallTypes DEF SessionInv, RowTypes, Spawn
<1>1. CASE live' = live \cup {call[c].chat} /\ UNCHANGED record
           /\ call' = [call EXCEPT ![c] = IF Detached(c) THEN [@ EXCEPT !.at = "settle"] ELSE Idle]
           /\ relaunched' = IF call[c].resume THEN relaunched \cup {call[c].chat} ELSE relaunched
  <2>1. GoesOn(c) /\ \A d \in Callers \ {c} : call'[d] = call[d]
    <3>1. CASE Detached(c)
      <4>1. call' = [call EXCEPT ![c] = [call[c] EXCEPT !.at = "settle"]]
        BY <1>1, <3>1 DEF SessionInv, RowTypes
      <4>2. call'[c] = [call[c] EXCEPT !.at = "settle"] /\ \A d \in Callers \ {c} : call'[d] = call[d]
        BY <4>1, CallBecomes
      <4>3. call'[c].at = "settle" /\ call'[c].chat = call[c].chat /\ call'[c].resume = call[c].resume
        BY <1>0, <4>2 DEF Calls
      <4> QED
        BY <1>0, <4>2, <4>3 DEF GoesOn
    <3>2. CASE ~Detached(c)
      <4>1. call' = [call EXCEPT ![c] = Idle]
        BY <1>1, <3>2
      <4>2. call'[c] = Idle /\ \A d \in Callers \ {c} : call'[d] = call[d]
        BY <4>1, CallBecomes
      <4>3. Idle.at \notin Launching
        BY DEF Idle, Launching
      <4> QED
        BY <4>2, <4>3 DEF GoesOn
    <3> QED
      BY <3>1, <3>2
  <2>2. relaunched \subseteq relaunched' /\ \A t \in live' : t \in live \/ t \in relaunched' \/ (Unborn(c) /\ t = call[c].chat)
    BY <1>0, <1>1 DEF Unborn
  <2> QED
    BY <1>0, <1>1, <2>1, <2>2 DEF SessionMove
<1>2. CASE Discard(c, call[c].id, cancelled) /\ Answer(c, "failed") /\ UNCHANGED <<live, relaunched>>
  <2>1. GoesOn(c) /\ \A d \in Callers \ {c} : call'[d] = call[d]
    BY <1>2, AnswerMoves
  <2>2. \A i \in Ids : record'[i] = record[i] \/ record'[i] = 0
    BY <1>0, <1>2 DEF Discard
  <2> QED
    BY <1>0, <1>2, <2>1, <2>2 DEF SessionMove
<1> QED
  BY <1>1, <1>2 DEF Spawn

LEMMA UserMoves ==
  ASSUME SessionInv, UserNext \/ AgentExits
  PROVE  SessionMove
<1>0. /\ Users \subseteq Callers /\ Ender \in Callers /\ Runner \notin Users /\ record \in [Ids -> 0 .. MaxChats]
      /\ Idle.at \notin Launching
  BY SessionsAssumption DEF Callers, SessionInv, RowTypes, Idle, Launching
<1>1. ASSUME NEW c \in Callers, NEW k, call' = [call EXCEPT ![c] = k], k.at \notin Launching,
             UNCHANGED <<born, relaunched>>, live' \subseteq live,
             \A i \in Ids : record'[i] = record[i] \/ record'[i] = 0
      PROVE  SessionMove
  <2>1. \A d \in Callers : call'[d] = call[d] \/ call'[d].at \notin Launching
    BY <1>1, CallBecomes
  <2> QED
    BY <1>1, <2>1, MovesNothing
<1>2. ASSUME NEW c \in Callers, DropRecord(c) PROVE SessionMove
  BY <1>0, <1>1, <1>2 DEF DropRecord
<1>3. ASSUME NEW c \in Callers, NEW i, KillForDelete(c, i) PROVE SessionMove
  <2> DEFINE k == [at |-> "drop", id |-> i, chat |-> record[i], resume |-> FALSE]
  <2>1. k.at \notin Launching
    BY DEF Launching
  <2>2. call' = [call EXCEPT ![c] = k] /\ UNCHANGED <<record, born, relaunched>> /\ live' \subseteq live
    BY <1>3 DEF KillForDelete, KillSession
  <2> HIDE DEF k
  <2> QED
    BY <1>1, <2>1, <2>2
<1>4. ASSUME NEW u \in Users, NEW i \in Ids, ResumeSession(u, i) PROVE SessionMove
  <2> DEFINE k == [at |-> "spawn", id |-> i, chat |-> record[i], resume |-> TRUE]
  <2>1. k.resume
    OBVIOUS
  <2>2. call' = [call EXCEPT ![u] = k] /\ UNCHANGED <<record, born, relaunched, live>>
    BY <1>4 DEF ResumeSession
  <2> HIDE DEF k
  <2>3. u \in Callers /\ u # Runner /\ call'[u] = k /\ \A d \in Callers \ {u} : call'[d] = call[d]
    BY <1>0, <2>2, CallBecomes
  <2>4. GoesOn(u)
    BY <2>1, <2>3 DEF GoesOn
  <2> QED
    BY <2>2, <2>3, <2>4 DEF SessionMove
<1>5. ASSUME NEW i \in Ids, EndOwnSession(i) PROVE SessionMove
  <2> DEFINE k == [at |-> "delay", id |-> i, chat |-> record[i], resume |-> FALSE]
  <2>1. k.at \notin Launching
    BY DEF Launching
  <2>2. call' = [call EXCEPT ![Ender] = k] /\ UNCHANGED <<record, born, relaunched, live>>
    BY <1>5 DEF EndOwnSession
  <2> HIDE DEF k
  <2> QED
    BY <1>0, <1>1, <2>1, <2>2
<1>6. CASE EndAfter
  <2>1. CASE call' = [call EXCEPT ![Ender] = Idle] /\ UNCHANGED <<record, born, live, relaunched>>
    BY <1>0, <1>1, <2>1
  <2> QED
    BY <1>0, <1>3, <1>6, <2>1 DEF EndAfter
<1>7. CASE AgentExits \/ \E u \in Users, i \in Ids : CloseSession(u, i)
  BY <1>7, MovesNothing DEF AgentExits, CloseSession
<1>8. ASSUME NEW u \in Users, StartSession(u, FALSE) \/ Spawn(u, FALSE) PROVE SessionMove
  BY <1>0, <1>8, StartMoves, SpawnMovesOn
<1> QED
  BY <1>0, <1>2, <1>3, <1>4, <1>5, <1>6, <1>7, <1>8 DEF UserNext, DeleteSession

LEMMA SessionMoves ==
  ASSUME SessionInv, [Next]_svars
  PROVE  SessionMove /\ missed \subseteq missed'
<1>0. /\ Runner \in Callers /\ Users \subseteq Callers /\ record \in [Ids -> 0 .. MaxChats] /\ call \in [Callers -> Calls]
      /\ Idle.at \notin Launching
  BY DEF Callers, SessionInv, RowTypes, Idle, Launching
<1>1. CASE UNCHANGED <<record, born, live, call, relaunched, missed>>
  BY <1>1, MovesNothing
<1>2. CASE BeginPass \/ SaveCursor \/ EndPass \/ \E s \in Schedules : EvaluateNone(s) \/ EvaluateFails(s)
  BY <1>1, <1>2 DEF BeginPass, SaveCursor, EndPass, EvaluateNone, EvaluateFails, sessions, history
<1>3. ASSUME NEW e, Decide(e) PROVE SessionMove /\ missed \subseteq missed'
  BY <1>0, <1>1, <1>3, StartMoves DEF Decide, Refuse, CheckFails, Launch, LaunchFails
<1>4. CASE LaunchSpawns
  BY <1>0, <1>4, SpawnMovesOn DEF LaunchSpawns
<1>5. CASE LaunchSettles
  <2>1. Settle(Runner, Cancelled) /\ UNCHANGED <<missed, record, born, live, relaunched>>
    BY <1>5 DEF LaunchSettles, Settle, history
  <2>2. call[Runner].at = "settle" /\ \E outcome \in {"launched", "failed"} : Answer(Runner, outcome)
    BY <2>1 DEF Settle
  <2>3. GoesOn(Runner) /\ \A d \in Callers \ {Runner} : call'[d] = call[d]
    BY <1>0, <2>2, AnswerMoves
  <2> QED
    BY <1>0, <2>1, <2>3 DEF SessionMove
<1>6. CASE RecordRun \/ LeaveOpen
  <2>1. call' = [call EXCEPT ![Runner] = Idle] /\ UNCHANGED <<record, born, live, relaunched, missed>>
    BY <1>6 DEF RecordRun, LeaveOpen, history
  <2>2. \A d \in Callers : call'[d] = call[d] \/ call'[d].at \notin Launching
    BY <1>0, <2>1, CallBecomes
  <2> QED
    BY <2>1, <2>2, MovesNothing
<1>7. CASE (UserNext \/ AgentExits \/ Watch) /\ UNCHANGED <<now, spec, tables, pass, history>>
  <2>1. CASE UserNext \/ AgentExits
    BY <1>7, <2>1, UserMoves DEF history
  <2>2. CASE Watch
    BY <1>1, <1>7, <2>2 DEF Watch, history
  <2> QED
    BY <1>7, <2>1, <2>2
<1>8. ASSUME NEW u \in Users, DeleteWorkspace(u), UNCHANGED missed PROVE SessionMove /\ missed \subseteq missed'
  <2>1. \A d \in Callers : call'[d] = call[d] \/ call'[d].at \notin Launching
    BY <1>8, DeletionCalls DEF Launching
  <2>2. UNCHANGED <<born, relaunched>> /\ (record' = record \/ record' = [i \in Ids |-> 0])
    BY <1>8 DEF DeleteWorkspace, KillWorkspace, RemoveDirectory, ClearWorkspace, ClearFails, ReloadWorkspace
  <2>3. live' \subseteq live
    BY <1>8 DEF DeleteWorkspace, KillWorkspace, RemoveDirectory, ClearWorkspace, ClearFails, ReloadWorkspace
  <2> QED
    BY <1>8, <2>1, <2>2, <2>3, MovesNothing
<1>9. CASE \E s \in Schedules : EvaluateDue(s) \/ RunNow(s)
  BY <1>3, <1>9 DEF EvaluateDue, RunNow
<1>10. CASE Edit \/ Quit \/ Start \/ Tick \/ UNCHANGED svars
  BY <1>1, <1>10 DEF Edit, Quit, Start, Tick, sessions, history, svars
<1>11. CASE Exit \/ Crash
  <2>1. call' = [c \in Callers |-> Idle] /\ UNCHANGED <<record, born, live, relaunched, missed>>
    BY <1>11 DEF Exit, Crash, Ends
  <2> QED
    BY <1>0, <2>1, MovesNothing
<1> QED
  BY <1>2, <1>4, <1>5, <1>6, <1>7, <1>8, <1>9, <1>10, <1>11 DEF Next, PassStep, Others

-----------------------------------------------------------------------------
(* Two chats of one schedule do not run side by side.                      *)

\* A call that has yet to spawn starts a chat that no other launch has.
CallsApart ==
    /\ \A k, l \in Callers : k # l /\ Unborn(k) /\ Minted(l) => call[k].chat # call[l].chat
    /\ call[Runner].at \in Launching => ~call[Runner].resume

\* A call that has yet to spawn after a step had to before, or is new.
LEMMA UnbornMoves ==
  ASSUME SessionMove, NEW k \in Callers, Unborn(k)'
  PROVE  \/ Unborn(k) /\ call'[k].chat = call[k].chat
         \/ born' = born + 1 /\ call'[k].chat = born + 1
<1>1. PICK c \in Callers : GoesOn(c) /\ \A d \in Callers \ {c} : call'[d] = call[d] \/ call'[d].at \notin Launching
  BY DEF SessionMove
<1> QED
  BY <1>1 DEF GoesOn, Unborn, Launching

LEMMA CallsApartStep ==
  ASSUME SessionInv, SessionMove, CallsApart
  PROVE  CallsApart'
<1>0. /\ Runner \in Callers /\ born \in Nat
      /\ \A c \in Callers : Minted(c) \/ Unborn(c) => call[c].chat \in 1 .. born
  BY SessionsAssumption DEF Callers, SessionInv, RowTypes, CallInv, Minted, Unborn, Launching
<1>1. PICK c \in Callers : GoesOn(c) /\ \A d \in Callers \ {c} : call'[d] = call[d] \/ call'[d].at \notin Launching
  BY DEF SessionMove
<1>2. ASSUME NEW d \in Callers, Minted(d)'
      PROVE  \/ Minted(d) /\ call'[d].chat = call[d].chat
             \/ d = c /\ call'[d].chat = born + 1
  BY <1>1, <1>2 DEF GoesOn, Minted, Launching
<1>3. ASSUME NEW d \in Callers, Unborn(d)'
      PROVE  \/ Unborn(d) /\ call'[d].chat = call[d].chat
             \/ d = c /\ call'[d].chat = born + 1
  BY <1>1, <1>3 DEF GoesOn, Unborn, Launching
<1>4. ASSUME NEW k \in Callers, NEW l \in Callers, k # l, Unborn(k)', Minted(l)' PROVE call'[k].chat # call'[l].chat
  BY <1>0, <1>2, <1>3, <1>4 DEF CallsApart
<1>5. call'[Runner].at \in Launching => ~call'[Runner].resume
  BY <1>0, <1>1 DEF CallsApart, GoesOn, Launching
<1> QED
  BY <1>4, <1>5 DEF CallsApart

\* A terminal id that no call has yet to spawn.
Spawned(t) == \A k \in Callers : Unborn(k) => call[k].chat # t

LEMMA SpawnedStays ==
  ASSUME SessionInv, SessionMove, NEW t \in 0 .. born, Spawned(t)
  PROVE  Spawned(t)'
<1>1. born \in Nat
  BY SessionsAssumption DEF SessionInv, RowTypes
<1> SUFFICES ASSUME NEW k \in Callers, Unborn(k)' PROVE call'[k].chat # t
  BY DEF Spawned
<1> QED
  BY <1>1, UnbornMoves DEF Spawned

\* A chat that does not run, or runs as OneChatPerSchedule allows.
Quiet(t) == t \in live => t \in relaunched \cup missed \/ t \notin Recorded

LEMMA QuietStays ==
  ASSUME SessionInv, SessionMove, missed \subseteq missed', NEW t \in 0 .. born, t # 0, Spawned(t), Quiet(t)
  PROVE  Quiet(t)'
<1>1. born \in Nat /\ relaunched \subseteq relaunched'
  BY SessionsAssumption DEF SessionInv, RowTypes, SessionMove
<1>2. t \notin Recorded => t \notin Recorded'
  BY <1>1 DEF Recorded, SessionMove
<1>3. t \in live' => t \in live \/ t \in relaunched'
  BY DEF SessionMove, Spawned
<1> QED
  BY <1>1, <1>2, <1>3 DEF Quiet

LEMMA NoneQuiet == SessionInv => Quiet(0)
  BY DEF SessionInv, RowTypes, Quiet

\* A row names the record of its chat, and no other record is of that chat.
Fits(r) ==
    IF r.status = "launched"
    THEN r.session \in Ids /\ r.chat \in 1 .. born /\ \A j \in Ids : record[j] = r.chat => j = r.session
    ELSE r.chat = 0

LEMMA FitsStays ==
  ASSUME SessionInv, SessionMove, NEW r, Fits(r)
  PROVE  Fits(r)' /\ r.chat \in 0 .. born
<1>1. born \in Nat /\ (born' = born \/ born' = born + 1)
      /\ \A i \in Ids : record'[i] = record[i] \/ record'[i] = 0 \/ (born' = born + 1 /\ record'[i] = born')
  BY SessionsAssumption DEF SessionInv, RowTypes, SessionMove
<1>2. CASE r.status = "launched"
  <2>1. r.session \in Ids /\ r.chat \in 1 .. born /\ \A j \in Ids : record[j] = r.chat => j = r.session
    BY <1>2 DEF Fits
  <2>2. r.chat \in 1 .. born' /\ \A j \in Ids : record'[j] = r.chat => j = r.session
    BY <1>1, <2>1
  <2>3. r.chat \in 0 .. born
    BY <1>1, <2>1
  <2> QED
    BY <1>2, <2>1, <2>2, <2>3 DEF Fits
<1>3. CASE r.status # "launched"
  BY <1>1, <1>3 DEF Fits
<1> QED
  BY <1>2, <1>3

\* What is known of a row outlives a step.
Sound(r) == Fits(r) /\ Spawned(r.chat)

LEMMA SoundStays ==
  ASSUME SessionInv, SessionInv', SessionMove, missed \subseteq missed', NEW r, Sound(r)
  PROVE  Sound(r)' /\ (Quiet(r.chat) => Quiet(r.chat)')
<1>1. Fits(r)' /\ r.chat \in 0 .. born
  BY FitsStays DEF Sound
<1>2. PICK t \in 0 .. born : t = r.chat
  BY <1>1
<1>3. Spawned(t)'
  BY <1>2, SpawnedStays DEF Sound
<1>4. Quiet(t) => Quiet(t)'
  <2>1. CASE t = 0
    BY <2>1 DEF SessionInv, RowTypes, Quiet
  <2>2. CASE t # 0
    BY <1>2, <2>2, QuietStays DEF Sound
  <2> QED
    BY <2>1, <2>2
<1> QED
  BY <1>1, <1>2, <1>3, <1>4 DEF Sound, Spawned, Quiet

-----------------------------------------------------------------------------
(* The steps, as the histories of runs see them.                           *)

\* A row is put on top: of an execution that started no chat, or of the launch
\* that ended well.
Appended(s) ==
    /\ 1 <= Len(runs'[s])
    /\ \A i \in 2 .. Len(runs'[s]) : i - 1 \in 1 .. Len(runs[s]) /\ runs'[s][i] = runs[s][i - 1]
    /\ \/ runs'[s][1].status # "launched" /\ runs'[s][1].chat = 0
       \/ /\ RecordRun /\ s = pass.cur /\ call[Runner].at = "launched" /\ runs'[s][1].status = "launched"
          /\ runs'[s][1].session = call[Runner].id /\ runs'[s][1].chat = call[Runner].chat

LEMMA ClosingAppends ==
  ASSUME RunTypes, NEW e \in PassRecord, NEW status \in Statuses, NEW id \in 0 .. MaxChats, NEW chat \in 0 .. MaxChats,
         Closing(e, status, id, chat), NEW s \in Schedules
  PROVE  \/ runs'[s] = runs[s]
         \/ /\ s = e.cur /\ 1 <= Len(runs'[s])
            /\ \A i \in 2 .. Len(runs'[s]) : i - 1 \in 1 .. Len(runs[s]) /\ runs'[s][i] = runs[s][i - 1]
            /\ runs'[s][1].status = status /\ runs'[s][1].session = id /\ runs'[s][1].chat = chat
<1>1. CASE UNCHANGED runs
  BY <1>1
<1>2. CASE Recording(e, status, id, chat)
  <2>1. /\ Row(e, status, id, chat).status = status /\ Row(e, status, id, chat).session = id
        /\ Row(e, status, id, chat).chat = chat
    BY DEF Row
  <2> QED
    BY <1>2, <2>1, RecordingRow
<1> QED
  BY <1>1, <1>2, ClosingPass

LEMMA RunsMove ==
  ASSUME SchedulerInv, [Next]_svars, NEW s \in Schedules
  PROVE  runs'[s] = runs[s] \/ runs'[s] = <<>> \/ Appended(s)
<1>0. SessionInv /\ PhaseInv /\ RunTypes /\ PassTypes /\ Phases /\ pass \in PassRecord /\ 0 \in 0 .. MaxChats
  BY SessionsAssumption DEF SchedulerInv, PhaseInv, PassTypes
<1>1. ASSUME NEW e \in PassRecord, Decide(e) PROVE runs'[s] = runs[s] \/ Appended(s)
  <2>1. ASSUME NEW status \in {"skipped", "failed"}, Closing(e, status, 0, 0) PROVE runs'[s] = runs[s] \/ Appended(s)
    <3>1. status \in Statuses /\ status # "launched"
      BY DEF Statuses
    <3> QED
      BY <1>0, <2>1, <3>1, ClosingAppends DEF Appended
  <2> QED
    BY <1>0, <1>1, <2>1, DecideCases
<1>2. ASSUME NEW c \in Schedules, EvaluateDue(c) \/ RunNow(c) PROVE runs'[s] = runs[s] \/ Appended(s)
  BY <1>0, <1>1, <1>2, ExecutableNow DEF Executable
<1>3. CASE RecordRun
  <2>1. call[Runner].id \in 0 .. MaxChats /\ call[Runner].chat \in 0 .. MaxChats
    BY <1>0, CallTypes DEF Calls, Callers
  <2>2. CASE call[Runner].at = "launched"
    <3>1. Closing(pass, "launched", call[Runner].id, call[Runner].chat)
      BY <1>3, <2>2, InsertRunCloses DEF RecordRun
    <3>2. "launched" \in Statuses
      BY DEF Statuses
    <3> QED
      BY <1>0, <1>3, <2>1, <2>2, <3>1, <3>2, ClosingAppends DEF Appended
  <2>3. CASE call[Runner].at # "launched"
    <3>1. Closing(pass, "failed", 0, 0)
      BY <1>3, <2>3, InsertRunCloses DEF RecordRun
    <3>2. "failed" \in Statuses
      BY DEF Statuses
    <3> QED
      BY <1>0, <3>1, <3>2, ClosingAppends DEF Appended
  <2> QED
    BY <2>2, <2>3
<1>4. ASSUME NEW c \in Schedules, EvaluateNone(c) \/ EvaluateFails(c) PROVE UNCHANGED runs
  BY <1>0, <1>4, Evaluated
<1>5. CASE BeginPass \/ SaveCursor \/ EndPass \/ LaunchSpawns \/ LeaveOpen \/ Exit \/ Crash \/ Tick \/ Aside
  BY <1>0, <1>5, Begun, Saved, EndCases, SpawnCases, LeftOpen, StopCases, TickCases DEF Stopping, Aside
<1>6. ASSUME NEW u \in Users, DeleteWorkspace(u) PROVE runs'[s] = runs[s] \/ runs'[s] = <<>>
  BY <1>0, <1>6, DeletionCases DEF Clearing, Vanishing
<1> QED
  BY <1>0, <1>2, <1>3, <1>4, <1>5, <1>6, StepsAreMoves DEF Moves

\* A launch begins, or goes on.
LEMMA LaunchMoves ==
  ASSUME SchedulerInv, [Next]_svars, pass'.at = "launch"
  PROVE  \/ pass.at = "launch" /\ pass'.cur = pass.cur /\ (UNCHANGED runs \/ runs' = [s \in Schedules |-> <<>>])
         \/ \E e \in PassRecord : Launch(e) /\ pass'.cur = e.cur /\ UNCHANGED runs
<1>0. SessionInv /\ PhaseInv /\ RunTypes /\ PassTypes /\ Phases /\ pass \in PassRecord
  BY DEF SchedulerInv, PhaseInv, PassTypes
<1>1. ASSUME NEW e \in PassRecord, Decide(e) PROVE Launch(e) /\ pass'.cur = e.cur /\ UNCHANGED runs
  <2>1. ASSUME NEW status, Closing(e, status, 0, 0) PROVE FALSE
    <3>1. pass'.at \in {"save", "idle"}
      BY <2>1, ClosingPass, Idling DEF PassRecord
    <3> QED
      BY <3>1
  <2> QED
    BY <1>0, <1>1, <2>1, DecideCases, LaunchPass
<1>2. ASSUME NEW c \in Schedules, EvaluateDue(c) \/ RunNow(c)
      PROVE  \E e \in PassRecord : Launch(e) /\ pass'.cur = e.cur /\ UNCHANGED runs
  <2>1. PICK e : Executable(e) /\ Decide(e)
    BY <1>0, <1>2, ExecutableNow
  <2> QED
    BY <1>1, <2>1 DEF Executable
<1>3. ASSUME NEW c \in Schedules, EvaluateNone(c) \/ EvaluateFails(c) PROVE FALSE
  BY <1>0, <1>3, Evaluated
<1>4. CASE BeginPass \/ SaveCursor \/ EndPass \/ LeaveOpen \/ RecordRun \/ Exit \/ Crash
  BY <1>0, <1>4, Begun, Saved, EndCases, LeftOpen, RunRecorded, StopCases, Idling DEF Stopping
<1>5. CASE LaunchSpawns \/ Tick \/ Aside
  BY <1>0, <1>5, SpawnCases, TickCases DEF Aside
<1>6. ASSUME NEW u \in Users, DeleteWorkspace(u), UNCHANGED pass PROVE pass.at = "launch" /\ pass'.cur = pass.cur /\ (UNCHANGED runs \/ runs' = [s \in Schedules |-> <<>>])
  BY <1>0, <1>6, DeletionCases DEF Clearing, Vanishing
<1> QED
  BY <1>0, <1>2, <1>3, <1>4, <1>5, <1>6, StepsAreMoves DEF Moves

\* The rows that are not a schedule's newest launch are of chats that are quiet;
\* while a launch goes on, so are all of its schedule's.
ChatsApart  == \A c \in chats : c.chat \in 1 .. born /\ Spawned(c.chat) /\ \A d \in chats : c.chat = d.chat => c = d
RowsSound   == \A s \in Schedules : \A i \in 1 .. Len(runs[s]) : Sound(runs[s][i])
RowsQuiet   == \A s \in Schedules : \A i, j \in 1 .. Len(runs[s]) :
                   i < j /\ runs[s][i].status = "launched" => Quiet(runs[s][j].chat)
LaunchQuiet == pass.at = "launch" => \A i \in 1 .. Len(runs[pass.cur]) : Quiet(runs[pass.cur][i].chat)

SoloInv == CallsApart /\ ChatsApart /\ RowsSound /\ RowsQuiet /\ LaunchQuiet

LEMMA SoloInvInit == Init => SoloInv
<1> SUFFICES ASSUME Init PROVE SoloInv
  OBVIOUS
<1>1. chats = {} /\ \A s \in Schedules : runs[s] = <<>>
  BY DEF Init
<1>2. pass.at = "idle" /\ \A c \in Callers : call[c].at = "idle"
  BY DEF Init, NoPass, SessionInit, Idle
<1>3. CallsApart
  BY <1>2 DEF CallsApart, Unborn, Launching, Callers
<1>4. ChatsApart
  BY <1>1 DEF ChatsApart
<1>5. \A s \in Schedules : \A i \in 1 .. Len(runs[s]) : FALSE
  BY <1>1
<1>6. RowsSound /\ RowsQuiet
  BY <1>5 DEF RowsSound, RowsQuiet
<1> QED
  BY <1>2, <1>3, <1>4, <1>6 DEF SoloInv, LaunchQuiet

\* The checks before a launch: the newest launch of the schedule has ended, or
\* its record is of another chat or gone, or tmux did not answer.
LEMMA LaunchChecks ==
  ASSUME SchedulerInv, SoloInv, SessionInv', SessionMove, missed \subseteq missed',
         NEW e \in PassRecord, Launch(e), NEW i \in 1 .. Len(runs[e.cur])
  PROVE  Quiet(runs[e.cur][i].chat)'
<1>1. PICK s \in Schedules : s = e.cur
  BY DEF PassRecord
<1> DEFINE launched == {k \in DOMAIN runs[s] : runs[s][k].status = "launched"}
<1>2. /\ SessionInv /\ DOMAIN runs[s] = 1 .. Len(runs[s]) /\ Len(runs[s]) \in Nat
      /\ \A k \in 1 .. Len(runs[s]) : Sound(runs[s][k])
  BY DEF SchedulerInv, RunTypes, SoloInv, RowsSound
<1>3. LastLaunched(s) = IF launched = {} THEN 0 ELSE runs[s][Min(launched)].session
  BY DEF LastLaunched
<1>4. launched \subseteq 1 .. Len(runs[s]) /\ \A k \in launched : runs[s][k].status = "launched"
  BY <1>2
<1>5. runs[s][i].status = "launched" => i \in launched
  BY <1>1, <1>2
<1> HIDE DEF launched
<1>6. PICK r : r = runs[s][i]
  OBVIOUS
<1>7. Sound(r) /\ (Quiet(r.chat) => Quiet(r.chat)')
  BY <1>1, <1>2, <1>6, SoundStays
<1>8. Quiet(r.chat)'
  <2>1. CASE r.status # "launched"
    <3>1. r.chat = 0
      BY <1>7, <2>1 DEF Sound, Fits
    <3> QED
      BY <1>2, <1>7, <3>1, NoneQuiet
  <2>2. CASE r.status = "launched"
    <3>1. i \in launched /\ launched \subseteq Nat /\ launched # {}
      BY <1>2, <1>4, <1>5, <1>6, <2>2
    <3>2. PICK m \in launched : m = Min(launched) /\ m <= i
      BY <3>1, MinIsLeast
    <3>3. CASE m # i
      <4>1. m < i
        BY <1>4, <3>1, <3>2, <3>3
      <4>2. Quiet(r.chat)
        BY <1>1, <1>4, <1>6, <3>2, <4>1 DEF SoloInv, RowsQuiet
      <4> QED
        BY <1>7, <4>2
    <3>4. CASE m = i
      <4>1. LastLaunched(s) = r.session /\ r.session \in Ids /\ r.chat \in 1 .. born
            /\ \A j \in Ids : record[j] = r.chat => j = r.session
        BY <1>3, <1>6, <1>7, <2>2, <3>1, <3>2, <3>4 DEF Sound, Fits
      <4>2. r.session # 0 /\ r.chat # 0
        BY <4>1 DEF Ids
      <4>3. CASE record[r.session] # r.chat
        <5>1. Quiet(r.chat)
          BY <4>1, <4>3 DEF Quiet, Recorded
        <5> QED
          BY <1>7, <5>1
      <4>4. CASE record[r.session] = r.chat /\ r.chat \notin live
        <5>1. Quiet(r.chat)
          BY <4>4 DEF Quiet
        <5> QED
          BY <1>7, <5>1
      <4>5. CASE record[r.session] = r.chat /\ r.chat \in live
        <5>1. Overlaps(e)
          BY <1>1, <4>1, <4>2, <4>5 DEF Overlaps, SessionLive
        <5>2. missed' = missed \cup {r.chat}
          BY <1>1, <4>1, <4>5, <5>1 DEF Launch
        <5> QED
          BY <5>2 DEF Quiet
      <4> QED
        BY <4>3, <4>4, <4>5
    <3> QED
      BY <3>3, <3>4
  <2> QED
    BY <2>1, <2>2
<1> QED
  BY <1>1, <1>6, <1>8 DEF Quiet, Launch

\* A launch that ended well is of a chat no call has yet to spawn.
LEMMA LaunchedSound ==
  ASSUME SchedulerInv, SoloInv, SessionInv', SessionMove, RecordRun, call[Runner].at = "launched",
         NEW r, r.status = "launched", r.session = call[Runner].id, r.chat = call[Runner].chat
  PROVE  Sound(r)'
<1>1. /\ SessionInv /\ Runner \in Callers /\ call'[Runner].at = "idle" /\ born \in Nat
      /\ call[Runner].id \in Ids /\ call[Runner].chat \in 1 .. born
      /\ \A i \in Ids : record[i] = call[Runner].chat => i = call[Runner].id
  BY SessionsAssumption, RunnerIdles DEF RecordRun, Callers, SchedulerInv, SessionInv, CallInv, RowTypes
<1>2. Fits(r)
  BY <1>1 DEF Fits
<1>3. Fits(r)'
  BY <1>1, <1>2, FitsStays
<1>4. Minted(Runner)
  BY DEF SoloInv, CallsApart, Minted, Launching
<1>5. ASSUME NEW k \in Callers, Unborn(k)' PROVE call'[k].chat # r.chat
  <2>1. k # Runner
    BY <1>1, <1>5 DEF Unborn
  <2> QED
    BY <1>1, <1>4, <1>5, <2>1, UnbornMoves DEF SoloInv, CallsApart
<1> QED
  BY <1>3, <1>5 DEF Sound, Spawned

LEMMA ChatsApartStep ==
  ASSUME SchedulerInv, SoloInv, SessionMove, [Next]_svars
  PROVE  ChatsApart'
<1>0. /\ SessionInv /\ Runner \in Callers /\ born \in Nat /\ (born' = born \/ born' = born + 1)
  BY SessionsAssumption DEF SchedulerInv, SessionInv, RowTypes, Callers, SessionMove
<1>1. ASSUME NEW c \in chats PROVE c.chat \in 1 .. born' /\ Spawned(c.chat)'
  <2>1. c.chat \in 1 .. born /\ Spawned(c.chat)
    BY DEF SoloInv, ChatsApart
  <2>2. PICK t \in 0 .. born : t = c.chat
    BY <1>0, <2>1
  <2>3. Spawned(t)'
    BY <1>0, <2>1, <2>2, SpawnedStays
  <2> QED
    BY <1>0, <2>1, <2>2, <2>3 DEF Spawned
<1>2. CASE chats' = chats
  BY <1>1, <1>2 DEF SoloInv, ChatsApart
<1>3. CASE chats' # chats
  <2>1. LaunchSpawns
    BY <1>3, ChatMoves
  <2>2. PICK new : /\ new.chat = call[Runner].chat /\ chats' = chats \cup {new}
    BY <1>0, <1>3, <2>1, SpawnCases
  <2>3. call[Runner].at = "spawn" /\ call'[Runner].at # "spawn"
    BY <1>0, <2>1, SpawnCases
  <2>4. Unborn(Runner) /\ Minted(Runner)
    BY <2>3 DEF SoloInv, CallsApart, Unborn, Minted, Launching
  <2>5. new.chat \in 1 .. born
    BY <1>0, <2>2, <2>3 DEF SessionInv, CallInv
  <2>6. \A c \in chats : c.chat # new.chat
    BY <1>0, <2>2, <2>4 DEF SoloInv, ChatsApart, Spawned
  <2>7. ASSUME NEW k \in Callers, Unborn(k)' PROVE call'[k].chat # new.chat
    <3>1. k # Runner
      BY <2>3, <2>7 DEF Unborn
    <3> QED
      BY <1>0, <2>2, <2>4, <2>5, <2>7, <3>1, UnbornMoves DEF SoloInv, CallsApart
  <2>8. new.chat \in 1 .. born' /\ Spawned(new.chat)'
    BY <1>0, <2>5, <2>7 DEF Spawned
  <2>9. \A c \in chats' : c.chat \in 1 .. born' /\ Spawned(c.chat)'
    BY <1>1, <2>2, <2>8
  <2>10. \A c, d \in chats' : c.chat = d.chat => c = d
    BY <2>2, <2>6 DEF SoloInv, ChatsApart
  <2> QED
    BY <2>9, <2>10 DEF ChatsApart
<1> QED
  BY <1>2, <1>3

LEMMA SoloInvStep ==
  ASSUME SchedulerInv, SoloInv, [Next]_svars
  PROVE  SoloInv'
<1>0. /\ SessionInv /\ SessionInv' /\ SessionMove /\ missed \subseteq missed'
      /\ runs \in [Schedules -> Seq(Run)] /\ PassTypes /\ PassTypes'
  BY SchedulerStep, SessionMoves DEF SchedulerInv, RunTypes, PhaseInv
<1>1. CallsApart' /\ ChatsApart'
  BY <1>0, CallsApartStep, ChatsApartStep DEF SoloInv
<1>2. ASSUME NEW s \in Schedules, NEW i \in 1 .. Len(runs[s])
      PROVE  Sound(runs[s][i]) /\ \A r : r = runs[s][i] => Sound(r)' /\ (Quiet(r.chat) => Quiet(r.chat)')
  <2>1. Sound(runs[s][i])
    BY DEF SoloInv, RowsSound
  <2> SUFFICES ASSUME NEW r, r = runs[s][i] PROVE Sound(r)' /\ (Quiet(r.chat) => Quiet(r.chat)')
    BY <2>1
  <2> QED
    BY <1>0, <2>1, SoundStays
<1>3. ASSUME NEW s \in Schedules, NEW i \in 1 .. Len(runs'[s]), NEW r, r = runs'[s][i] PROVE Sound(r)'
  <2>1. CASE runs'[s] = runs[s]
    BY <1>2, <1>3, <2>1
  <2>2. CASE runs'[s] = <<>>
    BY <2>2
  <2>3. CASE Appended(s) /\ i # 1
    <3>1. i \in 2 .. Len(runs'[s])
      BY <2>3
    <3>2. i - 1 \in 1 .. Len(runs[s]) /\ r = runs[s][i - 1]
      BY <1>3, <2>3, <3>1 DEF Appended
    <3> QED
      BY <1>2, <3>2
  <2>4. CASE Appended(s) /\ i = 1
    <3>1. CASE r.status # "launched" /\ r.chat = 0
      <4>1. \A k \in Callers : Unborn(k)' => call'[k].chat # 0
        BY <1>0 DEF SessionInv, CallInv, RowTypes, Unborn
      <4> QED
        BY <3>1, <4>1 DEF Sound, Fits, Spawned
    <3>2. CASE RecordRun /\ call[Runner].at = "launched" /\ r.status = "launched"
               /\ r.session = call[Runner].id /\ r.chat = call[Runner].chat
      BY <1>0, <3>2, LaunchedSound
    <3> QED
      BY <1>3, <2>4, <3>1, <3>2 DEF Appended
  <2> QED
    BY <2>1, <2>2, <2>3, <2>4, RunsMove
<1>4. RowsSound'
  BY <1>3 DEF RowsSound, Sound, Fits, Spawned
<1>5. ASSUME NEW s \in Schedules, NEW i \in 1 .. Len(runs'[s]), NEW j \in 1 .. Len(runs'[s]),
             i < j, runs'[s][i].status = "launched", NEW r, r = runs'[s][j]
      PROVE  Quiet(r.chat)'
  <2>1. CASE runs'[s] = runs[s]
    <3>1. Quiet(runs[s][j].chat)
      BY <1>5, <2>1 DEF SoloInv, RowsQuiet
    <3> QED
      BY <1>2, <1>5, <2>1, <3>1
  <2>2. CASE runs'[s] = <<>>
    BY <2>2
  <2>3. CASE Appended(s)
    <3>1. j \in 2 .. Len(runs'[s])
      BY <1>5
    <3>2. j - 1 \in 1 .. Len(runs[s]) /\ r = runs[s][j - 1]
      BY <1>5, <2>3, <3>1 DEF Appended
    <3>3. CASE i = 1
      <4>1. RecordRun /\ s = pass.cur
        BY <1>5, <2>3, <3>3 DEF Appended
      <4>2. pass.at = "launch"
        BY <4>1 DEF RecordRun
      <4>3. Quiet(r.chat)
        BY <3>2, <4>1, <4>2 DEF SoloInv, LaunchQuiet
      <4> QED
        BY <1>2, <3>2, <4>3
    <3>4. CASE i # 1
      <4>1. i \in 2 .. Len(runs'[s])
        BY <3>4
      <4>2. i - 1 \in 1 .. Len(runs[s]) /\ runs'[s][i] = runs[s][i - 1] /\ i - 1 < j - 1
        BY <1>5, <2>3, <4>1 DEF Appended
      <4>3. Quiet(r.chat)
        BY <1>5, <3>2, <4>2 DEF SoloInv, RowsQuiet
      <4> QED
        BY <1>2, <3>2, <4>3
    <3> QED
      BY <3>3, <3>4
  <2> QED
    BY <2>1, <2>2, <2>3, RunsMove
<1>6. RowsQuiet'
  BY <1>5 DEF RowsQuiet, Quiet
<1>7. ASSUME pass'.at = "launch", NEW i \in 1 .. Len(runs'[pass'.cur]), NEW r, r = runs'[pass'.cur][i] PROVE Quiet(r.chat)'
  <2>0. PICK s \in Schedules : s = pass'.cur
    BY <1>0 DEF PassTypes, PassRecord
  <2>1. CASE pass.at = "launch" /\ pass'.cur = pass.cur /\ UNCHANGED runs
    <3>1. Quiet(r.chat) /\ i \in 1 .. Len(runs[s]) /\ r = runs[s][i]
      BY <1>7, <2>0, <2>1 DEF SoloInv, LaunchQuiet
    <3> QED
      BY <1>2, <3>1
  <2>2. CASE runs' = [c \in Schedules |-> <<>>]
    <3>1. runs'[s] = <<>>
      BY <2>2
    <3> QED
      BY <2>0, <3>1
  <2>3. ASSUME NEW e \in PassRecord, Launch(e), pass'.cur = e.cur, UNCHANGED runs PROVE Quiet(r.chat)'
    <3>1. i \in 1 .. Len(runs[e.cur]) /\ r = runs[e.cur][i]
      BY <1>7, <2>3
    <3> QED
      BY <1>0, <2>3, <3>1, LaunchChecks DEF Quiet
  <2> QED
    BY <1>7, <2>1, <2>2, <2>3, LaunchMoves
<1>8. LaunchQuiet'
  BY <1>7 DEF LaunchQuiet, Quiet
<1> QED
  BY <1>1, <1>4, <1>6, <1>8 DEF SoloInv

LEMMA SoloInvSolo ==
  ASSUME SchedulerInv, SoloInv, chats \subseteq ChatRecord
  PROVE  OneChatPerSchedule
<1> SUFFICES ASSUME NEW c \in chats, NEW d \in chats, c.s = d.s, c # d, {c.chat, d.chat} \subseteq live,
                    \A e \in {c, d} : /\ e.chat \notin relaunched \cup missed
                                      /\ e.chat \in Recorded
                                      /\ \E i \in DOMAIN runs[c.s] : runs[c.s][i].chat = e.chat
             PROVE  FALSE
  BY DEF OneChatPerSchedule
<1>1. c.s \in Schedules /\ DOMAIN runs[c.s] = 1 .. Len(runs[c.s]) /\ Len(runs[c.s]) \in Nat
  BY DEF ChatRecord, SchedulerInv, RunTypes
<1>2. PICK i \in 1 .. Len(runs[c.s]) : runs[c.s][i].chat = c.chat
  BY <1>1
<1>3. PICK j \in 1 .. Len(runs[c.s]) : runs[c.s][j].chat = d.chat
  BY <1>1
<1>4. c.chat # d.chat /\ c.chat \in 1 .. born /\ d.chat \in 1 .. born
  BY DEF SoloInv, ChatsApart
<1>5. i # j
  BY <1>2, <1>3, <1>4
<1>6. runs[c.s][i].status = "launched" /\ runs[c.s][j].status = "launched"
  BY <1>1, <1>2, <1>3, <1>4 DEF SoloInv, RowsSound, Sound, Fits
<1>7. ~Quiet(c.chat) /\ ~Quiet(d.chat)
  BY DEF Quiet
<1>8. CASE i < j
  BY <1>1, <1>2, <1>3, <1>6, <1>7, <1>8 DEF SoloInv, RowsQuiet
<1>9. CASE j < i
  BY <1>1, <1>2, <1>3, <1>6, <1>7, <1>9 DEF SoloInv, RowsQuiet
<1> QED
  BY <1>1, <1>5, <1>8, <1>9

\* Two chats of one schedule do not run side by side (scheduler.go, execute: the
\* last launched run is looked up before a launch), unless a user resumed one of
\* them, tmux failed to report it, or its row or record is gone.
THEOREM OneChatPerScheduleHolds == Spec => []OneChatPerSchedule
<1>1. SchedulerInv /\ LaunchInv /\ SoloInv => OneChatPerSchedule
  BY SoloInvSolo DEF LaunchInv
<1>2. SchedulerInv /\ LaunchInv /\ SoloInv /\ [Next]_svars => (SchedulerInv /\ LaunchInv /\ SoloInv)'
  BY SchedulerStep, LaunchInvStep, SoloInvStep
<1> QED
  BY <1>1, <1>2, SchedulerInvInit, LaunchInvInit, SoloInvInit, PTL DEF Spec

=============================================================================
