--------------------------- MODULE CommandsProofs ---------------------------
(***************************************************************************)
(* Proofs about module Commands, for any commands, connections, capacities  *)
(* and bounds.                                                               *)
(*                                                                         *)
(* The refinement of CommandLifecycle needs to know, of every frame that    *)
(* travels, that its command has a row, and of every result that travels,   *)
(* that the agent has executed its command (ChannelsKnown); and of every    *)
(* row, that an answer in it is the agent's (RowsKnown).  A second copy of  *)
(* an answer then changes nothing.  CallerCommit is the one action that      *)
(* writes a row without looking, and its commands are not of RunCmds.        *)
(*                                                                         *)
(* NothingForgotten, said of connections past their resend, becomes         *)
(* inductive when it also says what a connection between its select and its *)
(* send holds in hand (HeldOrSent).                                          *)
(*                                                                         *)
(* ExecutedInOrder is about one instant, the first frame of a live outbox;  *)
(* it holds because every frame of a live outbox has the older commands     *)
(* before it (QueueOrdered).  A frame joins an outbox in two places.  The    *)
(* one of a caller needs NothingForgotten: past the resend, whatever is     *)
(* older has been handed over, and then it is still in the outbox or was    *)
(* executed.  Those of resend_pending need that what was selected leaves no *)
(* older command out (BatchesOrdered), however many callers wrote rows      *)
(* between the select and the send.                                          *)
(***************************************************************************)
EXTENDS Commands, SequenceTheorems, FiniteSetTheorems, TLAPS

\* What a sequence holds, and what its first n items are.
Elems(s) == {s[n] : n \in 1..Len(s)}
Firsts(s, n) == {s[m] : m \in 1..n}

\* What each row says of its caller, its deadline and its agent.
RowsKnown ==
  \A c \in Cmds :
    /\ row[c] = "none" => task[c] \in {"idle", "creating", "finished"}
    /\ task[c] \in {"idle", "creating"} => row[c] = "none"
    /\ task[c] = "dirty" => c \notin RunCmds
    /\ row[c] \in Answers => row[c] = executed[c]
    /\ row[c] = "expired" => c \in overdue
    /\ executed[c] # "none" => row[c] # "none"

\* What connection k carries: commands that have a row, results of commands
\* that were executed.
ChannelKnown(k) ==
  /\ \A c \in batch[k] : Target[c] = Owner[k] /\ row[c] # "none"
  /\ \A c \in Elems(outbox[k]) : row[c] # "none"
  /\ Len(outbox[k]) <= Capacity
  /\ \A c \in Elems(toHub[k]) : executed[c] # "none"
  /\ phase[k] \in {"handling", "storing"} =>
       work[k] \in Cmds /\ executed[work[k]] # "none"

ChannelsKnown == \A k \in Conns : ChannelKnown(k)

\* The registry names running handlers, each under its own instance.
RegisteredRuns ==
  \A i \in Instances :
    IsOnline(i) => /\ Owner[online[i]] = i
                   /\ phase[online[i]] \notin {"unused", "ended"}

\* A command this connection could have brought to its agent.
Outstanding(c) ==
  /\ Reaches(c)
  /\ row[c] \in Pending
  /\ c \notin overdue
  /\ executed[c] = "none"

\* It is on its way, or will be, or the connection's outbox overflowed.
Held(c) ==
  LET k == online[Target[c]] IN
    \/ task[c] = "inserted"
    \/ <<c, k>> \in handed
    \/ k \in dropped
    \/ phase[k] = "selected" /\ c \in batch[k]

HeldOrSent ==
  \A c \in Cmds :
    Outstanding(c) /\ phase[online[Target[c]]] # "registered" => Held(c)
-----------------------------------------------------------------------------
(* Sequences *)

LEMMA ElemsEmpty == Elems(<<>>) = {}
BY DEF Elems

LEMMA ElemsTyped ==
  ASSUME NEW S, NEW s \in Seq(S)
  PROVE  Elems(s) \subseteq S
BY ElementOfSeq DEF Elems

LEMMA ElemsAppend ==
  ASSUME NEW S, NEW s \in Seq(S), NEW c \in S
  PROVE  /\ Append(s, c) \in Seq(S)
         /\ Len(Append(s, c)) = Len(s) + 1
         /\ Elems(Append(s, c)) \subseteq Elems(s) \cup {c}
<1>1. /\ Append(s, c) \in Seq(S)
      /\ Len(Append(s, c)) = Len(s) + 1
      /\ \A n \in 1..Len(s) : Append(s, c)[n] = s[n]
      /\ Append(s, c)[Len(s) + 1] = c
  BY AppendProperties
<1>2. Len(s) \in Nat
  BY LenProperties
<1>3. \A n \in 1..(Len(s) + 1) : n \in 1..Len(s) \/ n = Len(s) + 1
  BY <1>2
<1>4. QED
  BY <1>1, <1>3 DEF Elems

LEMMA ElemsTail ==
  ASSUME NEW S, NEW s \in Seq(S), s # <<>>
  PROVE  /\ Head(s) \in S /\ Head(s) \in Elems(s)
         /\ Tail(s) \in Seq(S)
         /\ Len(Tail(s)) = Len(s) - 1
         /\ Elems(Tail(s)) \subseteq Elems(s)
<1>1. /\ Head(s) \in S /\ Tail(s) \in Seq(S)
      /\ Len(Tail(s)) = Len(s) - 1
      /\ \A n \in 1..Len(Tail(s)) : Tail(s)[n] = s[n + 1]
  BY HeadTailProperties
<1>2. Len(s) \in Nat /\ Len(s) # 0
  BY LenProperties, EmptySeq
<1>3. Head(s) = s[1]
  OBVIOUS
<1>4. 1 \in 1..Len(s) /\ \A n \in 1..(Len(s) - 1) : n + 1 \in 1..Len(s)
  BY <1>2
<1>5. QED
  BY <1>1, <1>3, <1>4 DEF Elems

LEMMA ElemsPrefix ==
  ASSUME NEW S, NEW s \in Seq(S), NEW n \in 0..Len(s)
  PROVE  /\ SubSeq(s, 1, n) \in Seq(S)
         /\ Len(SubSeq(s, 1, n)) = n
         /\ \A m \in 1..n : SubSeq(s, 1, n)[m] = s[m]
         /\ Elems(SubSeq(s, 1, n)) = {s[m] : m \in 1..n}
         /\ Elems(SubSeq(s, 1, n)) \subseteq Elems(s)
<1>1. Len(s) \in Nat
  BY LenProperties
<1>2. 1..n \subseteq 1..Len(s)
  BY <1>1
<1>3. \A m \in 1..n : s[m] \in S
  BY <1>2, ElementOfSeq
<1>4. /\ SubSeq(s, 1, n) \in Seq(S)
      /\ Len(SubSeq(s, 1, n)) = IF 1 <= n THEN n - 1 + 1 ELSE 0
      /\ \A m \in 1..(n - 1 + 1) : SubSeq(s, 1, n)[m] = s[1 + m - 1]
  BY <1>1, <1>3, SubSeqProperties
<1>5. Len(SubSeq(s, 1, n)) = n /\ \A m \in 1..n : SubSeq(s, 1, n)[m] = s[m]
  BY <1>1, <1>4
<1>6. QED
  BY <1>2, <1>4, <1>5 DEF Elems

\* The first n items of a list of size members of S.
LEMMA ListPrefix ==
  ASSUME NEW S, NEW size \in Nat, NEW s \in [1..size -> S], NEW n \in 0..size
  PROVE  /\ SubSeq(s, 1, n) \in Seq(S)
         /\ Len(SubSeq(s, 1, n)) = n
         /\ Elems(SubSeq(s, 1, n)) = Firsts(s, n)
         /\ Firsts(s, n) \subseteq S
<1>1. s \in Seq(S) /\ Len(s) = size
  OBVIOUS
<1>2. 1..n \subseteq 1..size
  OBVIOUS
<1>3. QED
  BY <1>1, <1>2, ElemsPrefix DEF Firsts

LEMMA ListPrefixItems ==
  ASSUME NEW S, NEW size \in Nat, NEW s \in [1..size -> S], NEW n \in 0..size,
         NEW m \in 1..n
  PROVE  SubSeq(s, 1, n)[m] = s[m]
<1>1. s \in Seq(S) /\ Len(s) = size
  OBVIOUS
<1>2. QED
  BY <1>1, ElemsPrefix

LEMMA ElemsConcat ==
  ASSUME NEW S, NEW s \in Seq(S), NEW t \in Seq(S)
  PROVE  /\ s \o t \in Seq(S)
         /\ Len(s \o t) = Len(s) + Len(t)
         /\ Elems(s \o t) \subseteq Elems(s) \cup Elems(t)
<1>1. /\ s \o t \in Seq(S)
      /\ Len(s \o t) = Len(s) + Len(t)
      /\ \A n \in 1..(Len(s) + Len(t)) :
           (s \o t)[n] = IF n <= Len(s) THEN s[n] ELSE t[n - Len(s)]
  BY ConcatProperties
<1>2. Len(s) \in Nat /\ Len(t) \in Nat
  BY LenProperties
<1>3. \A n \in 1..(Len(s) + Len(t)) :
        IF n <= Len(s) THEN n \in 1..Len(s) ELSE n - Len(s) \in 1..Len(t)
  BY <1>2
<1>4. QED
  BY <1>1, <1>3 DEF Elems

-----------------------------------------------------------------------------
(* Types *)

\* One more of something bounded.
LEMMA OneMore ==
  ASSUME NEW max \in Nat, NEW n \in 0..max, n < max
  PROVE  n + 1 \in 0..max
OBVIOUS

LEMMA BoundsAreNat ==
  MaxIssued \in Nat /\ MaxRestarts \in Nat /\ MaxDbErrors \in Nat
BY CommandsAssumption DEF CommandsAssumption

LEMMA CallerTypeStep ==
  ASSUME TypeOK, NEW c \in Cmds, CallerStep(c)
  PROVE  TypeOK'
<1> USE DEF TypeOK, RegistryType, Statuses, Pending, Tasks,
            dbVars, callVars, connVars, boundVars, history
<1>1. CASE Issue(c)
  <2>1. issued + 1 \in 0..MaxIssued
    BY <1>1, OneMore, BoundsAreNat DEF Issue
  <2>2. overlapped' \subseteq Cmds \X Cmds
    BY <1>1 DEF Issue
  <2>3. QED
    BY <1>1, <2>1, <2>2 DEF Issue
<1>0. CASE Insert(c)
  BY <1>0 DEF Insert
<1>2. CASE SendNow(c)
  <2>1. CASE Accepts(c)
    <3>1. online[Target[c]] \in Conns
      BY <2>1, CommandsAssumption DEF Accepts, Reaches, IsOnline, CommandsAssumption
    <3>2. Append(outbox[online[Target[c]]], c) \in Seq(Cmds)
      BY <3>1, ElemsAppend
    <3>3. outbox' \in [Conns -> Seq(Cmds)]
      BY <1>2, <2>1, <3>1, <3>2, ZenonT(40) DEF SendNow
    <3>9. handed' \subseteq Cmds \X Conns /\ early' \subseteq Cmds \X Conns
      BY <1>2, <2>1, <3>1 DEF SendNow
    <3>4. waiters' \subseteq Cmds /\ dropped' \subseteq Conns
      BY <1>2, <2>1 DEF SendNow
    <3>5. future' \in [Cmds -> {"none", "pending"} \cup Answers]
      BY <1>2, <2>1 DEF SendNow
    <3>6. task' \in [Cmds -> Tasks]
      BY <1>2, <2>1 DEF SendNow
    <3>7. UNCHANGED <<dbVars, phase, sock, caps, toHub, batch, work, seen,
                      boundVars, online, executed, overlapped>>
      BY <1>2 DEF SendNow
    <3>8. QED
      BY <3>3, <3>9, <3>4, <3>5, <3>6, <3>7
  <2>2. CASE ~Accepts(c)
    <3>1. Reaches(c) => online[Target[c]] \in Conns
      BY CommandsAssumption DEF Reaches, IsOnline, CommandsAssumption
    <3>2. QED
      BY <1>2, <2>2, <3>1 DEF SendNow
  <2>3. QED
    BY <2>1, <2>2
<1>3. CASE MarkSent(c)
  BY <1>3 DEF MarkSent, MarkedSent
<1>4. CASE CallerFails(c)
  <2>1. dbErrors + 1 \in 0..MaxDbErrors
    BY <1>4, OneMore, BoundsAreNat DEF CallerFails
  <2>2. QED
    BY <1>4, <2>1 DEF CallerFails
<1>5. CASE CallerCommit(c)
  BY <1>5 DEF CallerCommit
<1>6. CASE CallerRollback(c)
  BY <1>6 DEF CallerRollback
<1>7. CASE CallerReturns(c)
  BY <1>7 DEF CallerReturns
<1>8. CASE CallerTimesOut(c)
  BY <1>8 DEF CallerTimesOut, Dropped
<1>9. QED
  BY <1>0, <1>1, <1>2, <1>3, <1>4, <1>5, <1>6, <1>7, <1>8 DEF CallerStep

\* The end of a connection, and what a handler does back at its loop.
LEMMA FinishTypes ==
  ASSUME TypeOK, NEW k \in Conns, Finish(k)
  PROVE  /\ RegistryType'
         /\ phase' \in [Conns -> Phases]
         /\ sock' \in [Conns -> {"none", "open", "lost", "closed"}]
         /\ caps' \in [Conns -> SUBSET Cmds]
         /\ outbox' \in [Conns -> Seq(Cmds)]
         /\ toHub' \in [Conns -> Seq(Cmds)]
         /\ handed' \subseteq Cmds \X Conns
         /\ dropped' \subseteq Conns
         /\ early' \subseteq Cmds \X Conns
         /\ overlapped' \subseteq Cmds \X Cmds
<1>1. <<>> \in Seq(Cmds)
  OBVIOUS
<1>2. RegistryType' /\ handed' \subseteq Cmds \X Conns /\ early' \subseteq Cmds \X Conns
  BY DEF TypeOK, RegistryType, Finish, Unregister
<1>3. QED
  BY <1>1, <1>2 DEF TypeOK, Finish, Phases

LEMMA LoopTypes ==
  ASSUME TypeOK, NEW k \in Conns, BackToLoop(k)
  PROVE  /\ RegistryType'
         /\ phase' \in [Conns -> Phases]
         /\ sock' \in [Conns -> {"none", "open", "lost", "closed"}]
         /\ caps' \in [Conns -> SUBSET Cmds]
         /\ outbox' \in [Conns -> Seq(Cmds)]
         /\ toHub' \in [Conns -> Seq(Cmds)]
         /\ handed' \subseteq Cmds \X Conns
         /\ dropped' \subseteq Conns
         /\ early' \subseteq Cmds \X Conns
         /\ overlapped' \subseteq Cmds \X Cmds
<1>1. CASE Finish(k)
  BY <1>1, FinishTypes
<1>2. CASE /\ phase' = [phase EXCEPT ![k] = "loop"]
           /\ UNCHANGED <<sock, caps, outbox, toHub, online, history>>
  BY <1>2 DEF TypeOK, RegistryType, Phases, history
<1>3. QED
  BY <1>1, <1>2 DEF BackToLoop

\* In list, whatever of S is older than an item stands before it.
OlderFirst(list, S) ==
  \A m \in 1..Len(list), c \in S :
    age[c] < age[list[m]] => \E n \in 1..(m - 1) : list[n] = c

\* A prefix of a list that is sorted by age.
LEMMA SortedPrefix ==
  ASSUME TypeOK, NEW S \in SUBSET Cmds, NEW order \in OldestFirst(S),
         NEW n \in 0..Cardinality(S), Cardinality(S) \in Nat
  PROVE  OlderFirst(SubSeq(order, 1, n), S)
<1> DEFINE size == Cardinality(S)
<1>1. /\ order \in [1..size -> S]
      /\ \A c \in S : \E q \in 1..size : order[q] = c
      /\ \A p, q \in 1..size : p < q => age[order[p]] < age[order[q]]
  BY DEF OldestFirst
<1> HIDE DEF size
<1>2. /\ n \in Nat /\ size \in Nat /\ n <= size
      /\ n \in 0..size
  BY DEF size
<1>3. /\ Len(SubSeq(order, 1, n)) = n
      /\ \A m \in 1..n : SubSeq(order, 1, n)[m] = order[m]
  BY <1>1, <1>2, ListPrefix, ListPrefixItems
<1>4. ASSUME NEW m \in 1..n, NEW c \in S, age[c] < age[order[m]]
      PROVE  \E q \in 1..(m - 1) : order[q] = c
  <2>1. PICK q \in 1..size : order[q] = c
    BY <1>1
  <2>2. age[c] \in Int /\ age[order[m]] \in Int /\ m \in 1..size
    BY <1>1, <1>2, BoundsAreNat DEF TypeOK
  <2>3. q # m /\ ~(m < q)
    BY <1>1, <1>4, <2>1, <2>2
  <2>4. q \in 1..(m - 1)
    BY <1>2, <2>2, <2>3
  <2>5. QED
    BY <2>1, <2>4
<1>5. \A m \in 1..n : 1..(m - 1) \subseteq 1..n
  BY <1>2
<1>6. QED
  BY <1>3, <1>4, <1>5 DEF OlderFirst

\* What the second half of resend_pending does: it sends some of what it had
\* selected, oldest first, to the registered connection, and never beyond its
\* capacity.
LEMMA ResendSendEffect ==
  ASSUME TypeOK, ChannelsKnown, NEW k \in Conns, ResendSend(k)
  PROVE  LET cur == online[Owner[k]]
             offered == {c \in batch[k] : Reaches(c)}
         IN  \E accepted \in SUBSET offered :
               /\ batch' = [batch EXCEPT ![k] = accepted]
               /\ handed' = handed \cup (accepted \X {cur})
               /\ dropped' = dropped \cup
                               IF accepted = offered THEN {} ELSE {cur}
               /\ offered # {} => cur \in Conns
               /\ outbox' \in [Conns -> Seq(Cmds)]
               /\ \A j \in Conns :
                    /\ Len(outbox'[j]) <= Capacity
                    /\ Elems(outbox'[j]) \subseteq Elems(outbox[j]) \cup accepted
                    /\ j # cur => outbox'[j] = outbox[j]
               /\ \E added \in Seq(offered) :
                    /\ cur \in Conns => outbox'[cur] = outbox[cur] \o added
                    /\ Elems(added) = accepted
                    /\ OlderFirst(added, offered)
<1> DEFINE cur == online[Owner[k]]
           offered == {c \in batch[k] : Reaches(c)}
           size == Cardinality(offered)
           room == IF cur = NoConn THEN 0 ELSE Capacity - Len(outbox[cur])
           fits == IF size < room THEN size ELSE room
<1>1. PICK order \in OldestFirst(offered) :
        LET accepted == Firsts(order, fits) IN
        /\ batch' = [batch EXCEPT ![k] = accepted]
        /\ outbox' = [j \in Conns |->
                        IF j = cur THEN outbox[j] \o SubSeq(order, 1, fits)
                        ELSE outbox[j]]
        /\ handed' = handed \cup (accepted \X {cur})
        /\ dropped' = dropped \cup IF accepted = offered THEN {} ELSE {cur}
  BY DEF ResendSend, Firsts
<1>2. offered \subseteq Cmds /\ size \in Nat
  BY FS_Subset, FS_CardinalityType, CommandsAssumption
     DEF TypeOK, CommandsAssumption
<1>3. offered # {} => cur \in Conns
  BY CommandsAssumption
     DEF TypeOK, RegistryType, ChannelsKnown, ChannelKnown, Reaches, IsOnline,
         CommandsAssumption
<1>4. cur \in Conns \/ cur = NoConn
  BY CommandsAssumption DEF TypeOK, RegistryType, CommandsAssumption
<1>5. room \in Nat
  <2>1. CASE cur \in Conns
    <3>1. Len(outbox[cur]) \in Nat /\ Len(outbox[cur]) <= Capacity
      BY <2>1, LenProperties DEF TypeOK, ChannelsKnown, ChannelKnown
    <3>2. Capacity \in Nat
      BY CommandsAssumption DEF CommandsAssumption
    <3>3. QED
      BY <2>1, <3>1, <3>2, NoConnAssumption DEF NoConnAssumption
  <2>2. QED
    BY <1>4, <2>1
<1>6. fits \in 0..size /\ fits <= room
  BY <1>2, <1>5
<1> DEFINE accepted == Firsts(order, fits)
<1>7. order \in [1..size -> offered]
  BY <1>1 DEF OldestFirst
<1> HIDE DEF offered, size, fits
<1>9. /\ SubSeq(order, 1, fits) \in Seq(offered)
      /\ Len(SubSeq(order, 1, fits)) = fits
      /\ Elems(SubSeq(order, 1, fits)) = accepted
      /\ accepted \subseteq offered
  BY <1>2, <1>6, <1>7, ListPrefix
<1>10. \A j \in Conns : Len(outbox[j]) \in Nat /\ Capacity \in Nat
  BY LenProperties, CommandsAssumption DEF TypeOK, CommandsAssumption
<1>11. ASSUME NEW j \in Conns
       PROVE  /\ outbox'[j] \in Seq(Cmds)
              /\ Len(outbox'[j]) <= Capacity
              /\ Elems(outbox'[j]) \subseteq Elems(outbox[j]) \cup accepted
  <2>1. outbox[j] \in Seq(Cmds) /\ Len(outbox[j]) <= Capacity
    BY DEF TypeOK, ChannelsKnown, ChannelKnown
  <2>2. CASE j # cur
    BY <1>1, <2>1, <2>2
  <2>3. CASE j = cur
    <3>1. outbox'[j] = outbox[j] \o SubSeq(order, 1, fits)
      BY <1>1, <2>3
    <3>2. SubSeq(order, 1, fits) \in Seq(Cmds)
      BY <1>2, <1>9, SeqMonotonic
    <3>3. /\ outbox[j] \o SubSeq(order, 1, fits) \in Seq(Cmds)
          /\ Len(outbox[j] \o SubSeq(order, 1, fits))
               = Len(outbox[j]) + Len(SubSeq(order, 1, fits))
          /\ Elems(outbox[j] \o SubSeq(order, 1, fits))
               \subseteq Elems(outbox[j]) \cup Elems(SubSeq(order, 1, fits))
      BY <2>1, <3>2, ElemsConcat
    <3>4. Len(outbox[j]) + fits <= Capacity
      <4>1. room = Capacity - Len(outbox[j])
        BY <2>3, NoConnAssumption DEF NoConnAssumption
      <4> HIDE DEF room
      <4>2. QED
        BY <1>2, <1>6, <1>10, <4>1
    <3>5. QED
      BY <1>9, <3>1, <3>3, <3>4
  <2>4. QED
    BY <2>2, <2>3
<1>12. outbox' \in [Conns -> Seq(Cmds)]
  BY <1>1, <1>11
<1>13. OlderFirst(SubSeq(order, 1, fits), offered)
  BY <1>1, <1>2, <1>6, SortedPrefix DEF size
<1>14. /\ cur \in Conns =>
            outbox'[cur] = outbox[cur] \o SubSeq(order, 1, fits)
       /\ \A j \in Conns : j # cur => outbox'[j] = outbox[j]
  BY <1>1
<1>15. QED
  BY <1>1, <1>3, <1>9, <1>11, <1>12, <1>13, <1>14 DEF offered

\* A result that travels, or is in hand, is one the agent produced.
LEMMA HeadAnswered ==
  ASSUME TypeOK, ChannelsKnown, NEW k \in Conns, toHub[k] # <<>>
  PROVE  /\ Head(toHub[k]) \in Cmds
         /\ executed[Head(toHub[k])] \in Answers
<1>1. Head(toHub[k]) \in Cmds /\ Head(toHub[k]) \in Elems(toHub[k])
  BY ElemsTail DEF TypeOK
<1>2. QED
  BY <1>1 DEF TypeOK, ChannelsKnown, ChannelKnown

LEMMA HandAnswered ==
  ASSUME TypeOK, ChannelsKnown, NEW k \in Conns,
         phase[k] \in {"handling", "storing"}
  PROVE  work[k] \in Cmds /\ executed[work[k]] \in Answers
BY DEF TypeOK, ChannelsKnown, ChannelKnown

LEMMA ChannelTypeStep ==
  ASSUME TypeOK, ChannelsKnown, NEW k \in Conns, ChannelStep(k)
  PROVE  TypeOK'
<1> USE DEF TypeOK, Statuses, Pending, Phases,
            dbVars, callVars, connVars, boundVars, history
<1>1. CASE ResendSelect(k)
  BY <1>1 DEF ResendSelect, RegistryType
<1>2. CASE ResendSend(k)
  <2>1. /\ outbox' \in [Conns -> Seq(Cmds)]
        /\ batch' \in [Conns -> SUBSET Cmds]
        /\ handed' \subseteq Cmds \X Conns
        /\ dropped' \subseteq Conns
    <3> DEFINE cur == online[Owner[k]]
               offered == {c \in batch[k] : Reaches(c)}
    <3>1. PICK accepted \in SUBSET offered :
            /\ batch' = [batch EXCEPT ![k] = accepted]
            /\ handed' = handed \cup (accepted \X {cur})
            /\ dropped' = dropped \cup
                            IF accepted = offered THEN {} ELSE {cur}
            /\ offered # {} => cur \in Conns
            /\ outbox' \in [Conns -> Seq(Cmds)]
      BY <1>2, ResendSendEffect
    <3>2. offered \subseteq Cmds
      OBVIOUS
    <3> HIDE DEF cur, offered
    <3>3. QED
      BY <3>1, <3>2
  <2>2. QED
    BY <1>2, <2>1 DEF ResendSend, RegistryType
<1>3. CASE ResendMark(k)
  <2>1. row' \in [Cmds -> Statuses] /\ batch' \in [Conns -> SUBSET Cmds]
    BY <1>3 DEF ResendMark, MarkedSent
  <2>2. QED
    BY <1>3, <2>1, LoopTypes DEF ResendMark
<1>4. CASE Receive(k)
  <2>1. /\ Head(toHub[k]) \in Cmds
        /\ executed[Head(toHub[k])] \in Answers
        /\ Tail(toHub[k]) \in Seq(Cmds)
    BY <1>4, HeadAnswered, ElemsTail DEF Receive
  <2>2. QED
    BY <1>4, <2>1 DEF Receive, Dropped, RegistryType
<1>5. CASE ReadRow(k)
  BY <1>5, HandAnswered DEF ReadRow, RegistryType
<1>6. CASE StoreResult(k)
  <2>1. /\ row' \in [Cmds -> Statuses]
        /\ work' \in [Conns -> Cmds \cup {NoCmd}]
        /\ seen' \in [Conns -> Statuses]
    BY <1>6, HandAnswered DEF StoreResult, Stored
  <2>2. QED
    BY <1>6, <2>1, LoopTypes DEF StoreResult
<1>7. CASE StoreFails(k)
  <2>1. dbErrors + 1 \in 0..MaxDbErrors
    BY <1>7, OneMore, BoundsAreNat DEF StoreFails
  <2>2. QED
    BY <1>7, <2>1, LoopTypes DEF StoreFails
<1>8. CASE ChannelEnds(k)
  BY <1>8, FinishTypes DEF ChannelEnds
<1>9. QED
  BY <1>1, <1>2, <1>3, <1>4, <1>5, <1>6, <1>7, <1>8 DEF ChannelStep

\* The network, the agent and time.
EnvStep ==
  \/ \E c \in Cmds : Elapse(c)
  \/ \E k \in Conns : Connect(k) \/ Deliver(k) \/ LoseLink(k)
  \/ ExpireSweep
  \/ Restart

LEMMA EnvTypeStep ==
  ASSUME TypeOK, EnvStep
  PROVE  TypeOK'
<1> USE DEF TypeOK, RegistryType, Statuses, Pending, Tasks, Phases,
            dbVars, callVars, connVars, boundVars, history
<1>1. ASSUME NEW c \in Cmds, Elapse(c) PROVE TypeOK'
  BY <1>1 DEF Elapse
<1>2. ASSUME NEW k \in Conns, Connect(k) PROVE TypeOK'
  <2>1. caps' \in [Conns -> SUBSET Cmds]
    <3>1. PICK S \in CapSets : caps' = [caps EXCEPT ![k] = S]
      BY <1>2 DEF Connect
    <3>2. S \in SUBSET Cmds
      BY CommandsAssumption DEF CommandsAssumption
    <3>3. QED
      BY <3>1, <3>2
  <2>2. online' \in [Instances -> Conns \cup {NoConn}]
    BY <1>2 DEF Connect, Register
  <2>3. /\ phase' \in [Conns -> Phases]
        /\ sock' \in [Conns -> {"none", "open", "lost", "closed"}]
    BY <1>2 DEF Connect
  <2>4. QED
    BY <1>2, <2>1, <2>2, <2>3 DEF Connect
<1>3. ASSUME NEW k \in Conns, Deliver(k) PROVE TypeOK'
  <2>1. Head(outbox[k]) \in Cmds /\ Tail(outbox[k]) \in Seq(Cmds)
    BY <1>3, ElemsTail DEF Deliver
  <2>2. Append(toHub[k], Head(outbox[k])) \in Seq(Cmds)
    BY <2>1, ElemsAppend
  <2>3. outbox' \in [Conns -> Seq(Cmds)] /\ toHub' \in [Conns -> Seq(Cmds)]
    BY <1>3, <2>1, <2>2 DEF Deliver
  <2>4. executed' \in [Cmds -> {"none"} \cup Answers]
    <3>1. CASE sock[k] = "open"
      <4>1. PICK r \in Results :
              executed' = [executed EXCEPT ![Head(outbox[k])] =
                             IF @ = "none" THEN r ELSE @]
        BY <1>3, <3>1 DEF Deliver
      <4>2. r \in Answers
        BY CommandsAssumption DEF Answers, CommandsAssumption
      <4>3. QED
        BY <2>1, <4>1, <4>2
    <3>2. CASE sock[k] # "open"
      BY <1>3, <3>2 DEF Deliver
    <3>3. QED
      BY <3>1, <3>2
  <2>5. QED
    BY <1>3, <2>3, <2>4 DEF Deliver
<1>4. ASSUME NEW k \in Conns, LoseLink(k) PROVE TypeOK'
  <2>1. PICK n \in 0..Len(toHub[k]) :
          toHub' = [toHub EXCEPT ![k] = SubSeq(@, 1, n)]
    BY <1>4 DEF LoseLink
  <2>2. SubSeq(toHub[k], 1, n) \in Seq(Cmds)
    BY ElemsPrefix
  <2>3. QED
    BY <1>4, <2>1, <2>2 DEF LoseLink
<1>5. CASE ExpireSweep
  BY <1>5 DEF ExpireSweep, Swept
<1>6. CASE Restart
  <2>1. restarts + 1 \in 0..MaxRestarts
    BY <1>6, OneMore, BoundsAreNat DEF Restart
  <2>2. <<>> \in Seq(Cmds)
    OBVIOUS
  <2>3. RegistryType'
    BY <1>6 DEF Restart, EmptyRegistry
  <2>4. QED
    BY <1>6, <2>1, <2>2, <2>3 DEF Restart
<1>7. QED
  BY <1>1, <1>2, <1>3, <1>4, <1>5, <1>6 DEF EnvStep

LEMMA NextCases ==
  Next <=> \/ \E c \in Cmds : CallerStep(c)
           \/ \E k \in Conns : ChannelStep(k)
           \/ EnvStep
BY DEF Next, EnvStep

LEMMA TypeStep == TypeOK /\ ChannelsKnown /\ [Next]_vars => TypeOK'
<1> SUFFICES ASSUME TypeOK, ChannelsKnown, [Next]_vars PROVE TypeOK'
  OBVIOUS
<1>1. CASE Next
  BY <1>1, NextCases, CallerTypeStep, ChannelTypeStep, EnvTypeStep
<1>2. CASE UNCHANGED vars
  BY <1>2 DEF vars, dbVars, callVars, connVars, boundVars, history,
              TypeOK, RegistryType
<1>3. QED
  BY <1>1, <1>2
-----------------------------------------------------------------------------
(* Rows and what travels *)

\* A row, once inserted, stays; so does the agent's cached result, and a
\* deadline that has passed; only an insert brings a row about.
Growth ==
  \A c \in Cmds :
    /\ row[c] # "none" => row'[c] # "none"
    /\ executed[c] # "none" => executed'[c] = executed[c]
    /\ c \in overdue => c \in overdue'
    /\ row[c] = "none" /\ row'[c] # "none"
         => task[c] = "creating" /\ task'[c] = "inserted"

LEMMA CallerRowsStep ==
  ASSUME TypeOK, RowsKnown, NEW c \in Cmds, CallerStep(c)
  PROVE  RowsKnown' /\ Growth
<1> USE DEF TypeOK, RowsKnown, Growth, Answers, Pending, dbVars
<1>1. CASE Issue(c) \/ Insert(c)
  BY <1>1 DEF Issue, Insert
<1>2. CASE SendNow(c)
  BY <1>2 DEF SendNow
<1>3. CASE MarkSent(c)
  BY <1>3 DEF MarkSent, MarkedSent
<1>4. CASE CallerFails(c) \/ CallerRollback(c)
  BY <1>4 DEF CallerFails, CallerRollback
<1>5. CASE CallerCommit(c)
  BY <1>5 DEF CallerCommit
<1>6. CASE CallerReturns(c) \/ CallerTimesOut(c)
  BY <1>6 DEF CallerReturns, CallerTimesOut
<1>7. QED
  BY <1>1, <1>2, <1>3, <1>4, <1>5, <1>6 DEF CallerStep

LEMMA ChannelRowsStep ==
  ASSUME TypeOK, RowsKnown, ChannelsKnown, NEW k \in Conns, ChannelStep(k)
  PROVE  RowsKnown' /\ Growth
<1> USE DEF TypeOK, RowsKnown, Growth, Answers, Pending, dbVars, callVars
<1>1. CASE ResendSelect(k) \/ ResendSend(k)
  BY ZenonT(40), <1>1 DEF ResendSelect, ResendSend
<1>2. CASE ResendMark(k)
  BY <1>2 DEF ResendMark, MarkedSent
<1>3. CASE Receive(k) \/ ReadRow(k)
  BY <1>3 DEF Receive, ReadRow
<1>4. CASE StoreResult(k)
  <2>1. /\ work[k] \in Cmds /\ executed[work[k]] \in Answers
        /\ row[work[k]] # "none"
    BY <1>4, HandAnswered DEF StoreResult
  <2>2. /\ row' = [row EXCEPT ![work[k]] = row'[work[k]]]
        /\ row'[work[k]] \in {row[work[k]], executed[work[k]]}
    BY <1>4, <2>1 DEF StoreResult, Stored
  <2>3. UNCHANGED <<task, overdue, executed>>
    BY <1>4 DEF StoreResult
  <2>4. QED
    BY <2>1, <2>2, <2>3
<1>5. CASE StoreFails(k) \/ ChannelEnds(k)
  BY <1>5 DEF StoreFails, ChannelEnds
<1>6. QED
  BY <1>1, <1>2, <1>3, <1>4, <1>5 DEF ChannelStep

LEMMA EnvRowsStep ==
  ASSUME TypeOK, RowsKnown, ChannelsKnown, EnvStep
  PROVE  RowsKnown' /\ Growth
<1> USE DEF TypeOK, RowsKnown, Growth, Answers, Pending, dbVars, callVars
<1>1. ASSUME NEW c \in Cmds, Elapse(c) PROVE RowsKnown' /\ Growth
  BY <1>1 DEF Elapse
<1>2. ASSUME NEW k \in Conns, Connect(k) \/ LoseLink(k)
      PROVE  RowsKnown' /\ Growth
  BY <1>2 DEF Connect, LoseLink
<1>3. ASSUME NEW k \in Conns, Deliver(k) PROVE RowsKnown' /\ Growth
  <2>1. Head(outbox[k]) \in Cmds /\ row[Head(outbox[k])] # "none"
    BY <1>3, ElemsTail DEF Deliver, ChannelsKnown, ChannelKnown
  <2>2. \A c \in Cmds : executed'[c] # executed[c] =>
          c = Head(outbox[k]) /\ executed[c] = "none"
    BY <1>3, <2>1 DEF Deliver
  <2>3. UNCHANGED <<row, task, overdue>>
    BY <1>3 DEF Deliver
  <2>4. QED
    BY <2>1, <2>2, <2>3
<1>4. CASE ExpireSweep
  BY <1>4 DEF ExpireSweep, Swept, Expirable
<1>5. CASE Restart
  BY <1>5 DEF Restart
<1>6. QED
  BY <1>1, <1>2, <1>3, <1>4, <1>5 DEF EnvStep

LEMMA RowsStep ==
  TypeOK /\ RowsKnown /\ ChannelsKnown /\ [Next]_vars => RowsKnown' /\ Growth
<1> SUFFICES ASSUME TypeOK, RowsKnown, ChannelsKnown, [Next]_vars
             PROVE  RowsKnown' /\ Growth
  OBVIOUS
<1>1. CASE Next
  BY <1>1, NextCases, CallerRowsStep, ChannelRowsStep, EnvRowsStep
<1>2. CASE UNCHANGED vars
  BY <1>2 DEF vars, dbVars, callVars, RowsKnown, Growth
<1>3. QED
  BY <1>1, <1>2

\* A connection that keeps what it holds, or drops some of it, stays known.
LEMMA ChannelKept ==
  ASSUME TypeOK, Growth, NEW k \in Conns, ChannelKnown(k),
         batch'[k] \subseteq batch[k],
         outbox'[k] \in {outbox[k], <<>>},
         toHub'[k] \in {toHub[k], <<>>},
         \/ phase'[k] \notin {"handling", "storing"}
         \/ phase'[k] = phase[k] /\ work'[k] = work[k]
  PROVE  ChannelKnown(k)'
<1>1. /\ batch[k] \subseteq Cmds
      /\ Elems(outbox[k]) \subseteq Cmds
      /\ Elems(toHub[k]) \subseteq Cmds
  BY ElemsTyped DEF TypeOK
<1>2. Len(<<>>) <= Capacity
  BY CommandsAssumption DEF CommandsAssumption
<1>3. QED
  BY <1>1, <1>2, ElemsEmpty DEF ChannelKnown, Growth

LEMMA CallerChannelsStep ==
  ASSUME TypeOK, RowsKnown, ChannelsKnown, Growth, NEW c \in Cmds, CallerStep(c)
  PROVE  ChannelsKnown'
<1> SUFFICES ASSUME NEW k \in Conns PROVE ChannelKnown(k)'
  BY DEF ChannelsKnown
<1>1. ChannelKnown(k)
  BY DEF ChannelsKnown
<1>2. CASE SendNow(c) /\ Accepts(c) /\ k = online[Target[c]]
  <2>1. /\ outbox'[k] = Append(outbox[k], c)
        /\ row[c] # "none" /\ UNCHANGED row
    BY <1>2 DEF SendNow, TypeOK, RowsKnown, dbVars
  <2>2. Len(outbox[k]) \in Nat /\ Len(outbox[k]) < Capacity /\ Capacity \in Nat
    BY <1>2, LenProperties, CommandsAssumption
       DEF Accepts, TypeOK, CommandsAssumption
  <2>3. /\ Len(outbox'[k]) = Len(outbox[k]) + 1
        /\ Elems(outbox'[k]) \subseteq Elems(outbox[k]) \cup {c}
    BY <2>1, ElemsAppend DEF TypeOK
  <2>4. Len(outbox'[k]) <= Capacity
    BY <2>2, <2>3
  <2>5. UNCHANGED <<batch, toHub, phase, work, executed>>
    BY <1>2 DEF SendNow
  <2>6. QED
    BY <1>1, <2>1, <2>3, <2>4, <2>5 DEF ChannelKnown
<1>3. CASE ~(SendNow(c) /\ Accepts(c) /\ k = online[Target[c]])
  <2>1. UNCHANGED <<batch, toHub, phase, work>>
    BY DEF CallerStep, Issue, Insert, SendNow, MarkSent, CallerFails, CallerCommit,
           CallerRollback, CallerReturns, CallerTimesOut, connVars
  <2>2. outbox'[k] = outbox[k]
    BY <1>3 DEF CallerStep, Issue, Insert, SendNow, MarkSent, CallerFails,
                CallerCommit, CallerRollback, CallerReturns, CallerTimesOut,
                connVars, TypeOK
  <2>3. QED
    BY <1>1, <2>1, <2>2, ChannelKept
<1>4. QED
  BY <1>2, <1>3

LEMMA LoopKeeps ==
  ASSUME TypeOK, NEW k \in Conns, BackToLoop(k) \/ Finish(k), NEW j \in Conns
  PROVE  /\ outbox'[j] \in {outbox[j], <<>>}
         /\ toHub'[j] \in {toHub[j], <<>>}
         /\ IF j = k THEN phase'[j] \in {"loop", "ended"}
                     ELSE phase'[j] = phase[j]
BY DEF TypeOK, BackToLoop, Finish

LEMMA ChannelChannelsStep ==
  ASSUME TypeOK, ChannelsKnown, Growth, NEW k \in Conns, ChannelStep(k)
  PROVE  ChannelsKnown'
<1> SUFFICES ASSUME NEW j \in Conns PROVE ChannelKnown(j)'
  BY DEF ChannelsKnown
<1>1. ChannelKnown(j)
  BY DEF ChannelsKnown
<1>2. CASE ResendSelect(k)
  <2>1. \A c \in batch'[j] : Target[c] = Owner[j] /\ row'[c] # "none"
    BY <1>1, <1>2 DEF ResendSelect, ChannelKnown, Unanswered, Pending, TypeOK,
                      dbVars
  <2>2. /\ UNCHANGED <<row, outbox, toHub, work, executed>>
        /\ phase'[j] \in {phase[j], "selected"}
    BY <1>2 DEF ResendSelect, TypeOK, dbVars
  <2>3. QED
    BY <1>1, <2>1, <2>2 DEF ChannelKnown
<1>3. CASE ResendSend(k)
  <2>1. PICK accepted \in SUBSET {c \in batch[k] : Reaches(c)} :
          /\ batch' = [batch EXCEPT ![k] = accepted]
          /\ Len(outbox'[j]) <= Capacity
          /\ Elems(outbox'[j]) \subseteq Elems(outbox[j]) \cup accepted
    BY <1>3, ResendSendEffect
  <2>2. \A c \in accepted : c \in batch[k] /\ row[c] # "none"
    BY DEF ChannelsKnown, ChannelKnown
  <2>3. batch'[j] \subseteq batch[j]
    BY <2>1, <2>2 DEF TypeOK
  <2>4. /\ UNCHANGED <<row, toHub, work, executed>>
        /\ phase'[j] \in {phase[j], "marking"}
    BY <1>3 DEF ResendSend, TypeOK, dbVars
  <2>5. QED
    BY <1>1, <2>1, <2>2, <2>3, <2>4 DEF ChannelKnown
<1>4. CASE Receive(k)
  <2>1. CASE j = k
    <3>1. /\ Head(toHub[k]) \in Cmds
          /\ executed[Head(toHub[k])] # "none"
      BY <1>4, HeadAnswered DEF Receive, Answers
    <3>2. Elems(Tail(toHub[k])) \subseteq Elems(toHub[k])
      BY <1>4, ElemsTail DEF Receive, TypeOK
    <3>3. /\ toHub'[k] = Tail(toHub[k]) /\ work'[k] = Head(toHub[k])
          /\ UNCHANGED <<row, batch, outbox, executed>>
      BY <1>4 DEF Receive, TypeOK, dbVars
    <3>4. QED
      BY <1>1, <2>1, <3>1, <3>2, <3>3 DEF ChannelKnown
  <2>2. CASE j # k
    <3>1. /\ toHub'[j] = toHub[j] /\ work'[j] = work[j]
          /\ phase'[j] = phase[j] /\ UNCHANGED <<batch, outbox>>
      BY <1>4, <2>2 DEF Receive, TypeOK
    <3>2. QED
      BY <1>1, <3>1, ChannelKept
  <2>3. QED
    BY <2>1, <2>2
<1>5. CASE ReadRow(k)
  <2>1. /\ UNCHANGED <<row, batch, outbox, toHub, work, executed>>
        /\ phase'[j] \in {"handling", "storing"} =>
             phase[j] \in {"handling", "storing"}
    BY <1>5 DEF ReadRow, TypeOK, dbVars
  <2>2. QED
    BY <1>1, <2>1 DEF ChannelKnown
<1>6. CASE ResendMark(k) \/ StoreResult(k) \/ StoreFails(k) \/ ChannelEnds(k)
  <2>1. BackToLoop(k) \/ Finish(k)
    BY <1>6 DEF ResendMark, StoreResult, StoreFails, ChannelEnds
  <2>2. batch'[j] \subseteq batch[j] /\ (j # k => work'[j] = work[j])
    BY <1>6 DEF ResendMark, StoreResult, StoreFails, ChannelEnds, TypeOK
  <2>3. QED
    BY <1>1, <2>1, <2>2, LoopKeeps, ChannelKept
<1>7. QED
  BY <1>2, <1>3, <1>4, <1>5, <1>6 DEF ChannelStep

LEMMA EnvChannelsStep ==
  ASSUME TypeOK, ChannelsKnown, Growth, EnvStep
  PROVE  ChannelsKnown'
<1> SUFFICES ASSUME NEW j \in Conns PROVE ChannelKnown(j)'
  BY DEF ChannelsKnown
<1>1. ChannelKnown(j)
  BY DEF ChannelsKnown
<1>2. CASE (\E c \in Cmds : Elapse(c)) \/ ExpireSweep
  BY <1>1, <1>2, ChannelKept DEF Elapse, ExpireSweep, connVars
<1>3. ASSUME NEW k \in Conns, Connect(k) PROVE ChannelKnown(j)'
  <2>1. /\ UNCHANGED <<batch, outbox, toHub, work>>
        /\ phase'[j] \in {phase[j], "registered"}
    BY <1>3 DEF Connect, TypeOK
  <2>2. QED
    BY <1>1, <2>1, ChannelKept
<1>4. ASSUME NEW k \in Conns, Deliver(k) PROVE ChannelKnown(j)'
  <2>1. UNCHANGED <<row, batch, phase, work>>
    BY <1>4 DEF Deliver, dbVars
  <2>2. CASE j # k
    <3>1. outbox'[j] = outbox[j] /\ toHub'[j] = toHub[j]
      BY <1>4, <2>2 DEF Deliver, TypeOK
    <3>2. QED
      BY <1>1, <2>1, <3>1, ChannelKept
  <2>3. CASE j = k
    <3> DEFINE c == Head(outbox[k])
    <3>1. /\ c \in Cmds
          /\ Len(outbox[k]) \in Nat
          /\ Len(Tail(outbox[k])) = Len(outbox[k]) - 1
          /\ Elems(Tail(outbox[k])) \subseteq Elems(outbox[k])
      BY <1>4, ElemsTail, LenProperties DEF Deliver, TypeOK
    <3>2. outbox'[k] = Tail(outbox[k])
      BY <1>4 DEF Deliver, TypeOK
    <3>3. Len(outbox'[k]) <= Capacity
      <4>1. Len(outbox[k]) <= Capacity /\ Capacity \in Nat
        BY <1>1, <2>3, CommandsAssumption DEF ChannelKnown, CommandsAssumption
      <4>2. QED
        BY <3>1, <3>2, <4>1
    <3>4. \A d \in Elems(toHub'[k]) : executed'[d] # "none"
      <4>1. Elems(toHub[k]) \subseteq Cmds
        BY ElemsTyped DEF TypeOK
      <4>2. \A d \in Elems(toHub[k]) : executed'[d] # "none"
        BY <1>1, <2>3, <4>1 DEF ChannelKnown, Growth
      <4>3. CASE sock[k] = "open"
        <5>1. PICK r \in Results :
                executed' = [executed EXCEPT ![c] =
                               IF @ = "none" THEN r ELSE @]
          BY <1>4, <4>3 DEF Deliver
        <5>2. r # "none"
          BY CommandsAssumption DEF CommandsAssumption
        <5>3. executed'[c] # "none"
          BY <3>1, <5>1, <5>2 DEF TypeOK
        <5>4. toHub'[k] = Append(toHub[k], c)
          BY <1>4, <4>3 DEF Deliver, TypeOK
        <5>5. Elems(Append(toHub[k], c)) \subseteq Elems(toHub[k]) \cup {c}
          BY <3>1, ElemsAppend DEF TypeOK
        <5> HIDE DEF c
        <5>6. QED
          BY <4>2, <5>3, <5>4, <5>5
      <4>4. CASE sock[k] # "open"
        BY <1>4, <4>2, <4>4 DEF Deliver
      <4>5. QED
        BY <4>3, <4>4
    <3>5. phase'[j] \in {"handling", "storing"} => executed'[work[j]] # "none"
      BY <1>1, <2>1 DEF ChannelKnown, Growth
    <3>6. QED
      BY <1>1, <2>1, <2>3, <3>1, <3>2, <3>3, <3>4, <3>5 DEF ChannelKnown
  <2>4. QED
    BY <2>2, <2>3
<1>5. ASSUME NEW k \in Conns, LoseLink(k) PROVE ChannelKnown(j)'
  <2>1. UNCHANGED <<row, executed, batch, outbox, phase, work>>
    BY <1>5 DEF LoseLink, dbVars
  <2>2. Elems(toHub'[j]) \subseteq Elems(toHub[j])
    <3>1. PICK n \in 0..Len(toHub[k]) :
            toHub' = [toHub EXCEPT ![k] = SubSeq(@, 1, n)]
      BY <1>5 DEF LoseLink
    <3>2. Elems(SubSeq(toHub[k], 1, n)) \subseteq Elems(toHub[k])
      BY ElemsPrefix DEF TypeOK
    <3>3. QED
      BY <3>1, <3>2 DEF TypeOK
  <2>3. QED
    BY <1>1, <2>1, <2>2 DEF ChannelKnown
<1>6. CASE Restart
  BY <1>1, <1>6, ChannelKept DEF Restart
<1>7. QED
  BY <1>2, <1>3, <1>4, <1>5, <1>6 DEF EnvStep

LEMMA ChannelsStep ==
  TypeOK /\ RowsKnown /\ ChannelsKnown /\ [Next]_vars => ChannelsKnown'
<1> SUFFICES ASSUME TypeOK, RowsKnown, ChannelsKnown, [Next]_vars
             PROVE  ChannelsKnown'
  OBVIOUS
<1>1. Growth
  BY RowsStep
<1>2. CASE Next
  BY <1>1, <1>2, NextCases, CallerChannelsStep, ChannelChannelsStep,
     EnvChannelsStep
<1>3. CASE UNCHANGED vars
  BY <1>3 DEF vars, dbVars, connVars, ChannelsKnown, ChannelKnown
<1>4. QED
  BY <1>2, <1>3
-----------------------------------------------------------------------------
(* The refinement of CommandLifecycle *)

Lawful(from, to) ==
  \/ to = from
  \/ from = "none" /\ to = "queued"
  \/ from = "queued" /\ to = "sent"
  \/ from \in Pending /\ to = "expired"
  \/ from \in Pending \cup {"expired"} /\ to \in Answers

\* What happens to the row of a command that run_command issued: the only
\* action that writes a row without looking, CallerCommit, is not for it.
LEMMA RunRowMoves ==
  ASSUME TypeOK, RowsKnown, ChannelsKnown, Next, NEW c \in RunCmds
  PROVE  Lawful(row[c], row'[c])
<1>0. c \in Cmds
  BY CommandsAssumption DEF CommandsAssumption
<1> USE <1>0 DEF TypeOK, Lawful
<1>1. ASSUME NEW d \in Cmds, CallerStep(d) PROVE Lawful(row[c], row'[c])
  <2>1. CASE Insert(d)
    BY <2>1 DEF Insert, RowsKnown
  <2>2. CASE MarkSent(d)
    BY <2>2 DEF MarkSent, MarkedSent
  <2>3. CASE CallerCommit(d)
    BY <2>3 DEF CallerCommit, RowsKnown
  <2>4. CASE UNCHANGED row
    BY <2>4
  <2>5. QED
    BY <1>1, <2>1, <2>2, <2>3, <2>4
       DEF CallerStep, Issue, SendNow, CallerFails, CallerRollback, CallerReturns,
           CallerTimesOut, dbVars
<1>2. ASSUME NEW k \in Conns, ChannelStep(k) PROVE Lawful(row[c], row'[c])
  <2>1. CASE ResendMark(k)
    BY <2>1 DEF ResendMark, MarkedSent
  <2>2. CASE StoreResult(k)
    <3>1. /\ work[k] \in Cmds /\ executed[work[k]] \in Answers
          /\ row' = Stored(work[k], seen[k])
      BY <2>2, HandAnswered DEF StoreResult
    <3>2. CASE c # work[k]
      BY <3>1, <3>2 DEF Stored
    <3>3. CASE c = work[k]
      <4>1. row'[c] \in {row[c], executed[c]}
        BY <3>1, <3>3 DEF Stored
      <4>2. row[c] \in Answers => executed[c] = row[c]
        BY DEF RowsKnown
      <4>3. row[c] # "none"
        BY <3>1, <3>3 DEF RowsKnown, Answers
      <4>4. QED
        BY <3>1, <3>3, <4>1, <4>2, <4>3 DEF Statuses
    <3>4. QED
      BY <3>2, <3>3
  <2>3. CASE UNCHANGED row
    BY <2>3
  <2>4. QED
    BY <1>2, <2>1, <2>2, <2>3
       DEF ChannelStep, ResendSelect, ResendSend, Receive, ReadRow, StoreFails,
           ChannelEnds, dbVars
<1>3. CASE EnvStep
  <2>1. CASE ExpireSweep
    BY <2>1 DEF ExpireSweep, Swept, Expirable
  <2>2. CASE UNCHANGED row
    BY <2>2
  <2>3. QED
    BY <1>3, <2>1, <2>2
       DEF EnvStep, Elapse, Connect, Deliver, LoseLink, Restart, dbVars
<1>4. QED
  BY <1>1, <1>2, <1>3, NextCases

LEMMA LawfulMoves ==
  ASSUME NEW from, NEW to, Lawful(from, to), to # from
  PROVE  <<from, to>> \in RunLifecycle!Moves
BY DEF Lawful, RunLifecycle!Moves, RunLifecycle!Open, RunLifecycle!Answered,
       Pending, Answers

LEMMA LifecycleStep ==
  TypeOK /\ TypeOK' /\ RowsKnown /\ ChannelsKnown /\ [Next]_vars
    => [RunLifecycle!Next]_([c \in RunCmds |-> row[c]])
<1> SUFFICES ASSUME TypeOK, TypeOK', RowsKnown, ChannelsKnown, [Next]_vars
             PROVE  [RunLifecycle!Next]_([c \in RunCmds |-> row[c]])
  OBVIOUS
<1>1. CASE Next
  <2>1. \A c \in RunCmds : row'[c] # row[c]
          => <<row[c], row'[c]>> \in RunLifecycle!Moves
    BY <1>1, RunRowMoves, LawfulMoves
  <2>2. [c \in RunCmds |-> row'[c]] \in [RunCmds -> RunLifecycle!Statuses]
    BY CommandsAssumption
       DEF TypeOK, CommandsAssumption, Statuses, RunLifecycle!Statuses, Pending,
           Answers, RunLifecycle!Open, RunLifecycle!Answered
  <2>3. RunLifecycle!Next
    BY <2>1, <2>2 DEF RunLifecycle!Next
  <2>4. QED
    BY <2>3
<1>2. CASE UNCHANGED vars
  BY <1>2 DEF vars, dbVars
<1>3. QED
  BY <1>1, <1>2

-----------------------------------------------------------------------------
LEMMA InitTyped ==
  ASSUME Init
  PROVE  TypeOK /\ RowsKnown /\ ChannelsKnown
<1>1. 0 \in 0..MaxIssued /\ 0 \in 0..MaxRestarts /\ 0 \in 0..MaxDbErrors
  BY BoundsAreNat
<1>2. TypeOK
  BY <1>1 DEF Init, TypeOK, RegistryType, EmptyRegistry, Statuses, Pending,
              Tasks, Phases
<1>3. RowsKnown
  BY DEF Init, RowsKnown, Answers
<1>4. ChannelsKnown
  BY ElemsEmpty, CommandsAssumption
     DEF Init, ChannelsKnown, ChannelKnown, CommandsAssumption
<1>5. QED
  BY <1>2, <1>3, <1>4

Known == TypeOK /\ RowsKnown /\ ChannelsKnown

LEMMA KnownAlways == Spec => []Known
<1>1. Init => Known
  BY InitTyped DEF Known
<1>2. Known /\ [Next]_vars => Known'
  BY TypeStep, RowsStep, ChannelsStep DEF Known
<1>3. QED
  BY <1>1, <1>2, PTL DEF Spec

\* In every reachable state each variable of the dispatcher has its type: no
\* row takes a status the column does not know, whatever is stored in it.
THEOREM CommandsTyped == Spec => []TypeOK
<1>1. Known => TypeOK
  BY DEF Known
<1>2. QED
  BY <1>1, KnownAlways, PTL

\* The dispatcher implements the lifecycle of the Command table for the rows
\* of run_command, for any number of commands, connections and restarts.
THEOREM RunLifecycleCorrect == Spec => RunLifecycleHolds
<1>1. Init => RunLifecycle!Init
  BY CommandsAssumption DEF Init, RunLifecycle!Init, CommandsAssumption
<1>2. Known /\ Known' /\ [Next]_vars
        => [RunLifecycle!Next]_([c \in RunCmds |-> row[c]])
  BY LifecycleStep DEF Known
<1>3. QED
  BY <1>1, <1>2, KnownAlways, PTL DEF Spec, RunLifecycleHolds, RunLifecycle!Spec

\* A step takes an answer of c back, or opens its expired row again.
Undone(c) ==
  \/ row[c] \in Answers /\ row'[c] # row[c]
  \/ row[c] = "expired" /\ row'[c] \notin {"expired"} \cup Answers

\* Of all that writes rows, for any command and whoever issued it, only the
\* late flush of queue_command's own copy takes an answer back or reopens an
\* expired row without one: _mark_sent, the sweep, and the results of any
\* number of connections never do.
THEOREM OnlyCommitUndoes ==
  Spec => [][\A c \in Cmds : Undone(c) => c \in QueueCmds /\ CallerCommit(c)]_vars
<1>1. ASSUME Known, [Next]_vars, NEW c \in Cmds, Undone(c)
      PROVE  c \in QueueCmds /\ CallerCommit(c)
  <2> USE DEF Answers, Undone
  <2>1. TypeOK /\ RowsKnown /\ ChannelsKnown
    BY <1>1 DEF Known
  <2>2. ASSUME NEW d \in Cmds, CallerStep(d)
        PROVE  c \in QueueCmds /\ CallerCommit(c)
    <3>1. CASE Insert(d)
      BY <1>1, <2>1, <3>1 DEF Insert, TypeOK, RowsKnown
    <3>2. CASE MarkSent(d)
      BY <1>1, <2>1, <3>2 DEF MarkSent, MarkedSent, TypeOK
    <3>3. CASE CallerCommit(d)
      <4>1. d = c
        BY <1>1, <2>1, <3>3 DEF CallerCommit, TypeOK
      <4>2. c \notin RunCmds
        BY <2>1, <3>3, <4>1 DEF CallerCommit, RowsKnown
      <4>3. QED
        BY <3>3, <4>1, <4>2 DEF QueueCmds
    <3>4. CASE UNCHANGED row
      BY <1>1, <3>4
    <3>5. QED
      BY <2>2, <3>1, <3>2, <3>3, <3>4
         DEF CallerStep, Issue, SendNow, CallerFails, CallerRollback,
             CallerReturns, CallerTimesOut, dbVars
  <2>3. ASSUME NEW k \in Conns, ChannelStep(k) PROVE FALSE
    <3>1. CASE ResendMark(k)
      BY <1>1, <2>1, <3>1 DEF ResendMark, MarkedSent, TypeOK
    <3>2. CASE StoreResult(k)
      <4>1. row'[c] \in {row[c], executed[c]}
        BY <2>1, <3>2, HandAnswered DEF StoreResult, Stored, TypeOK
      <4>2. row[c] \in Answers => executed[c] = row[c]
        BY <2>1 DEF RowsKnown
      <4>3. row'[c] # row[c] => row'[c] \in Answers
        BY <2>1, <3>2, HandAnswered DEF StoreResult, Stored, TypeOK
      <4>4. QED
        BY <1>1, <4>1, <4>2, <4>3
    <3>3. CASE UNCHANGED row
      BY <1>1, <3>3
    <3>4. QED
      BY <2>3, <3>1, <3>2, <3>3
         DEF ChannelStep, ResendSelect, ResendSend, Receive, ReadRow, StoreFails,
             ChannelEnds, dbVars
  <2>4. CASE EnvStep
    <3>1. CASE ExpireSweep
      BY <1>1, <2>1, <3>1 DEF ExpireSweep, Swept, Expirable, Pending, TypeOK
    <3>2. CASE UNCHANGED row
      BY <1>1, <3>2
    <3>3. QED
      BY <2>4, <3>1, <3>2
         DEF EnvStep, Elapse, Connect, Deliver, LoseLink, Restart, dbVars
  <2>5. CASE UNCHANGED vars
    BY <1>1, <2>5 DEF vars, dbVars
  <2>6. QED
    BY <1>1, <2>2, <2>3, <2>4, <2>5, NextCases
<1>2. Known /\ [Next]_vars =>
        \A c \in Cmds : Undone(c) => c \in QueueCmds /\ CallerCommit(c)
  BY <1>1
<1>3. QED
  BY <1>2, KnownAlways, PTL DEF Spec

\* What run_command got from its future is the agent's answer.
FuturesKnown ==
  \A c \in Cmds : future[c] \in Answers => future[c] = executed[c]

LEMMA FuturesStep ==
  Known /\ FuturesKnown /\ [Next]_vars => FuturesKnown'
<1> SUFFICES ASSUME Known, FuturesKnown, [Next]_vars, NEW c \in Cmds,
                    future'[c] \in Answers
             PROVE  future'[c] = executed'[c]
  BY DEF FuturesKnown
<1>1. TypeOK /\ ChannelsKnown /\ Growth
  BY RowsStep DEF Known
<1>2. future[c] = future'[c] => future'[c] = executed'[c]
  BY <1>1 DEF FuturesKnown, Growth, Answers
<1>3. ASSUME NEW k \in Conns, Receive(k), future'[c] # future[c]
      PROVE  future'[c] = executed'[c]
  <2>1. Head(toHub[k]) \in Cmds /\ toHub[k] # <<>>
    BY <1>1, <1>3, HeadAnswered DEF Receive
  <2>2. future'[c] = executed[c] /\ executed' = executed
    BY <1>1, <1>3, <2>1 DEF Receive, TypeOK
  <2>3. QED
    BY <2>2
<1>4. ASSUME NEW d \in Cmds, CallerStep(d) PROVE future'[c] = future[c]
  <2>1. CASE SendNow(d)
    BY <1>1, <2>1 DEF SendNow, TypeOK, Answers
  <2>2. CASE CallerTimesOut(d)
    BY <1>1, <2>2 DEF CallerTimesOut, TypeOK, Answers
  <2>3. CASE UNCHANGED future
    BY <2>3
  <2>4. QED
    BY <1>4, <2>1, <2>2, <2>3
       DEF CallerStep, Issue, Insert, MarkSent, CallerFails, CallerCommit,
           CallerRollback, CallerReturns
<1>5. ASSUME NEW k \in Conns, ChannelStep(k), ~Receive(k)
      PROVE  future'[c] = future[c]
  BY <1>5 DEF ChannelStep, ResendSelect, ResendSend, ResendMark, ReadRow,
              StoreResult, StoreFails, ChannelEnds, callVars
<1>6. CASE EnvStep
  <2>1. CASE Restart
    <3>1. future'[c] = IF future[c] = "pending" THEN "none" ELSE future[c]
      BY <2>1 DEF Restart
    <3>2. QED
      BY <1>2, <3>1 DEF Answers
  <2>2. CASE UNCHANGED future
    BY <1>2, <2>2
  <2>3. QED
    BY <1>6, <2>1, <2>2
       DEF EnvStep, Elapse, Connect, Deliver, LoseLink, ExpireSweep, callVars
<1>7. CASE UNCHANGED vars
  BY <1>2, <1>7 DEF vars, callVars
<1>8. QED
  BY <1>2, <1>3, <1>4, <1>5, <1>6, <1>7, NextCases

\* The safety half of ReturnedIsRecorded: whatever else the table says of a
\* command whose result run_command returned, it never says another result,
\* nor does it have a result the agent did not produce.
THEOREM ReturnedAgrees ==
  Spec => [](\A c \in Cmds : future[c] \in Answers =>
               /\ future[c] = executed[c]
               /\ row[c] \in Answers => row[c] = future[c])
<1>1. Init => FuturesKnown
  BY DEF Init, FuturesKnown, Answers
<1>2. Known /\ FuturesKnown =>
        \A c \in Cmds : future[c] \in Answers =>
          /\ future[c] = executed[c]
          /\ row[c] \in Answers => row[c] = future[c]
  BY DEF Known, RowsKnown, FuturesKnown
<1>3. QED
  BY <1>1, <1>2, FuturesStep, KnownAlways, PTL DEF Spec
-----------------------------------------------------------------------------
(* The registry, and what a registered connection holds *)

\* The end of a handler takes its own entry away and no other.
LEMMA FinishUnregisters ==
  ASSUME TypeOK, RegisteredRuns, NEW k \in Conns, Finish(k), NEW i \in Instances
  PROVE  /\ online'[i] # k
         /\ online'[i] \in {online[i], NoConn}
<1>1. online[i] = k => Owner[k] = i
  BY NoConnAssumption DEF RegisteredRuns, IsOnline, NoConnAssumption
<1>2. online'[i] = IF i = Owner[k] /\ online[i] = k THEN NoConn ELSE online[i]
  BY DEF Finish, Unregister, TypeOK, RegistryType
<1>3. QED
  BY <1>1, <1>2, NoConnAssumption DEF NoConnAssumption

LEMMA RegisteredStep ==
  TypeOK /\ RegisteredRuns /\ [Next]_vars => RegisteredRuns'
<1> SUFFICES ASSUME TypeOK, RegisteredRuns, [Next]_vars,
                    NEW i \in Instances, online'[i] # NoConn
             PROVE  /\ Owner[online'[i]] = i
                    /\ phase'[online'[i]] \notin {"unused", "ended"}
  BY DEF RegisteredRuns, IsOnline
<1>1. online[i] # NoConn =>
        /\ online[i] \in Conns /\ Owner[online[i]] = i
        /\ phase[online[i]] \notin {"unused", "ended"}
  BY DEF RegisteredRuns, IsOnline, TypeOK, RegistryType
<1>2. CASE UNCHANGED <<online, phase>>
  BY <1>1, <1>2
<1>3. ASSUME NEW k \in Conns, ChannelStep(k), ~Finish(k)
      PROVE  /\ Owner[online'[i]] = i
             /\ phase'[online'[i]] \notin {"unused", "ended"}
  <2>1. /\ UNCHANGED online
        /\ \A j \in Conns : phase'[j] \in {phase[j], "selected", "marking", "loop",
                                          "handling", "storing"}
    BY <1>3 DEF ChannelStep, ResendSelect, ResendSend, ResendMark, Receive,
                ReadRow, StoreResult, StoreFails, ChannelEnds, BackToLoop,
                TypeOK
  <2>2. QED
    BY <1>1, <2>1
<1>4. ASSUME NEW k \in Conns, Finish(k)
      PROVE  /\ Owner[online'[i]] = i
             /\ phase'[online'[i]] \notin {"unused", "ended"}
  <2>1. online'[i] = online[i] /\ online[i] # k
    BY <1>4, FinishUnregisters
  <2>2. phase'[online[i]] = phase[online[i]]
    BY <1>1, <1>4, <2>1 DEF Finish, TypeOK
  <2>3. QED
    BY <1>1, <2>1, <2>2
<1>5. ASSUME NEW k \in Conns, Connect(k)
      PROVE  /\ Owner[online'[i]] = i
             /\ phase'[online'[i]] \notin {"unused", "ended"}
  <2>1. /\ online'[i] = IF i = Owner[k] THEN k ELSE online[i]
        /\ phase' = [phase EXCEPT ![k] = "registered"]
    BY <1>5 DEF Connect, Register, TypeOK, RegistryType
  <2>2. QED
    BY <1>1, <2>1 DEF TypeOK
<1>6. CASE Restart
  BY <1>6 DEF Restart, EmptyRegistry
<1>7. ASSUME NEW c \in Cmds, CallerStep(c) PROVE UNCHANGED <<online, phase>>
  BY <1>7 DEF CallerStep, Issue, Insert, SendNow, MarkSent, CallerFails, CallerCommit,
              CallerRollback, CallerReturns, CallerTimesOut, connVars
<1>8. ASSUME NEW k \in Conns, Deliver(k) \/ LoseLink(k)
      PROVE  UNCHANGED <<online, phase>>
  BY <1>8 DEF Deliver, LoseLink
<1>9. ASSUME (\E c \in Cmds : Elapse(c)) \/ ExpireSweep
      PROVE  UNCHANGED <<online, phase>>
  BY <1>9 DEF Elapse, ExpireSweep, connVars
<1>10. UNCHANGED vars => UNCHANGED <<online, phase>>
  BY DEF vars, connVars
<1>11. QED
  BY <1>2, <1>3, <1>4, <1>5, <1>6, <1>7, <1>8, <1>9, <1>10, NextCases DEF EnvStep

\* A row that is open now was open before, or was just inserted.
LEMMA OpenBefore ==
  ASSUME TypeOK, RowsKnown, TypeOK', RowsKnown', Growth, NEW c \in Cmds,
         row'[c] \in Pending, c \notin overdue', executed'[c] = "none"
  PROVE  \/ task'[c] = "inserted"
         \/ row[c] \in Pending /\ c \notin overdue /\ executed[c] = "none"
<1>1. c \notin overdue /\ executed[c] = "none"
  BY DEF Growth, TypeOK, Answers
<1>2. row[c] = "none" => task'[c] = "inserted"
  BY DEF RowsKnown, Growth, Pending
<1>3. QED
  BY <1>1, <1>2 DEF RowsKnown, TypeOK, Statuses, Answers

\* What a step may do to a connection without letting go of a command.
LEMMA HeldKept ==
  ASSUME TypeOK, RowsKnown, TypeOK', RowsKnown', Growth, HeldOrSent,
         NEW c \in Cmds, Outstanding(c)', NEW k, k = online[Target[c]],
         online'[Target[c]] = k, caps'[k] = caps[k], phase[k] # "registered",
         task[c] = "inserted" => task'[c] = "inserted",
         <<c, k>> \in handed => <<c, k>> \in handed',
         k \in dropped => k \in dropped',
         phase[k] = "selected" /\ c \in batch[k]
           => phase'[k] = "selected" /\ c \in batch'[k]
  PROVE  Held(c)'
<1>1. \/ task'[c] = "inserted"
      \/ row[c] \in Pending /\ c \notin overdue /\ executed[c] = "none"
  BY OpenBefore DEF Outstanding
<1>2. Reaches(c)
  BY DEF Outstanding, Reaches, IsOnline
<1>3. CASE task'[c] = "inserted"
  BY <1>3 DEF Held
<1>4. CASE row[c] \in Pending /\ c \notin overdue /\ executed[c] = "none"
  <2>1. Held(c)
    BY <1>2, <1>4 DEF HeldOrSent, Outstanding
  <2>2. QED
    BY <2>1 DEF Held
<1>5. QED
  BY <1>1, <1>3, <1>4

LEMMA CallerHeldStep ==
  ASSUME TypeOK, RowsKnown, TypeOK', RowsKnown', Growth, HeldOrSent,
         NEW d \in Cmds, CallerStep(d), NEW c \in Cmds, Outstanding(c)',
         phase'[online'[Target[c]]] # "registered"
  PROVE  Held(c)'
<1> DEFINE k == online[Target[c]]
<1>1. /\ UNCHANGED <<online, phase, caps, batch>>
      /\ \A x \in handed : x \in handed'
      /\ \A x \in dropped : x \in dropped'
  BY DEF CallerStep, Issue, Insert, SendNow, MarkSent, CallerFails, CallerCommit,
         CallerRollback, CallerReturns, CallerTimesOut, connVars, history
<1>2. CASE task[c] = "inserted" => task'[c] = "inserted"
  BY <1>1, <1>2, HeldKept
<1>3. CASE task[c] = "inserted" /\ task'[c] # "inserted"
  <2>1. d = c /\ SendNow(c)
    <3>1. \A e \in Cmds : e # d => task'[e] = task[e]
      BY DEF CallerStep, Issue, Insert, SendNow, MarkSent, CallerFails, CallerCommit,
             CallerRollback, CallerReturns, CallerTimesOut, TypeOK
    <3>2. d = c /\ task[d] = "inserted"
      BY <1>3, <3>1
    <3>3. SendNow(d)
      BY <3>2 DEF CallerStep, Issue, Insert, MarkSent, CallerFails, CallerCommit,
                  CallerRollback, CallerReturns, CallerTimesOut
    <3>4. QED
      BY <3>2, <3>3
  <2>2. Reaches(c)
    BY <1>1 DEF Outstanding, Reaches, IsOnline
  <2>3. <<c, k>> \in handed' \/ k \in dropped'
    BY <2>1, <2>2 DEF SendNow
  <2>4. QED
    BY <1>1, <2>3 DEF Held
<1>4. QED
  BY <1>2, <1>3

\* The same for a connection that ends, and one that goes back to its loop.
LEMMA FinishHeld ==
  ASSUME TypeOK, RowsKnown, TypeOK', RowsKnown', Growth, RegisteredRuns,
         HeldOrSent, NEW k \in Conns, Finish(k), UNCHANGED task,
         \A j \in Conns : j # k => batch'[j] = batch[j],
         NEW c \in Cmds, Outstanding(c)',
         phase'[online'[Target[c]]] # "registered"
  PROVE  Held(c)'
<1> DEFINE j == online[Target[c]]
<1>1. Target[c] \in Instances
  BY CommandsAssumption DEF CommandsAssumption
<1>2. j \in Conns /\ j # k /\ online'[Target[c]] = j
  <2>1. online'[Target[c]] # NoConn
    BY DEF Outstanding, Reaches, IsOnline
  <2>2. online'[Target[c]] # k /\ online'[Target[c]] = online[Target[c]]
    BY <1>1, <2>1, FinishUnregisters
  <2>3. online[Target[c]] \in Conns
    BY <1>1, <2>1, <2>2 DEF TypeOK, RegistryType
  <2>4. QED
    BY <2>2, <2>3
<1>3. /\ caps'[j] = caps[j] /\ phase'[j] = phase[j]
      /\ batch'[j] = batch[j]
      /\ <<c, j>> \in handed => <<c, j>> \in handed'
      /\ j \in dropped => j \in dropped'
  BY <1>2 DEF Finish, TypeOK
<1> HIDE DEF j
<1>4. j = online[Target[c]] /\ phase[j] # "registered"
  BY <1>2, <1>3 DEF j
<1>5. QED
  BY <1>2, <1>3, <1>4, HeldKept

LEMMA LoopHeld ==
  ASSUME TypeOK, RowsKnown, TypeOK', RowsKnown', Growth, RegisteredRuns,
         HeldOrSent, NEW k \in Conns, BackToLoop(k), UNCHANGED task,
         phase[k] \notin {"registered", "selected"},
         \A j \in Conns : j # k => batch'[j] = batch[j],
         NEW c \in Cmds, Outstanding(c)',
         phase'[online'[Target[c]]] # "registered"
  PROVE  Held(c)'
<1>1. CASE Finish(k)
  BY <1>1, FinishHeld
<1>2. CASE /\ phase' = [phase EXCEPT ![k] = "loop"]
           /\ UNCHANGED <<sock, caps, outbox, toHub, online, history>>
  <2> DEFINE j == online[Target[c]]
  <2>1. j \in Conns
    BY <1>2, CommandsAssumption
       DEF Outstanding, Reaches, IsOnline, TypeOK, RegistryType, CommandsAssumption
  <2>2. /\ j \in Conns /\ online'[Target[c]] = j /\ caps'[j] = caps[j]
        /\ phase[j] # "registered"
        /\ UNCHANGED <<handed, dropped>>
    BY <1>2, <2>1 DEF TypeOK, history
  <2>3. phase[j] = "selected" => j # k /\ phase'[j] = "selected"
                                 /\ batch'[j] = batch[j]
    BY <1>2, <2>1 DEF TypeOK
  <2> HIDE DEF j
  <2>4. j = online[Target[c]]
    BY DEF j
  <2>5. QED
    BY <2>2, <2>3, <2>4, HeldKept
<1>3. QED
  BY <1>1, <1>2 DEF BackToLoop

LEMMA ChannelHeldStep ==
  ASSUME TypeOK, RowsKnown, ChannelsKnown, TypeOK', RowsKnown', Growth,
         RegisteredRuns, HeldOrSent, NEW k \in Conns, ChannelStep(k),
         NEW c \in Cmds, Outstanding(c)',
         phase'[online'[Target[c]]] # "registered"
  PROVE  Held(c)'
<1> DEFINE j == online[Target[c]]
<1>1. j = online[Target[c]]
  OBVIOUS
<1>2. ASSUME UNCHANGED online
      PROVE  j \in Conns /\ Owner[j] = Target[c]
  BY <1>2, CommandsAssumption
     DEF Outstanding, Reaches, IsOnline, TypeOK, RegistryType, RegisteredRuns,
         CommandsAssumption
<1> HIDE DEF j
<1>3. CASE ResendSelect(k)
  <2>1. /\ UNCHANGED <<online, caps, task, handed, dropped, row, overdue>>
        /\ batch'[k] = {d \in Cmds : Unanswered(Owner[k], d)}
        /\ phase' = [phase EXCEPT ![k] = "selected"]
        /\ batch' = [batch EXCEPT ![k] = batch'[k]]
    BY <1>3 DEF ResendSelect, callVars, dbVars, history, TypeOK
  <2>2. j \in Conns /\ Owner[j] = Target[c]
    BY <1>2, <2>1
  <2>3. CASE j = k
    <3>1. c \in batch'[k]
      BY <2>1, <2>2, <2>3 DEF Unanswered, Outstanding
    <3>2. QED
      BY <1>1, <2>1, <2>3, <3>1 DEF Held, TypeOK
  <2>4. CASE j # k
    <3>1. phase'[j] = phase[j] /\ batch'[j] = batch[j]
      BY <2>1, <2>2, <2>4 DEF TypeOK
    <3>2. QED
      BY <1>1, <2>1, <3>1, HeldKept
  <2>5. QED
    BY <2>3, <2>4
<1>4. CASE ResendSend(k)
  <2>1. PICK accepted \in SUBSET {d \in batch[k] : Reaches(d)} :
          /\ batch' = [batch EXCEPT ![k] = accepted]
          /\ handed' = handed \cup (accepted \X {online[Owner[k]]})
          /\ dropped' = dropped \cup
               IF accepted = {d \in batch[k] : Reaches(d)} THEN {}
               ELSE {online[Owner[k]]}
    BY <1>4, ResendSendEffect
  <2>2. /\ UNCHANGED <<online, caps, task>>
        /\ phase[k] = "selected"
        /\ phase' = [phase EXCEPT ![k] = "marking"]
    BY <1>4 DEF ResendSend, callVars
  <2>3. j \in Conns /\ Owner[j] = Target[c]
    BY <1>2, <2>2
  <2>4. handed \subseteq handed' /\ dropped \subseteq dropped'
    BY <2>1
  <2>5. CASE j = k /\ c \in batch[k]
    <3>1. online[Owner[k]] = k /\ Reaches(c)
      BY <1>1, <2>2, <2>3, <2>5 DEF Outstanding, Reaches, IsOnline
    <3>2. <<c, k>> \in handed' \/ k \in dropped'
      BY <2>1, <2>5, <3>1
    <3>3. QED
      BY <1>1, <2>2, <2>5, <3>2 DEF Held
  <2>6. CASE j # k \/ c \notin batch[k]
    <3>1. phase[j] = "selected" /\ c \in batch[j]
            => phase'[j] = "selected" /\ c \in batch'[j]
      BY <2>1, <2>2, <2>3, <2>6 DEF TypeOK
    <3>2. phase[j] # "registered"
      BY <1>1, <2>2, <2>3 DEF TypeOK
    <3>3. QED
      BY <1>1, <2>2, <2>4, <3>1, <3>2, HeldKept
  <2>7. QED
    BY <2>5, <2>6
<1>5. CASE ResendMark(k) \/ StoreResult(k) \/ StoreFails(k)
  <2>1. /\ BackToLoop(k) /\ UNCHANGED task
        /\ phase[k] \notin {"registered", "selected"}
        /\ \A i \in Conns : i # k => batch'[i] = batch[i]
    BY <1>5 DEF ResendMark, StoreResult, StoreFails, callVars, TypeOK
  <2>2. QED
    BY <2>1, LoopHeld
<1>6. CASE ChannelEnds(k)
  <2>1. Finish(k) /\ UNCHANGED <<task, batch>>
    BY <1>6 DEF ChannelEnds, callVars
  <2>2. QED
    BY <2>1, FinishHeld
<1>7. CASE Receive(k) \/ ReadRow(k)
  <2>1. /\ UNCHANGED <<online, caps, task, handed, dropped, batch>>
        /\ \A i \in Conns : phase'[i] = phase[i] \/
             /\ phase[i] \in {"loop", "handling"}
             /\ phase'[i] \in {"handling", "storing"}
    BY <1>7 DEF Receive, ReadRow, callVars, history, TypeOK
  <2>2. j \in Conns
    BY <1>2, <2>1
  <2>3. QED
    BY <1>1, <2>1, <2>2, HeldKept
<1>8. QED
  BY <1>3, <1>4, <1>5, <1>6, <1>7 DEF ChannelStep

LEMMA EnvHeldStep ==
  ASSUME TypeOK, RowsKnown, TypeOK', RowsKnown', Growth, RegisteredRuns,
         HeldOrSent, EnvStep, NEW c \in Cmds, Outstanding(c)',
         phase'[online'[Target[c]]] # "registered"
  PROVE  Held(c)'
<1> DEFINE j == online[Target[c]]
<1>1. j = online[Target[c]] /\ Target[c] \in Instances
  BY CommandsAssumption DEF CommandsAssumption
<1> HIDE DEF j
<1>2. online'[Target[c]] # NoConn
  BY DEF Outstanding, Reaches, IsOnline
<1>3. CASE UNCHANGED <<online, phase, caps, batch, task, handed, dropped>>
  BY <1>1, <1>3, HeldKept
<1>4. ASSUME NEW k \in Conns, Connect(k) PROVE Held(c)'
  <2>1. /\ online' = [online EXCEPT ![Owner[k]] = k]
        /\ phase[k] = "unused"
        /\ phase' = [phase EXCEPT ![k] = "registered"]
        /\ UNCHANGED <<batch, task, handed, dropped>>
    BY <1>4 DEF Connect, Register, callVars, history
  <2>2. \A i \in Conns : i # k => caps'[i] = caps[i]
    BY <1>4 DEF Connect, TypeOK
  <2>3. Target[c] # Owner[k]
    BY <1>1, <2>1 DEF TypeOK, RegistryType
  <2>4. online'[Target[c]] = j
    BY <1>1, <2>1, <2>3 DEF TypeOK, RegistryType
  <2>5. j \in Conns /\ j # k
    BY <1>1, <1>2, <2>1, <2>4 DEF RegisteredRuns, IsOnline, TypeOK, RegistryType
  <2>6. phase'[j] = phase[j]
    BY <2>1, <2>5 DEF TypeOK
  <2>7. QED
    BY <1>1, <2>1, <2>2, <2>4, <2>5, <2>6, HeldKept
<1>5. CASE Restart
  BY <1>1, <1>2, <1>5 DEF Restart, EmptyRegistry
<1>6. QED
  BY <1>3, <1>4, <1>5
     DEF EnvStep, Elapse, ExpireSweep, Deliver, LoseLink, callVars, connVars,
         history

IndInv == Known /\ RegisteredRuns /\ HeldOrSent

LEMMA IndInvStep == IndInv /\ [Next]_vars => IndInv'
<1> SUFFICES ASSUME IndInv, [Next]_vars PROVE IndInv'
  OBVIOUS
<1>1. /\ TypeOK /\ RowsKnown /\ ChannelsKnown
      /\ TypeOK' /\ RowsKnown' /\ ChannelsKnown' /\ Growth
  BY TypeStep, RowsStep, ChannelsStep DEF IndInv, Known
<1>2. RegisteredRuns /\ RegisteredRuns'
  BY <1>1, RegisteredStep DEF IndInv
<1>3. HeldOrSent
  BY DEF IndInv
<1>4. HeldOrSent'
  <2> SUFFICES ASSUME NEW c \in Cmds, Outstanding(c)',
                      phase'[online'[Target[c]]] # "registered"
               PROVE  Held(c)'
    BY DEF HeldOrSent
  <2>1. CASE Next
    BY <1>1, <1>2, <1>3, <2>1, NextCases, CallerHeldStep, ChannelHeldStep,
       EnvHeldStep
  <2>2. CASE UNCHANGED vars
    BY <1>3, <2>2
       DEF vars, dbVars, callVars, connVars, history, HeldOrSent, Held,
           Outstanding, Reaches, IsOnline
  <2>3. QED
    BY <2>1, <2>2
<1>5. QED
  BY <1>1, <1>2, <1>4 DEF IndInv, Known

LEMMA IndInvInit == Init => IndInv
<1> SUFFICES ASSUME Init PROVE IndInv
  OBVIOUS
<1>1. Known
  BY InitTyped DEF Known
<1>2. \A i \in Instances : ~IsOnline(i)
  BY DEF Init, EmptyRegistry, IsOnline
<1>3. RegisteredRuns
  BY <1>2 DEF RegisteredRuns
<1>4. HeldOrSent
  BY <1>2, CommandsAssumption
     DEF HeldOrSent, Outstanding, Reaches, CommandsAssumption
<1>5. QED
  BY <1>1, <1>3, <1>4 DEF IndInv

\* No command falls between queue_command and resend_pending, for any number
\* of connections, links that break, restarts and failing transactions.
THEOREM NothingForgottenCorrect == Spec => []NothingForgotten
<1>1. Init => IndInv
  BY IndInvInit
<1>2. IndInv => NothingForgotten
  <2> SUFFICES ASSUME IndInv, NEW c \in Cmds, Outstanding(c),
                      PastResend(online[Target[c]])
               PROVE  \/ task[c] = "inserted"
                      \/ <<c, online[Target[c]]>> \in handed
                      \/ online[Target[c]] \in dropped
    BY DEF NothingForgotten, Outstanding
  <2>1. Held(c)
    BY DEF IndInv, HeldOrSent, PastResend
  <2>2. QED
    BY <2>1 DEF Held, PastResend
<1>3. QED
  BY <1>1, <1>2, IndInvStep, PTL DEF Spec
-----------------------------------------------------------------------------
(* The order of execution *)

\* A command the agent has not executed and that is neither answered nor late,
\* older than d and for the same agent.
Older(c, d) ==
  /\ row[c] \in Pending /\ c \notin overdue /\ executed[c] = "none"
  /\ Target[c] = Target[d]
  /\ age[c] < age[d]

\* Why d may be executed before an older c.
Excused(c, d, k) ==
  <<c, d>> \in overlapped \/ <<d, k>> \in early \/ k \in dropped

\* created_at grows, and a caller that has not sent its command yet overlaps
\* with every one that issued later.
AgesKnown ==
  \A c \in Cmds :
    /\ age[c] <= issued
    /\ \A d \in Cmds :
         task[c] \in {"creating", "inserted"} /\ age[c] < age[d]
           => <<c, d>> \in overlapped

\* What resend_pending has in hand leaves no older command out.
BatchesOrdered ==
  \A k \in Conns :
    phase[k] = "selected" =>
      \A d \in batch[k], c \in Cmds :
        Older(c, d) => c \in batch[k] \/ <<c, d>> \in overlapped

\* The outbox of a live link: it is the registered one, what was handed to it
\* and not executed is still in it, and every frame has the older ones before
\* it.
Ahead(c, k, m) == \E n \in 1..(m - 1) : outbox[k][n] = c

QueueOrdered(k) ==
  \A c \in caps[k], m \in 1..Len(outbox[k]) :
    Older(c, outbox[k][m]) => Ahead(c, k, m) \/ Excused(c, outbox[k][m], k)

QueueKnown(k) ==
  /\ online[Owner[k]] = k
  /\ \A d \in Elems(outbox[k]) : Target[d] = Owner[k]
  /\ \A c \in Cmds :
       <<c, k>> \in handed /\ executed[c] = "none" => c \in Elems(outbox[k])
  /\ QueueOrdered(k)

QueuesKnown ==
  \A k \in Conns :
    /\ phase[k] = "unused" =>
         outbox[k] = <<>> /\ \A c \in Cmds : <<c, k>> \notin handed
    /\ sock[k] = "open" => QueueKnown(k)

OrderInv == AgesKnown /\ BatchesOrdered /\ QueuesKnown

\* What a step does to ages and overlaps.
OrderStep ==
  /\ \A c \in Cmds : row'[c] # "none" => age'[c] = age[c]
  /\ overlapped \subseteq overlapped'

LEMMA IssueOrNot ==
  ASSUME TypeOK, [Next]_vars
  PROVE  \/ \E c \in Cmds : Issue(c)
         \/ /\ UNCHANGED <<age, overlapped, issued>>
            /\ \A c \in Cmds : task'[c] \in {"creating", "inserted"} =>
                                 task[c] \in {"creating", "inserted"}
<1> DEFINE Same == /\ UNCHANGED <<age, overlapped, issued>>
                   /\ \A c \in Cmds : task'[c] \in {"creating", "inserted"} =>
                                        task[c] \in {"creating", "inserted"}
<1>1. ASSUME NEW c \in Cmds, CallerStep(c), ~Issue(c) PROVE Same
  <2>1. UNCHANGED <<age, overlapped, issued>>
    BY <1>1 DEF CallerStep, Insert, SendNow, MarkSent, CallerFails,
                CallerCommit, CallerRollback, CallerReturns, CallerTimesOut,
                dbVars, boundVars, history
  <2>2. /\ \A d \in Cmds \ {c} : task'[d] = task[d]
        /\ task'[c] \in {"creating", "inserted"} => task[c] = "creating"
    BY <1>1 DEF CallerStep, Insert, SendNow, MarkSent, CallerFails,
                CallerCommit, CallerRollback, CallerReturns, CallerTimesOut,
                TypeOK
  <2>3. QED
    BY <2>1, <2>2
<1>2. ASSUME NEW k \in Conns, ChannelStep(k) PROVE Same
  BY <1>2 DEF ChannelStep, ResendSelect, ResendSend, ResendMark, Receive,
              ReadRow, StoreResult, StoreFails, ChannelEnds, BackToLoop, Finish,
              dbVars, callVars, boundVars, history
<1>3. CASE EnvStep
  BY <1>3 DEF EnvStep, Elapse, Connect, Deliver, LoseLink, ExpireSweep, Restart,
              dbVars, callVars, boundVars, history, TypeOK
<1>4. CASE UNCHANGED vars
  BY <1>4 DEF vars, dbVars, callVars, boundVars, history
<1>5. QED
  BY <1>1, <1>2, <1>3, <1>4, NextCases

LEMMA AgesStep ==
  TypeOK /\ RowsKnown /\ AgesKnown /\ [Next]_vars => AgesKnown' /\ OrderStep
<1> SUFFICES ASSUME TypeOK, RowsKnown, AgesKnown, [Next]_vars
             PROVE  AgesKnown' /\ OrderStep
  OBVIOUS
<1>1. ASSUME NEW x \in Cmds, Issue(x) PROVE AgesKnown' /\ OrderStep
  <2>1. issued \in Int /\ \A c \in Cmds : age[c] \in Int
    BY BoundsAreNat DEF TypeOK
  <2>2. /\ issued' = issued + 1
        /\ age'[x] = issued + 1
        /\ \A c \in Cmds \ {x} : age'[c] = age[c] /\ task'[c] = task[c]
        /\ row' = row /\ row[x] = "none"
        /\ overlapped' = overlapped \cup
             {<<b, x>> : b \in {b \in Cmds : task[b] \in {"creating", "inserted"}}}
    BY <1>1 DEF Issue, TypeOK, RowsKnown
  <2>3. OrderStep
    BY <2>2 DEF OrderStep
  <2>4. \A c \in Cmds : age'[c] <= issued'
    BY <2>1, <2>2 DEF AgesKnown
  <2>5. ASSUME NEW c \in Cmds, NEW d \in Cmds, age'[c] < age'[d],
               task'[c] \in {"creating", "inserted"}
        PROVE  <<c, d>> \in overlapped'
    <3>1. c # x
      BY <2>1, <2>2, <2>4, <2>5
    <3>2. CASE d = x
      BY <2>2, <2>5, <3>1, <3>2
    <3>3. CASE d # x
      BY <2>2, <2>5, <3>1, <3>3 DEF AgesKnown
    <3>4. QED
      BY <3>2, <3>3
  <2>6. QED
    BY <2>3, <2>4, <2>5 DEF AgesKnown
<1>2. CASE /\ UNCHANGED <<age, overlapped, issued>>
           /\ \A c \in Cmds : task'[c] \in {"creating", "inserted"} =>
                                task[c] \in {"creating", "inserted"}
  BY <1>2 DEF AgesKnown, OrderStep
<1>3. QED
  BY <1>1, <1>2, IssueOrNot

\* What the lemmas below assume of a step.
Regular ==
  /\ TypeOK /\ RowsKnown /\ ChannelsKnown /\ RegisteredRuns /\ HeldOrSent
  /\ AgesKnown
  /\ TypeOK' /\ RowsKnown' /\ AgesKnown'
  /\ Growth /\ OrderStep

\* An older command that is open now was so before, or its caller overlapped.
LEMMA OlderBefore ==
  ASSUME Regular, NEW c \in Cmds, NEW d \in Cmds, row[d] # "none", Older(c, d)'
  PROVE  Older(c, d) \/ <<c, d>> \in overlapped'
<1>1. \/ task'[c] = "inserted"
      \/ row[c] \in Pending /\ c \notin overdue /\ executed[c] = "none"
  BY OpenBefore DEF Regular, Older
<1>2. CASE task'[c] = "inserted"
  BY <1>2 DEF Regular, AgesKnown, Older
<1>3. CASE row[c] \in Pending /\ c \notin overdue /\ executed[c] = "none"
  <2>1. row'[c] # "none" /\ row'[d] # "none"
    BY DEF Regular, Growth, Older, Pending
  <2>2. age'[c] = age[c] /\ age'[d] = age[d]
    BY <2>1 DEF Regular, OrderStep
  <2>3. QED
    BY <1>3, <2>2 DEF Older
<1>4. QED
  BY <1>1, <1>2, <1>3

\* What was said of a frame in the outbox is still so.
LEMMA FrameKept ==
  ASSUME Regular, NEW k \in Conns, QueueKnown(k),
         \A c \in Cmds : <<c, k>> \in early => <<c, k>> \in early',
         k \in dropped => k \in dropped',
         NEW m \in 1..Len(outbox[k]), NEW d, d = outbox[k][m],
         NEW c \in caps[k], Older(c, d)'
  PROVE  Ahead(c, k, m) \/ Excused(c, d, k)'
<1>1. d \in Elems(outbox[k]) /\ d \in Cmds /\ c \in Cmds
  BY ElementOfSeq DEF Elems, Regular, TypeOK
<1>2. row[d] # "none"
  BY <1>1 DEF Regular, ChannelsKnown, ChannelKnown
<1>3. Older(c, d) \/ <<c, d>> \in overlapped'
  BY <1>1, <1>2, OlderBefore
<1>4. Older(c, d) => Ahead(c, k, m) \/ Excused(c, d, k)
  BY DEF QueueKnown, QueueOrdered
<1>5. overlapped \subseteq overlapped'
  BY DEF Regular, OrderStep
<1>6. Excused(c, d, k) \/ <<c, d>> \in overlapped' => Excused(c, d, k)'
  BY <1>1, <1>5 DEF Excused
<1>7. QED
  BY <1>3, <1>4, <1>6

\* A live connection whose outbox a step leaves alone.
LEMMA QueueKept ==
  ASSUME Regular, NEW k \in Conns, QueueKnown(k),
         online'[Owner[k]] = k, outbox'[k] = outbox[k], caps'[k] = caps[k],
         \A c \in Cmds : <<c, k>> \in handed' => <<c, k>> \in handed,
         \A c \in Cmds : <<c, k>> \in early => <<c, k>> \in early',
         k \in dropped => k \in dropped'
  PROVE  QueueKnown(k)'
<1>1. \A c \in Cmds : executed'[c] = "none" => executed[c] = "none"
  BY DEF Regular, Growth
<1>2. ASSUME NEW c \in caps[k], NEW m \in 1..Len(outbox[k]),
             NEW d, d = outbox[k][m], Older(c, d)'
      PROVE  (Ahead(c, k, m) \/ Excused(c, d, k))'
  BY <1>2, FrameKept DEF Ahead
<1>3. QueueOrdered(k)'
  BY <1>2 DEF QueueOrdered
<1>4. QED
  BY <1>1, <1>3 DEF QueueKnown

LEMMA UpToOrAbove ==
  ASSUME NEW n \in Nat, NEW max \in Nat, NEW m \in 1..(n + max)
  PROVE  m <= n \/ m > n
OBVIOUS

LEMMA Below ==
  ASSUME NEW n \in Nat, NEW q \in 1..n, NEW max \in Nat, NEW m \in 1..(n + max),
         m > n
  PROVE  q \in 1..(m - 1)
OBVIOUS

\* Frames that join the outbox of a live connection, each after the older ones.
LEMMA QueueGrown ==
  ASSUME Regular, NEW k \in Conns, QueueKnown(k), NEW added \in Seq(Cmds),
         UNCHANGED <<online, caps, executed>>,
         outbox'[k] = outbox[k] \o added,
         \A c \in Cmds : <<c, k>> \in handed' =>
           <<c, k>> \in handed \/ c \in Elems(added),
         \A c \in Cmds : <<c, k>> \in early => <<c, k>> \in early',
         k \in dropped => k \in dropped',
         \A d \in Elems(added) : Target[d] = Owner[k],
         \A m \in 1..Len(added), c \in caps[k] :
           Older(c, added[m])' => \/ \E n \in 1..(m - 1) : added[n] = c
                                  \/ c \in Elems(outbox[k])
                                  \/ Excused(c, added[m], k)'
  PROVE  QueueKnown(k)'
<1> DEFINE size == Len(outbox[k])
<1>1. outbox[k] \in Seq(Cmds) /\ size \in Nat /\ Len(added) \in Nat
  BY LenProperties DEF Regular, TypeOK
<1>2. /\ Len(outbox'[k]) = size + Len(added)
      /\ \A m \in 1..(size + Len(added)) :
           outbox'[k][m] = IF m <= size THEN outbox[k][m] ELSE added[m - size]
  BY <1>1, ConcatProperties
<1>3. /\ \A m \in 1..size : outbox'[k][m] = outbox[k][m]
      /\ \A m \in 1..Len(added) : outbox'[k][size + m] = added[m]
  BY <1>1, <1>2
<1> HIDE DEF size
<1>4. Elems(outbox'[k]) = Elems(outbox[k]) \cup Elems(added)
  <2>1. Elems(outbox'[k]) \subseteq Elems(outbox[k]) \cup Elems(added)
    BY <1>1, ElemsConcat
  <2>2. 1..size \subseteq 1..(size + Len(added))
    BY <1>1
  <2>3. \A m \in 1..Len(added) : size + m \in 1..(size + Len(added))
    BY <1>1
  <2>4. Elems(outbox[k]) \subseteq Elems(outbox'[k])
    BY <1>2, <1>3, <2>2 DEF Elems, size
  <2>5. ASSUME NEW c \in Elems(added) PROVE c \in Elems(outbox'[k])
    <3>1. PICK p \in 1..Len(added) : added[p] = c
      BY DEF Elems
    <3>2. /\ size + p \in 1..Len(outbox'[k])
          /\ outbox'[k][size + p] = c
      BY <1>2, <1>3, <2>3, <3>1
    <3>3. QED
      BY <3>2 DEF Elems
  <2>6. QED
    BY <2>1, <2>4, <2>5
<1>5. ASSUME NEW c \in caps[k], NEW m \in 1..(size + Len(added)),
             NEW d, d = outbox'[k][m], Older(c, d)'
      PROVE  (\E n \in 1..(m - 1) : outbox'[k][n] = c) \/ Excused(c, d, k)'
  <2>1. CASE m <= size
    <3>1. m \in 1..size /\ d = outbox[k][m] /\ 1..(m - 1) \subseteq 1..size
      BY <1>1, <1>2, <1>5, <2>1
    <3>2. Ahead(c, k, m) \/ Excused(c, d, k)'
      BY <1>5, <3>1, FrameKept DEF size
    <3>3. QED
      BY <1>3, <3>1, <3>2 DEF Ahead
  <2>2. CASE m > size
    <3>1. PICK p \in 1..Len(added) : m = size + p
      <4>1. m - size \in 1..Len(added) /\ m = size + (m - size)
        BY <1>1, <2>2
      <4>2. QED
        BY <4>1
    <3>2. d = added[p]
      BY <1>3, <1>5, <3>1
    <3>3. \/ \E n \in 1..(p - 1) : added[n] = c
          \/ c \in Elems(outbox[k])
          \/ Excused(c, d, k)'
      BY <1>5, <3>2
    <3>4. ASSUME NEW n \in 1..(p - 1), added[n] = c
          PROVE  \E q \in 1..(m - 1) : outbox'[k][q] = c
      <4>1. n \in 1..Len(added) /\ size + n \in 1..(m - 1)
        BY <1>1, <3>1
      <4>2. outbox'[k][size + n] = c
        BY <1>3, <3>4, <4>1
      <4>3. QED
        BY <4>1, <4>2
    <3>5. ASSUME c \in Elems(outbox[k])
          PROVE  \E q \in 1..(m - 1) : outbox'[k][q] = c
      <4>1. PICK q \in 1..size : outbox[k][q] = c
        BY <3>5 DEF Elems, size
      <4>2. q \in 1..(m - 1)
        BY <1>1, <2>2, Below
      <4>3. QED
        BY <1>3, <4>1, <4>2
    <3>6. QED
      BY <3>3, <3>4, <3>5
  <2>3. m <= size \/ m > size
    BY <1>1, UpToOrAbove
  <2>4. QED
    BY <2>1, <2>2, <2>3
<1>6. QueueOrdered(k)'
  BY <1>2, <1>5 DEF QueueOrdered, Ahead
<1>7. QED
  BY <1>4, <1>6 DEF QueueKnown

\* The writer sends the first frame of a live connection: what the agent has
\* not executed now is not that one.
LEMMA QueueShrunk ==
  ASSUME Regular, NEW k \in Conns, QueueKnown(k), outbox[k] # <<>>,
         UNCHANGED <<online, caps, handed, early, dropped>>,
         outbox'[k] = Tail(outbox[k]), executed'[Head(outbox[k])] # "none"
  PROVE  QueueKnown(k)'
<1> DEFINE size == Len(outbox[k])
<1>1. outbox[k] \in Seq(Cmds) /\ size \in Nat
  BY LenProperties DEF Regular, TypeOK
<1>2. /\ Head(outbox[k]) = outbox[k][1]
      /\ Len(outbox'[k]) = size - 1
      /\ \A m \in 1..(size - 1) : outbox'[k][m] = outbox[k][m + 1]
      /\ Elems(outbox'[k]) \subseteq Elems(outbox[k])
  <2>1. /\ Len(Tail(outbox[k])) = size - 1
        /\ \A m \in 1..Len(Tail(outbox[k])) :
             Tail(outbox[k])[m] = outbox[k][m + 1]
    BY <1>1, HeadTailProperties
  <2>2. Elems(Tail(outbox[k])) \subseteq Elems(outbox[k])
    BY <1>1, ElemsTail
  <2>3. QED
    BY <2>1, <2>2
<1> HIDE DEF size
<1>3. ASSUME NEW c \in Cmds, executed'[c] = "none",
             NEW q \in 1..size, outbox[k][q] = c
      PROVE  q - 1 \in 1..(size - 1) /\ outbox'[k][q - 1] = c
  <2>1. q # 1
    BY <1>2, <1>3
  <2>2. q - 1 \in 1..(size - 1) /\ (q - 1) + 1 = q
    BY <1>1, <2>1
  <2>3. QED
    BY <1>2, <1>3, <2>2
<1>4. ASSUME NEW c \in Cmds, <<c, k>> \in handed', executed'[c] = "none"
      PROVE  c \in Elems(outbox'[k])
  <2>1. executed[c] = "none"
    BY <1>4 DEF Regular, Growth
  <2>2. PICK q \in 1..size : outbox[k][q] = c
    BY <1>4, <2>1 DEF QueueKnown, Elems, size
  <2>3. q - 1 \in 1..(size - 1) /\ outbox'[k][q - 1] = c
    BY <1>3, <1>4, <2>2
  <2>4. QED
    BY <1>2, <2>3 DEF Elems
<1>5. ASSUME NEW c \in caps[k], NEW m \in 1..(size - 1),
             NEW d, d = outbox'[k][m], Older(c, d)'
      PROVE  (\E n \in 1..(m - 1) : outbox'[k][n] = c) \/ Excused(c, d, k)'
  <2>1. m + 1 \in 1..size /\ d = outbox[k][m + 1] /\ (m + 1) - 1 = m
    BY <1>1, <1>2, <1>5, SMTT(30)
  <2>2. Ahead(c, k, m + 1) \/ Excused(c, d, k)'
    BY <1>5, <2>1, FrameKept DEF size
  <2>3. ASSUME Ahead(c, k, m + 1)
        PROVE  \E n \in 1..(m - 1) : outbox'[k][n] = c
    <3>1. PICK q \in 1..m : outbox[k][q] = c
      BY <2>1, <2>3 DEF Ahead
    <3>2. c \in Cmds /\ executed'[c] = "none"
      BY <1>5 DEF Older, Regular, TypeOK
    <3>3. q \in 1..size
      BY <1>1
    <3>4. q - 1 \in 1..(size - 1) /\ outbox'[k][q - 1] = c
      BY <1>3, <3>1, <3>2, <3>3
    <3>5. q - 1 \in 1..(m - 1)
      BY <1>1, <3>4
    <3>6. QED
      BY <3>4, <3>5
  <2>4. QED
    BY <2>2, <2>3
<1>6. QueueOrdered(k)'
  BY <1>2, <1>5 DEF QueueOrdered, Ahead
<1>7. QED
  BY <1>2, <1>4, <1>6 DEF QueueKnown

LEMMA SelectedBefore ==
  ASSUME TypeOK, [Next]_vars, NEW k \in Conns, phase'[k] = "selected"
  PROVE  ResendSelect(k) \/ (phase[k] = "selected" /\ batch'[k] = batch[k])
<1> DEFINE Same == phase[k] = "selected" /\ batch'[k] = batch[k]
<1>1. ASSUME NEW c \in Cmds, CallerStep(c) PROVE Same
  BY <1>1 DEF CallerStep, Issue, Insert, SendNow, MarkSent, CallerFails,
              CallerCommit, CallerRollback, CallerReturns, CallerTimesOut,
              connVars
<1>2. ASSUME NEW j \in Conns, ChannelStep(j), ~ResendSelect(k) PROVE Same
  <2>1. CASE j # k
    BY <1>2, <2>1
       DEF ChannelStep, ResendSelect, ResendSend, ResendMark, Receive, ReadRow,
           StoreResult, StoreFails, ChannelEnds, BackToLoop, Finish, TypeOK
  <2>2. CASE j = k
    <3>1. phase'[k] # "selected"
      BY <1>2, <2>2
         DEF ChannelStep, ResendSend, ResendMark, Receive, ReadRow,
             StoreResult, StoreFails, ChannelEnds, BackToLoop, Finish, TypeOK
    <3>2. QED
      BY <3>1
  <2>3. QED
    BY <2>1, <2>2
<1>3. CASE EnvStep
  BY <1>3 DEF EnvStep, Elapse, Connect, Deliver, LoseLink, ExpireSweep, Restart,
              connVars, TypeOK
<1>4. CASE UNCHANGED vars
  BY <1>4 DEF vars, connVars
<1>5. QED
  BY <1>1, <1>2, <1>3, <1>4, NextCases

LEMMA BatchesStep ==
  ASSUME Regular, BatchesOrdered, [Next]_vars
  PROVE  BatchesOrdered'
<1> SUFFICES ASSUME NEW k \in Conns, phase'[k] = "selected",
                    NEW d \in batch'[k], NEW c \in Cmds, Older(c, d)'
             PROVE  c \in batch'[k] \/ <<c, d>> \in overlapped'
  BY DEF BatchesOrdered
<1>1. CASE ResendSelect(k)
  <2>1. /\ batch'[k] = {e \in Cmds : Unanswered(Owner[k], e)}
        /\ UNCHANGED <<row, overdue>>
    BY <1>1 DEF ResendSelect, Regular, TypeOK, dbVars
  <2>2. Target[d] = Owner[k] /\ Target[c] = Target[d]
    BY <2>1 DEF Unanswered, Older
  <2>3. QED
    BY <2>1, <2>2 DEF Unanswered, Older
<1>2. CASE phase[k] = "selected" /\ batch'[k] = batch[k]
  <2>1. d \in Cmds /\ d \in batch[k] /\ row[d] # "none"
    BY <1>2 DEF Regular, TypeOK, ChannelsKnown, ChannelKnown
  <2>2. Older(c, d) \/ <<c, d>> \in overlapped'
    BY <2>1, OlderBefore
  <2>3. Older(c, d) => c \in batch[k] \/ <<c, d>> \in overlapped
    BY <1>2, <2>1 DEF BatchesOrdered
  <2>4. overlapped \subseteq overlapped'
    BY DEF Regular, OrderStep
  <2>5. QED
    BY <1>2, <2>2, <2>3, <2>4
<1>3. QED
  BY <1>1, <1>2, SelectedBefore DEF Regular

\* A connection in use, as far as QueuesKnown is concerned.
QueueAt(k) ==
  /\ phase[k] = "unused" =>
       outbox[k] = <<>> /\ \A c \in Cmds : <<c, k>> \notin handed
  /\ sock[k] = "open" => QueueKnown(k)

\* A step that hands nothing to connection k and leaves its outbox alone.
LEMMA QueueAtKept ==
  ASSUME Regular, NEW k \in Conns, QueueAt(k),
         phase'[k] = "unused" => phase[k] = "unused",
         sock'[k] = "open" => sock[k] = "open",
         online[Owner[k]] = k => online'[Owner[k]] = k,
         outbox'[k] = outbox[k], caps'[k] = caps[k],
         \A c \in Cmds : <<c, k>> \in handed' => <<c, k>> \in handed,
         \A c \in Cmds : <<c, k>> \in early => <<c, k>> \in early',
         k \in dropped => k \in dropped'
  PROVE  QueueAt(k)'
<1>1. CASE sock'[k] = "open"
  <2>1. QueueKnown(k) /\ online[Owner[k]] = k
    BY <1>1 DEF QueueAt, QueueKnown
  <2>2. QueueKnown(k)'
    BY <2>1, QueueKept
  <2>3. QED
    BY <2>2 DEF QueueAt
<1>2. CASE sock'[k] # "open"
  BY <1>2 DEF QueueAt
<1>3. QED
  BY <1>1, <1>2

LEMMA QueuesAt == QueuesKnown <=> \A k \in Conns : QueueAt(k)
BY DEF QueuesKnown, QueueAt

\* A caller's frame: whatever is older and was sent is in the outbox, unless
\* the connection has not done its resend yet.
LEMMA SendQueue ==
  ASSUME Regular, QueuesKnown, NEW d \in Cmds, SendNow(d), Accepts(d),
         NEW k \in Conns, k = online[Target[d]]
  PROVE  QueueAt(k)'
<1>1. /\ task[d] = "inserted"
      /\ outbox' = [outbox EXCEPT ![k] = Append(@, d)]
      /\ handed' = handed \cup {<<d, k>>}
      /\ early' = early \cup IF PastResend(k) THEN {} ELSE {<<d, k>>}
      /\ UNCHANGED <<online, caps, executed, dropped, phase, sock, row, age,
                     overdue, overlapped>>
  BY DEF SendNow, dbVars
<1>2. phase[k] # "unused" /\ Owner[k] = Target[d] /\ Target[d] \in Instances
  BY CommandsAssumption
     DEF Regular, RegisteredRuns, Accepts, Reaches, IsOnline, CommandsAssumption
<1>3. CASE sock[k] = "open"
  <2>1. QueueKnown(k)
    BY <1>3 DEF QueuesKnown
  <2>2. /\ outbox[k] \in Seq(Cmds) /\ <<d>> \in Seq(Cmds)
        /\ Append(outbox[k], d) = outbox[k] \o <<d>>
        /\ Len(<<d>>) = 1 /\ <<d>>[1] = d
    <3>1. outbox[k] \in Seq(Cmds)
      BY DEF Regular, TypeOK
    <3>2. Append(outbox[k], d) = outbox[k] \o <<d>>
      BY <3>1, AppendIsConcat
    <3>3. <<d>> \in Seq(Cmds) /\ Len(<<d>>) = 1 /\ <<d>>[1] = d
      OBVIOUS
    <3>4. QED
      BY <3>1, <3>2, <3>3
  <2>3. Elems(<<d>>) = {d}
    BY <2>2 DEF Elems
  <2>4. outbox'[k] = outbox[k] \o <<d>>
    BY <1>1, <2>2 DEF Regular, TypeOK
  <2>5. ASSUME NEW c \in caps[k], Older(c, d)'
        PROVE  c \in Elems(outbox[k]) \/ Excused(c, d, k)'
    <3>1. Older(c, d) /\ c \in Cmds
      BY <1>1, <2>5 DEF Older, Regular, TypeOK
    <3>2. CASE ~PastResend(k)
      BY <1>1, <3>2 DEF Excused
    <3>3. CASE task[c] = "inserted"
      BY <1>1, <3>1, <3>3 DEF Regular, AgesKnown, Older, Excused
    <3>4. CASE PastResend(k) /\ task[c] # "inserted"
      <4>1. Outstanding(c) /\ online[Target[c]] = k
        BY <3>1, NoConnAssumption
           DEF Outstanding, Reaches, IsOnline, Older, NoConnAssumption
      <4>2. phase[k] \notin {"registered", "selected"}
        BY <3>4 DEF PastResend
      <4>3. <<c, k>> \in handed \/ k \in dropped
        BY <3>1, <3>4, <4>1, <4>2 DEF Regular, HeldOrSent, Held
      <4>4. <<c, k>> \in handed => c \in Elems(outbox[k])
        BY <2>1, <3>1 DEF QueueKnown, Older
      <4>5. QED
        BY <1>1, <4>3, <4>4 DEF Excused
    <3>5. QED
      BY <3>2, <3>3, <3>4
  <2>6. \A m \in 1..Len(<<d>>) : <<d>>[m] = d
    BY <2>2
  <2>7. \A m \in 1..Len(<<d>>), c \in caps[k] :
          Older(c, <<d>>[m])' => \/ \E n \in 1..(m - 1) : <<d>>[n] = c
                                 \/ c \in Elems(outbox[k])
                                 \/ Excused(c, <<d>>[m], k)'
    BY <2>5, <2>6
  <2>8. QueueKnown(k)'
    <3>1. /\ \A c \in Cmds : <<c, k>> \in handed' =>
               <<c, k>> \in handed \/ c \in Elems(<<d>>)
          /\ \A c \in Cmds : <<c, k>> \in early => <<c, k>> \in early'
          /\ k \in dropped => k \in dropped'
          /\ \A e \in Elems(<<d>>) : Target[e] = Owner[k]
      BY <1>1, <1>2, <2>3
    <3>2. QED
      BY <1>1, <2>1, <2>2, <2>4, <2>7, <3>1, QueueGrown
  <2>9. QED
    BY <1>1, <1>2, <2>8 DEF QueueAt
<1>4. CASE sock[k] # "open"
  BY <1>1, <1>2, <1>4 DEF QueueAt
<1>5. QED
  BY <1>3, <1>4

\* What resend_pending sends: whatever is older and not overlapped is in the
\* same list, and stands before it.
LEMMA ResendQueue ==
  ASSUME Regular, BatchesOrdered, QueuesKnown, NEW j \in Conns, ResendSend(j),
         NEW k \in Conns, k = online[Owner[j]]
  PROVE  QueueAt(k)'
<1> DEFINE offered == {c \in batch[j] : Reaches(c)}
<1>1. /\ UNCHANGED <<online, caps, executed, early, sock, row, age, overdue,
                     overlapped>>
      /\ phase[j] = "selected"
      /\ phase' = [phase EXCEPT ![j] = "marking"]
  BY DEF ResendSend, dbVars
<1>2. Owner[k] = Owner[j] /\ Owner[j] \in Instances /\ phase[k] # "unused"
  <2>1. Owner[j] \in Instances /\ IsOnline(Owner[j])
    BY CommandsAssumption, NoConnAssumption
       DEF IsOnline, CommandsAssumption, NoConnAssumption
  <2>2. QED
    BY <2>1 DEF Regular, RegisteredRuns
<1>3. PICK accepted \in SUBSET offered :
        /\ handed' = handed \cup (accepted \X {k})
        /\ dropped \subseteq dropped'
        /\ \E added \in Seq(offered) :
             /\ outbox'[k] = outbox[k] \o added
             /\ Elems(added) = accepted
             /\ OlderFirst(added, offered)
  <2>1. TypeOK /\ ChannelsKnown
    BY DEF Regular
  <2>2. QED
    BY <2>1, ResendSendEffect
<1>4. PICK added \in Seq(offered) :
        /\ outbox'[k] = outbox[k] \o added
        /\ Elems(added) = accepted
        /\ OlderFirst(added, offered)
  BY <1>3
<1>5. /\ offered \subseteq Cmds
      /\ \A c \in offered : c \in batch[j] /\ Target[c] = Owner[j]
  BY DEF Regular, TypeOK, ChannelsKnown, ChannelKnown
<1>6. \A c \in caps[k] : Target[c] = Owner[j] => Reaches(c)
  BY <1>2, NoConnAssumption DEF Reaches, IsOnline, NoConnAssumption
<1>7. \A c \in batch[j] : Reaches(c) => c \in offered
  OBVIOUS
<1> HIDE DEF offered
<1>8. added \in Seq(Cmds)
  BY <1>5, SeqMonotonic
<1>9. \A m \in 1..Len(added) : added[m] \in offered
  BY ElementOfSeq
<1>10. ASSUME NEW m \in 1..Len(added), NEW d, d = added[m], NEW c \in caps[k],
              Older(c, d)'
       PROVE  (\E n \in 1..(m - 1) : added[n] = c) \/ <<c, d>> \in overlapped
  <2>1. d \in batch[j] /\ Target[d] = Owner[j]
    BY <1>5, <1>9, <1>10
  <2>2. Older(c, d) /\ c \in Cmds /\ Target[c] = Owner[j]
    BY <1>1, <1>10, <2>1 DEF Older, Regular, TypeOK
  <2>3. c \in batch[j] \/ <<c, d>> \in overlapped
    BY <1>1, <2>1, <2>2 DEF BatchesOrdered
  <2>4. CASE c \in batch[j]
    <3>1. c \in offered
      BY <1>6, <1>7, <2>2, <2>4
    <3>2. QED
      BY <1>4, <1>10, <2>2, <3>1 DEF OlderFirst, Older
  <2>5. QED
    BY <2>3, <2>4
<1>11. CASE sock[k] = "open"
  <2>1. QueueKnown(k)
    BY <1>11 DEF QueuesKnown
  <2>2. \A m \in 1..Len(added), c \in caps[k] :
          Older(c, added[m])' => \/ \E n \in 1..(m - 1) : added[n] = c
                                 \/ c \in Elems(outbox[k])
                                 \/ Excused(c, added[m], k)'
    BY <1>1, <1>10 DEF Excused
  <2>3. /\ \A c \in Cmds : <<c, k>> \in handed' =>
             <<c, k>> \in handed \/ c \in Elems(added)
        /\ \A c \in Cmds : <<c, k>> \in early => <<c, k>> \in early'
        /\ k \in dropped => k \in dropped'
        /\ \A e \in Elems(added) : Target[e] = Owner[k]
    BY <1>1, <1>2, <1>3, <1>4, <1>5
  <2>4. QueueKnown(k)'
    BY <1>1, <1>4, <1>8, <2>1, <2>2, <2>3, QueueGrown
  <2>5. QED
    BY <1>1, <1>2, <2>4 DEF QueueAt, Regular, TypeOK
<1>12. CASE sock[k] # "open"
  BY <1>1, <1>2, <1>12 DEF QueueAt, Regular, TypeOK
<1>13. QED
  BY <1>11, <1>12

LEMMA CallerQueuesStep ==
  ASSUME Regular, QueuesKnown, NEW d \in Cmds, CallerStep(d), NEW k \in Conns
  PROVE  QueueAt(k)'
<1>1. CASE SendNow(d) /\ Accepts(d) /\ k = online[Target[d]]
  BY <1>1, SendQueue
<1>2. CASE ~(SendNow(d) /\ Accepts(d) /\ k = online[Target[d]])
  <2>1. UNCHANGED <<online, phase, sock, caps>>
    BY DEF CallerStep, Issue, Insert, SendNow, MarkSent, CallerFails, CallerCommit,
           CallerRollback, CallerReturns, CallerTimesOut, connVars
  <2>2. /\ outbox'[k] = outbox[k]
        /\ \A c \in Cmds : <<c, k>> \in handed' => <<c, k>> \in handed
        /\ \A c \in Cmds : <<c, k>> \in early => <<c, k>> \in early'
        /\ k \in dropped => k \in dropped'
    <3>1. CASE SendNow(d)
      BY <1>2, <3>1 DEF SendNow, Regular, TypeOK
    <3>2. CASE ~SendNow(d)
      BY <3>2 DEF CallerStep, Issue, Insert, MarkSent, CallerFails, CallerCommit,
                  CallerRollback, CallerReturns, CallerTimesOut, connVars, history
    <3>3. QED
      BY <3>1, <3>2
  <2>3. QueueAt(k)
    BY QueuesAt
  <2>4. QED
    BY <2>1, <2>2, <2>3, QueueAtKept
<1>3. QED
  BY <1>1, <1>2

LEMMA FinishQueues ==
  ASSUME Regular, QueuesKnown, NEW j \in Conns, Finish(j), NEW k \in Conns
  PROVE  QueueAt(k)'
<1>1. CASE k = j
  BY <1>1 DEF Finish, QueueAt, Regular, TypeOK
<1>2. CASE k # j
  <2>1. /\ phase'[k] = phase[k] /\ sock'[k] = sock[k] /\ caps'[k] = caps[k]
        /\ outbox'[k] = outbox[k]
    BY <1>2 DEF Finish, Regular, TypeOK
  <2>2. online[Owner[k]] = k => online'[Owner[k]] = k
    BY <1>2, CommandsAssumption
       DEF Finish, Unregister, Regular, TypeOK, RegistryType, CommandsAssumption
  <2>3. /\ \A c \in Cmds : <<c, k>> \in handed' => <<c, k>> \in handed
        /\ \A c \in Cmds : <<c, k>> \in early => <<c, k>> \in early'
        /\ k \in dropped => k \in dropped'
    BY <1>2 DEF Finish
  <2>4. QueueAt(k)
    BY QueuesAt
  <2>5. QED
    BY <2>1, <2>2, <2>3, <2>4, QueueAtKept
<1>3. QED
  BY <1>1, <1>2

LEMMA ChannelQueuesStep ==
  ASSUME Regular, BatchesOrdered, QueuesKnown, NEW j \in Conns, ChannelStep(j),
         NEW k \in Conns
  PROVE  QueueAt(k)'
<1>1. QueueAt(k)
  BY QueuesAt
<1>2. CASE Finish(j)
  BY <1>2, FinishQueues
<1>3. CASE ResendSend(j) /\ k = online[Owner[j]]
  BY <1>3, ResendQueue
<1>4. CASE ResendSend(j) /\ k # online[Owner[j]]
  <2>1. /\ UNCHANGED <<online, sock, caps, early>>
        /\ phase' = [phase EXCEPT ![j] = "marking"]
    BY <1>4 DEF ResendSend
  <2>2. TypeOK /\ ChannelsKnown
    BY DEF Regular
  <2>3. /\ outbox'[k] = outbox[k]
        /\ \A c \in Cmds : <<c, k>> \in handed' => <<c, k>> \in handed
        /\ k \in dropped => k \in dropped'
    BY <1>4, <2>2, ResendSendEffect
  <2>4. phase'[k] = "unused" => phase[k] = "unused"
    BY <2>1, <2>2 DEF TypeOK
  <2>5. QED
    BY <1>1, <2>1, <2>3, <2>4, QueueAtKept
<1>5. CASE ~Finish(j) /\ ~ResendSend(j)
  <2>1. UNCHANGED <<online, sock, caps, outbox, history>>
    BY <1>5 DEF ChannelStep, ResendSelect, ResendMark, Receive, ReadRow,
                StoreResult, StoreFails, ChannelEnds, BackToLoop
  <2>2. phase'[k] = "unused" => phase[k] = "unused"
    BY <1>5 DEF ChannelStep, ResendSelect, ResendMark, Receive, ReadRow,
                StoreResult, StoreFails, ChannelEnds, BackToLoop, Regular, TypeOK
  <2>3. QED
    BY <1>1, <2>1, <2>2, QueueAtKept DEF history
<1>6. QED
  BY <1>2, <1>3, <1>4, <1>5

LEMMA DeliverQueue ==
  ASSUME Regular, QueuesKnown, NEW k \in Conns, Deliver(k)
  PROVE  QueueAt(k)'
<1>1. /\ phase[k] # "unused" /\ outbox[k] # <<>>
      /\ outbox'[k] = Tail(outbox[k])
      /\ UNCHANGED <<online, phase, sock, caps, handed, early, dropped>>
  BY DEF Deliver, history, Regular, TypeOK
<1>2. CASE sock[k] = "open"
  <2>1. PICK r \in Results :
          executed' = [executed EXCEPT ![Head(outbox[k])] =
                         IF @ = "none" THEN r ELSE @]
    BY <1>2 DEF Deliver
  <2>2. r # "none"
    BY CommandsAssumption DEF CommandsAssumption
  <2>3. Head(outbox[k]) \in Cmds
    BY <1>1, ElemsTail DEF Regular, TypeOK
  <2>4. executed'[Head(outbox[k])] # "none"
    BY <2>1, <2>2, <2>3 DEF Regular, TypeOK
  <2>5. QueueKnown(k)
    BY <1>2 DEF QueuesKnown
  <2>6. QueueKnown(k)'
    BY <1>1, <2>4, <2>5, QueueShrunk
  <2>7. QED
    BY <1>1, <2>6 DEF QueueAt
<1>3. CASE sock[k] # "open"
  BY <1>1, <1>3 DEF QueueAt
<1>4. QED
  BY <1>2, <1>3

LEMMA EnvQueuesStep ==
  ASSUME Regular, QueuesKnown, EnvStep, NEW k \in Conns
  PROVE  QueueAt(k)'
<1>1. QueueAt(k)
  BY QueuesAt
<1>2. CASE (\E c \in Cmds : Elapse(c)) \/ ExpireSweep
  BY <1>1, <1>2, QueueAtKept DEF Elapse, ExpireSweep, connVars, history
<1>3. ASSUME NEW j \in Conns, Connect(j) PROVE QueueAt(k)'
  <2>1. /\ phase[j] = "unused"
        /\ \A i \in Conns : Owner[i] = Owner[j] => sock[i] # "open"
        /\ online' = [online EXCEPT ![Owner[j]] = j]
        /\ phase' = [phase EXCEPT ![j] = "registered"]
        /\ UNCHANGED <<outbox, handed, early, dropped>>
    BY <1>3 DEF Connect, Register, history
  <2>2. CASE k = j
    <3>1. outbox'[k] = <<>> /\ \A c \in Cmds : <<c, k>> \notin handed'
      BY <1>1, <2>1, <2>2 DEF QueueAt
    <3>2. online'[Owner[k]] = k
      BY <2>1, <2>2, CommandsAssumption
         DEF Regular, TypeOK, RegistryType, CommandsAssumption
    <3>3. Len(<<>>) = 0
      OBVIOUS
    <3>4. QueueOrdered(k)'
      BY <3>1, <3>3 DEF QueueOrdered
    <3>5. QED
      BY <3>1, <3>2, <3>4, ElemsEmpty DEF QueueAt, QueueKnown
  <2>3. CASE k # j
    <3>1. /\ phase'[k] = phase[k]
          /\ caps'[k] = caps[k]
          /\ sock'[k] = "open" => sock[k] = "open"
      BY <1>3, <2>3 DEF Connect, Regular, TypeOK
    <3>2. CASE sock'[k] = "open"
      <4>1. Owner[k] # Owner[j]
        BY <2>1, <3>1, <3>2
      <4>2. online'[Owner[k]] = online[Owner[k]]
        BY <2>1, <4>1, CommandsAssumption
           DEF Regular, TypeOK, RegistryType, CommandsAssumption
      <4>3. QED
        BY <1>1, <2>1, <3>1, <4>2, QueueAtKept
    <3>3. CASE sock'[k] # "open"
      BY <1>1, <2>1, <3>1, <3>3 DEF QueueAt
    <3>4. QED
      BY <3>2, <3>3
  <2>4. QED
    BY <2>2, <2>3
<1>4. ASSUME NEW j \in Conns, Deliver(j) PROVE QueueAt(k)'
  <2>1. CASE k = j
    BY <1>4, <2>1, DeliverQueue
  <2>2. CASE k # j
    <3>1. /\ outbox'[k] = outbox[k]
          /\ UNCHANGED <<online, phase, sock, caps, handed, early, dropped>>
      BY <1>4, <2>2 DEF Deliver, history, Regular, TypeOK
    <3>2. QED
      BY <1>1, <3>1, QueueAtKept
  <2>3. QED
    BY <2>1, <2>2
<1>5. ASSUME NEW j \in Conns, LoseLink(j) PROVE QueueAt(k)'
  <2>1. /\ UNCHANGED <<online, phase, caps, outbox, handed, early, dropped>>
        /\ sock'[k] = "open" => sock[k] = "open"
    BY <1>5 DEF LoseLink, history, Regular, TypeOK
  <2>2. QED
    BY <1>1, <2>1, QueueAtKept
<1>6. CASE Restart
  BY <1>6 DEF Restart, QueueAt
<1>7. QED
  BY <1>2, <1>3, <1>4, <1>5, <1>6 DEF EnvStep

LEMMA OrderInvStep ==
  IndInv /\ IndInv' /\ OrderInv /\ [Next]_vars => OrderInv' /\ OrderStep
<1> SUFFICES ASSUME IndInv, IndInv', OrderInv, [Next]_vars
             PROVE  OrderInv' /\ OrderStep
  OBVIOUS
<1>1. Growth
  BY RowsStep DEF IndInv, Known
<1>2. AgesKnown' /\ OrderStep
  BY AgesStep DEF IndInv, Known, OrderInv
<1>3. Regular
  BY <1>1, <1>2 DEF Regular, IndInv, Known, OrderInv
<1>4. BatchesOrdered'
  BY <1>3, BatchesStep DEF OrderInv
<1>5. QueuesKnown'
  <2> SUFFICES ASSUME NEW k \in Conns PROVE QueueAt(k)'
    BY DEF QueuesKnown, QueueAt
  <2>1. QueuesKnown /\ BatchesOrdered
    BY DEF OrderInv
  <2>2. CASE Next
    BY <1>3, <2>1, <2>2, NextCases, CallerQueuesStep, ChannelQueuesStep,
       EnvQueuesStep
  <2>3. CASE UNCHANGED vars
    <3>1. QueueAt(k)
      BY <2>1, QueuesAt
    <3>2. QED
      BY <1>3, <2>3, <3>1, QueueAtKept DEF vars, connVars, history
  <2>4. QED
    BY <2>2, <2>3
<1>6. QED
  BY <1>2, <1>4, <1>5 DEF OrderInv

\* The agent executes a command only when it gets it on a live link.
LEMMA ExecutedBy ==
  ASSUME TypeOK, [Next]_vars, NEW d \in Cmds, executed[d] = "none",
         executed'[d] # "none"
  PROVE  \E k \in Conns : /\ sock[k] = "open" /\ outbox[k] # <<>>
                          /\ d = Head(outbox[k])
<1>1. ASSUME NEW k \in Conns, Deliver(k)
      PROVE  sock[k] = "open" /\ outbox[k] # <<>> /\ d = Head(outbox[k])
  <2>1. sock[k] = "open" /\ outbox[k] # <<>>
    BY <1>1 DEF Deliver
  <2>2. PICK r \in Results :
          executed' = [executed EXCEPT ![Head(outbox[k])] =
                         IF @ = "none" THEN r ELSE @]
    BY <1>1, <2>1 DEF Deliver
  <2>3. QED
    BY <2>1, <2>2 DEF TypeOK
<1>2. ASSUME NEW c \in Cmds, CallerStep(c) PROVE FALSE
  BY <1>2 DEF CallerStep, Issue, Insert, SendNow, MarkSent, CallerFails,
              CallerCommit, CallerRollback, CallerReturns, CallerTimesOut
<1>3. ASSUME NEW k \in Conns, ChannelStep(k) PROVE FALSE
  BY <1>3 DEF ChannelStep, ResendSelect, ResendSend, ResendMark, Receive,
              ReadRow, StoreResult, StoreFails, ChannelEnds
<1>4. CASE EnvStep /\ ~(\E k \in Conns : Deliver(k))
  BY <1>4 DEF EnvStep, Elapse, Connect, LoseLink, ExpireSweep, Restart
<1>5. CASE UNCHANGED vars
  BY <1>5 DEF vars
<1>6. QED
  BY <1>1, <1>2, <1>3, <1>4, <1>5, NextCases

\* Commands are executed oldest first, for any number of commands,
\* connections, broken links and restarts: a newer one overtakes only when its
\* issue overlapped, when it slipped in before the connection's resend, or when
\* the outbox overflowed.
THEOREM OldestFirstKept == Spec => ExecutedInOrder
<1> DEFINE Inv == IndInv /\ OrderInv
           Step == \A c, d \in Cmds :
             LET k == online[Target[d]] IN
               ( /\ executed[d] = "none" /\ executed'[d] # "none"
                 /\ Target[c] = Target[d] /\ age[c] < age[d]
                 /\ row[c] \in Pending /\ c \notin overdue
                 /\ executed[c] = "none" /\ Reaches(c) )
                 => <<c, d>> \in overlapped \/ <<d, k>> \in early \/ k \in dropped
<1>1. Init => Inv
  <2> SUFFICES ASSUME Init PROVE OrderInv
    BY IndInvInit
  <2>1. AgesKnown
    BY DEF Init, AgesKnown
  <2>2. BatchesOrdered
    BY DEF Init, BatchesOrdered
  <2>3. QueuesKnown
    BY DEF Init, QueuesKnown
  <2>4. QED
    BY <2>1, <2>2, <2>3 DEF OrderInv
<1>2. Inv /\ [Next]_vars => Inv'
  BY IndInvStep, OrderInvStep
<1>3. Inv /\ [Next]_vars => Step
  <2> SUFFICES ASSUME Inv, [Next]_vars, NEW c \in Cmds, NEW d \in Cmds,
                      executed[d] = "none", executed'[d] # "none",
                      Older(c, d), Reaches(c)
               PROVE  Excused(c, d, online[Target[d]])
    BY DEF Older, Excused
  <2>1. TypeOK /\ QueuesKnown
    BY DEF IndInv, Known, OrderInv
  <2>2. PICK k \in Conns : /\ sock[k] = "open" /\ outbox[k] # <<>>
                           /\ d = Head(outbox[k])
    BY <2>1, ExecutedBy
  <2>3. QueueKnown(k)
    BY <2>1, <2>2 DEF QueuesKnown
  <2>4. /\ outbox[k] \in Seq(Cmds) /\ Len(outbox[k]) \in Nat
        /\ Len(outbox[k]) # 0 /\ d = outbox[k][1] /\ d \in Elems(outbox[k])
    BY <2>1, <2>2, ElemsTail, LenProperties, EmptySeq DEF TypeOK
  <2>5. Target[d] = Owner[k] /\ online[Target[d]] = k
    BY <2>3, <2>4 DEF QueueKnown
  <2>6. c \in caps[k] /\ 1 \in 1..Len(outbox[k])
    BY <2>4, <2>5 DEF Older, Reaches
  <2>7. Ahead(c, k, 1) \/ Excused(c, d, k)
    BY <2>3, <2>4, <2>6 DEF QueueKnown, QueueOrdered
  <2>8. ~Ahead(c, k, 1)
    BY DEF Ahead
  <2>9. QED
    BY <2>5, <2>7, <2>8
<1>4. QED
  BY <1>1, <1>2, <1>3, PTL DEF Spec, ExecutedInOrder
-----------------------------------------------------------------------------
(* Waiters *)

\* Until a transaction fails, an entry of the registry's waiters is that of a
\* run_command whose frame went out and whose future is still open.
WaitersKnown ==
  dbErrors = 0 =>
    \A c \in waiters : /\ c \in RunCmds
                       /\ future[c] = "pending"
                       /\ task[c] \in {"marking", "waiting"}

LEMMA CallerWaitersStep ==
  ASSUME TypeOK, WaitersKnown, NEW c \in Cmds, CallerStep(c)
  PROVE  WaitersKnown'
<1> SUFFICES ASSUME dbErrors' = 0, NEW d \in waiters'
             PROVE  (/\ d \in RunCmds
                     /\ future[d] = "pending"
                     /\ task[d] \in {"marking", "waiting"})'
  BY DEF WaitersKnown
<1> USE DEF TypeOK, callVars, dbVars, boundVars
<1>1. dbErrors \in Nat /\ c \in Cmds /\ waiters \subseteq Cmds
  BY BoundsAreNat
<1>2. CASE Issue(c) \/ Insert(c)
  BY <1>1, <1>2 DEF Issue, Insert, WaitersKnown
<1>3. CASE SendNow(c)
  <2>1. CASE d \in waiters
    BY <1>1, <1>3, <2>1 DEF SendNow, WaitersKnown
  <2>2. CASE d \notin waiters
    <3>1. d = c /\ c \in RunCmds /\ future' = [future EXCEPT ![c] = "pending"]
          /\ task' = [task EXCEPT ![c] = "marking"]
      BY <1>3, <2>2 DEF SendNow
    <3>2. QED
      BY <1>1, <3>1
  <2>3. QED
    BY <2>1, <2>2
<1>4. CASE MarkSent(c)
  BY <1>1, <1>4 DEF MarkSent, WaitersKnown
<1>5. CASE CallerFails(c)
  BY <1>1, <1>5 DEF CallerFails
<1>6. CASE CallerCommit(c) \/ CallerRollback(c)
  BY <1>1, <1>6 DEF CallerCommit, CallerRollback, WaitersKnown
<1>7. CASE CallerReturns(c)
  BY <1>1, <1>7 DEF CallerReturns, WaitersKnown, Answers
<1>8. CASE CallerTimesOut(c)
  BY <1>1, <1>8 DEF CallerTimesOut, Dropped, WaitersKnown
<1>9. QED
  BY <1>2, <1>3, <1>4, <1>5, <1>6, <1>7, <1>8 DEF CallerStep

LEMMA WaitersStep == Known /\ WaitersKnown /\ [Next]_vars => WaitersKnown'
<1> SUFFICES ASSUME Known, WaitersKnown, [Next]_vars PROVE WaitersKnown'
  OBVIOUS
<1>1. TypeOK /\ dbErrors \in Nat
  BY BoundsAreNat DEF Known, TypeOK
<1>2. CASE \E c \in Cmds : CallerStep(c)
  BY <1>1, <1>2, CallerWaitersStep
<1>3. ASSUME NEW k \in Conns, ChannelStep(k)
      PROVE  WaitersKnown'
  <2>1. CASE Receive(k)
    <3>1. /\ waiters' = waiters \ {Head(toHub[k])}
          /\ dbErrors' = dbErrors /\ task' = task
          /\ \A d \in Cmds : d # Head(toHub[k]) => future'[d] = future[d]
      BY <1>1, <2>1 DEF Receive, Dropped, boundVars, TypeOK
    <3>2. QED
      BY <1>1, <3>1 DEF WaitersKnown, TypeOK
  <2>2. CASE StoreFails(k)
    BY <1>1, <2>2 DEF StoreFails, WaitersKnown
  <2>3. CASE ~Receive(k) /\ ~StoreFails(k)
    <3>1. UNCHANGED <<callVars, boundVars>>
      BY <1>3, <2>3 DEF ChannelStep, ResendSelect, ResendSend, ResendMark,
                        ReadRow, StoreResult, ChannelEnds
    <3>2. QED
      BY <3>1 DEF WaitersKnown, callVars, boundVars
  <2>4. QED
    BY <2>1, <2>2, <2>3
<1>4. CASE EnvStep
  <2>1. CASE Restart
    BY <2>1 DEF Restart, WaitersKnown
  <2>2. CASE ~Restart
    <3>1. UNCHANGED <<callVars, boundVars>>
      BY <1>4, <2>2 DEF EnvStep, Elapse, Connect, Deliver, LoseLink,
                        ExpireSweep
    <3>2. QED
      BY <3>1 DEF WaitersKnown, callVars, boundVars
  <2>3. QED
    BY <2>1, <2>2
<1>5. CASE UNCHANGED vars
  BY <1>5 DEF vars, callVars, boundVars, WaitersKnown
<1>6. QED
  BY <1>2, <1>3, <1>4, <1>5, NextCases

\* While no transaction fails, the registry keeps a waiter only for a caller
\* that will remove it: a result, a timeout or a restart takes every entry
\* away.  (When _mark_sent's transaction fails, run_command leaves its entry.)
THEOREM NoneOrphaned == Spec => [](dbErrors = 0 => NoOrphanWaiter)
<1>1. Init => WaitersKnown
  BY DEF Init, WaitersKnown
<1>2. WaitersKnown => (dbErrors = 0 => NoOrphanWaiter)
  BY DEF WaitersKnown, NoOrphanWaiter
<1>3. QED
  BY <1>1, <1>2, WaitersStep, KnownAlways, PTL DEF Spec
=============================================================================
