--------------------------- MODULE LicensesProofs ---------------------------
(***************************************************************************)
(* Proofs about module Licenses, for any licenses, runs and bounds.          *)
(*                                                                         *)
(* OneActiveUnlessOverlapping is inductive with two facts: runs that work at *)
(* the same time are noted as such (WorkTogether), and a creation that is     *)
(* about to insert has met the run that inserted each license that is active *)
(* by now (InsertKnows), since it saw none when it began.                     *)
(*                                                                         *)
(* HeldOnlyOverlapping speaks of a license whose removal is over; to be      *)
(* inductive it has to say where the removal stands before: in the hands of  *)
(* the run that queues it, in the table, or executed, and that on each leg   *)
(* the tokens of the license come first (OrderHeld): they were made before,  *)
(* a resend that has the removal has them, and they are ahead on the wire.   *)
(* No token comes later, because a run that could still issue one has met    *)
(* the one that revoked the license (IssuesMeet); and a removal that is sent *)
(* at once finds the tokens on the wire, because the connection has sent     *)
(* what it held (SentUp).                                                    *)
(***************************************************************************)
EXTENDS Licenses, TLAPS

USE DEF termVars, linkVars, wireVars

WorkTogether ==
  \A g, h \in Working : g # h => {g, h} \in together

InsertKnows ==
  \A g \in Grants : grant[g].pc = "insert" =>
    \A m \in ActiveLic : \E h \in touched[m] : {g, h} \in together

\* A run that signs, or queues a command, does so for a license.
CurKnown ==
  \A g \in Grants : grant[g].pc \in {"sign", "queue", "send"} => grant[g].cur \in Licenses

IndInv ==
  /\ LicensesTypeOK
  /\ CurKnown
  /\ WorkTogether
  /\ InsertKnows
  /\ OneActiveUnlessOverlapping
-----------------------------------------------------------------------------
(* Types *)

GrantRec == [pc : {"idle", "insert", "sign", "next", "queue", "send", "done", "cut"},
             kind : {"none", "create", "renew", "revoke"},
             cur : Licenses \cup {NoLicense}, todo : SUBSET Licenses]

LEMMA BeginsTyped ==
  ASSUME LicensesTypeOK, NEW g \in Grants, NEW kind \in {"create", "renew", "revoke"},
         NEW pc \in {"insert", "next"}, NEW todo \in SUBSET Licenses, Begins(g, kind, pc, todo)
  PROVE  LicensesTypeOK'
<1>1. [NoGrant EXCEPT !.pc = pc, !.kind = kind, !.todo = todo] \in GrantRec
  BY DEF NoGrant, GrantRec
<1>2. \A h \in Working : {g, h} \in SUBSET Grants
  BY DEF Working
<1>3. together' \subseteq SUBSET Grants
  BY <1>2 DEF Begins, LicensesTypeOK
<1>4. QED
  BY <1>1, <1>3 DEF Begins, LicensesTypeOK, GrantRec

LEMMA GrantTyped ==
  ASSUME LicensesTypeOK, NEW g \in Grants
  PROVE  /\ grant \in [Grants -> GrantRec] /\ grant[g] \in GrantRec
         /\ grant[g].cur \in Licenses \cup {NoLicense}
         /\ grant[g].todo \subseteq Licenses
BY DEF LicensesTypeOK, GrantRec

LEMMA OnwardsTyped ==
  ASSUME LicensesTypeOK, NEW g \in Grants, NEW rest \in SUBSET Licenses
  PROVE  Onwards(g, rest) \in [Grants -> GrantRec]
<1> DEFINE pc == IF rest = {} THEN "done" ELSE "next"
<1> DEFINE new == [grant[g] EXCEPT !.pc = pc, !.cur = NoLicense, !.todo = rest]
<1>1. pc \in {"done", "next"}
  OBVIOUS
<1> HIDE DEF pc
<1>2. new \in GrantRec
  BY <1>1, GrantTyped DEF GrantRec
<1>3. Onwards(g, rest) = [grant EXCEPT ![g] = new]
  BY GrantTyped DEF Onwards, pc
<1>4. QED
  BY <1>2, <1>3, GrantTyped

\* Updates of two and of three fields.
LEMMA SetTyped ==
  ASSUME LicensesTypeOK, NEW g \in Grants,
         NEW pc \in {"sign", "queue", "send"},
         NEW cur \in Licenses, NEW todo, todo \subseteq Licenses
  PROVE  /\ [grant EXCEPT ![g].pc = pc] \in [Grants -> GrantRec]
         /\ [grant EXCEPT ![g].pc = pc, ![g].cur = cur] \in [Grants -> GrantRec]
         /\ [grant EXCEPT ![g].pc = pc, ![g].cur = cur, ![g].todo = todo] \in [Grants -> GrantRec]
<1> DEFINE one == [grant[g] EXCEPT !.pc = pc]
           two == [grant[g] EXCEPT !.pc = pc, !.cur = cur]
           three == [grant[g] EXCEPT !.pc = pc, !.cur = cur, !.todo = todo]
<1>1. one \in GrantRec
  BY GrantTyped DEF GrantRec
<1>2. two \in GrantRec
  BY GrantTyped DEF GrantRec
<1>3. three \in GrantRec
  BY GrantTyped DEF GrantRec
<1>4. [grant EXCEPT ![g].pc = pc] = [grant EXCEPT ![g] = one]
  BY GrantTyped
<1>5. [grant EXCEPT ![g].pc = pc, ![g].cur = cur] = [grant EXCEPT ![g] = two]
  BY GrantTyped
<1>6. [grant EXCEPT ![g].pc = pc, ![g].cur = cur, ![g].todo = todo] = [grant EXCEPT ![g] = three]
  BY GrantTyped
<1> HIDE DEF one, two, three
<1>7. QED
  BY <1>1, <1>2, <1>3, <1>4, <1>5, <1>6, GrantTyped

LEMMA TouchTyped ==
  ASSUME LicensesTypeOK, NEW g \in Grants, NEW l \in Licenses, Touch(g, l)
  PROVE  touched' \in [Licenses -> SUBSET Grants]
BY DEF LicensesTypeOK, Touch

LEMMA OrderTyped ==
  ASSUME LicensesTypeOK, CurKnown, NEW g \in Grants, grant[g].pc \in {"sign", "queue", "send"}
  PROVE  Order(g) \in Orders
BY DEF CurKnown, Order, Orders

LEMMA MakesTyped ==
  ASSUME LicensesTypeOK, CurKnown, NEW c \in Orders, Makes(c)
  PROVE  older' \subseteq Orders \X Orders
<1>1. \A h \in Grants : grant[h].pc = "queue" => Order(h) \in Orders
  BY OrderTyped
<1>2. InHand \subseteq Orders
  BY <1>1 DEF InHand, LicensesTypeOK
<1>3. QED
  BY <1>2 DEF Makes, LicensesTypeOK

LEMMA PutOnTyped ==
  ASSUME LicensesTypeOK, NEW S \in SUBSET Orders, NEW order \in SUBSET (Orders \X Orders),
         PutOn(S, order)
  PROVE  wire' \subseteq Orders /\ ahead' \subseteq Orders \X Orders
BY DEF PutOn, LicensesTypeOK

LEMMA OverTyped ==
  ASSUME LicensesTypeOK, NEW c, Over(c)
  PROVE  /\ unanswered' \subseteq Orders /\ wire' \subseteq Orders
         /\ older' \subseteq Orders \X Orders /\ ahead' \subseteq Orders \X Orders
         /\ batch' \in [Links -> SUBSET Orders]
BY DEF LicensesTypeOK, Over

LEMMA TokensTyped ==
  ASSUME NEW S \in SUBSET Orders
  PROVE  TokensIn(S) \subseteq Licenses
BY DEF TokensIn, Orders

LEMMA OneMoreCut == LicensesTypeOK /\ cuts < MaxCut => cuts + 1 \in 0..MaxCut
BY LicensesAssumption DEF LicensesTypeOK

\* What a step that begins a run, works on one or needs none does to the types.
LEMMA StepTyped ==
  ASSUME LicensesTypeOK, CurKnown, LicensesNext
  PROVE  LicensesTypeOK'
<1>1. ASSUME NEW g \in Grants, \/ CreateReads(g) \/ RevokeLicenseReads(g)
                               \/ RemoveLicenseReads(g) \/ RenewReads(g)
      PROVE  LicensesTypeOK'
  <2>1. ActiveLic \subseteq Licenses
    BY DEF ActiveLic, LicensesTypeOK
  <2>2. PICK kind \in {"create", "renew", "revoke"}, pc \in {"insert", "next"},
             todo \in SUBSET Licenses : Begins(g, kind, pc, todo)
    BY <1>1, <2>1 DEF CreateReads, RevokeLicenseReads, RemoveLicenseReads, RenewReads, LicensesTypeOK
  <2>3. QED
    BY <2>2, BeginsTyped
<1>2. ASSUME NEW g \in Grants, InsertLicense(g)
      PROVE  LicensesTypeOK'
  <2>1. PICK l \in Licenses : /\ license' = [license EXCEPT ![l] = "active"]
                             /\ grant' = [grant EXCEPT ![g].pc = "sign", ![g].cur = l]
                             /\ Touch(g, l)
    BY <1>2 DEF InsertLicense, LicensesTypeOK
  <2>2. grant' \in [Grants -> GrantRec]
    BY <2>1, SetTyped
  <2>3. touched' \in [Licenses -> SUBSET Grants]
    BY <2>1, TouchTyped
  <2>4. QED
    BY <1>2, <2>1, <2>2, <2>3 DEF InsertLicense, GrantRec, LicensesTypeOK
<1>3. ASSUME NEW g \in Grants, SignToken(g)
      PROVE  LicensesTypeOK'
  <2>1. grant[g].cur \in Licenses
    BY <1>3 DEF SignToken, CurKnown, LicensesTypeOK
  <2>2. CASE grant[g].cur \in over
    <3>1. grant' \in [Grants -> GrantRec]
      BY <1>3, <2>2, OnwardsTyped, GrantTyped DEF SignToken
    <3>2. QED
      BY <1>3, <2>2, <3>1 DEF SignToken, GrantRec, LicensesTypeOK
  <2>3. CASE grant[g].cur \notin over
    <3>1. last' \subseteq Termed
      BY <1>3, <2>3 DEF SignToken, LicensesTypeOK
    <3>2. grant' \in [Grants -> GrantRec]
      <4>1. [grant EXCEPT ![g].pc = "queue"] \in [Grants -> GrantRec]
        BY GrantTyped DEF GrantRec
      <4>2. QED
        BY <1>3, <2>3, <4>1 DEF SignToken
    <3>3. touched' \in [Licenses -> SUBSET Grants]
      BY <1>3, <2>1, <2>3, TouchTyped DEF SignToken
    <3>4. older' \subseteq Orders \X Orders
      <4>1. Makes(Order(g)) /\ Order(g) \in Orders
        BY <1>3, <2>3, OrderTyped DEF SignToken
      <4>2. QED
        BY <4>1, MakesTyped
    <3>5. QED
      BY <1>3, <2>1, <2>3, <3>1, <3>2, <3>3, <3>4 DEF SignToken, GrantRec, LicensesTypeOK
  <2>4. QED
    BY <2>2, <2>3 DEF LicensesTypeOK
<1>4. ASSUME NEW g \in Grants, QueueCommand(g)
      PROVE  LicensesTypeOK'
  <2>1. grant' \in [Grants -> GrantRec]
    <3>1. grant[g].cur \in Licenses
      BY <1>4 DEF QueueCommand, CurKnown
    <3>2. [grant EXCEPT ![g].pc = "send"] \in [Grants -> GrantRec]
      BY <3>1, SetTyped, GrantTyped
    <3>3. QED
      BY <1>4, <3>2 DEF QueueCommand
  <2>2. Order(g) \in Orders
    BY <1>4, OrderTyped DEF QueueCommand
  <2>3. QED
    BY <1>4, <2>1, <2>2 DEF QueueCommand, GrantRec, LicensesTypeOK
<1>11. ASSUME NEW g \in Grants, SendCommand(g)
      PROVE  LicensesTypeOK'
  <2>1. grant' \in [Grants -> GrantRec]
    BY <1>11, OnwardsTyped, GrantTyped DEF SendCommand
  <2>2. Order(g) \in Orders
    BY <1>11, OrderTyped DEF SendCommand
  <2>3. Order(g)[2] \in Licenses
    BY <2>2 DEF Orders
  <2>4. astray' \subseteq Licenses
    BY <1>11, <2>2, <2>3, TokensTyped DEF SendCommand, LicensesTypeOK
  <2>5. wire' \subseteq Orders /\ ahead' \subseteq Orders \X Orders
    <3>1. CASE PutOn({Order(g)}, {})
      BY <2>2, <3>1, PutOnTyped
    <3>2. CASE UNCHANGED wireVars
      BY <3>2 DEF LicensesTypeOK
    <3>3. QED
      BY <1>11, <3>1, <3>2 DEF SendCommand
  <2>6. QED
    BY <1>11, <2>1, <2>4, <2>5 DEF SendCommand, GrantRec, LicensesTypeOK, linkVars
<1>12. ASSUME NEW k \in Links, Connect(k) \/ ResendSelect(k)
      PROVE  LicensesTypeOK'
  BY <1>12 DEF Connect, ResendSelect, LicensesTypeOK
<1>13. ASSUME NEW k \in Links, ResendSend(k)
      PROVE  LicensesTypeOK'
  <2>1. batch[k] \subseteq Orders /\ Selected(k).set = batch[k]
    BY DEF Selected, LicensesTypeOK
  <2>2. wire' \subseteq Orders /\ ahead' \subseteq Orders \X Orders /\ astray' \subseteq Licenses
    <3>1. CASE serving = NoLink
      BY <1>13, <3>1 DEF ResendSend, LicensesTypeOK
    <3>2. CASE serving # NoLink
      <4>1. PICK S \in SUBSET batch[k] :
              /\ PutOn(S, Selected(k).order)
              /\ astray' = astray \cup TokensIn(batch[k] \ S)
        BY <1>13, <2>1, <3>2 DEF ResendSend
      <4>2. S \in SUBSET Orders /\ batch[k] \ S \in SUBSET Orders
        BY <2>1
      <4>3. TokensIn(batch[k] \ S) \subseteq Licenses
        BY <4>2, TokensTyped
      <4>4. QED
        BY <4>1, <4>2, <4>3, PutOnTyped DEF Selected, LicensesTypeOK
    <3>3. QED
      BY <3>1, <3>2
  <2>3. QED
    BY <1>13, <2>2 DEF ResendSend, LicensesTypeOK
<1>14. CASE LoseLink
  BY <1>14 DEF LoseLink, LicensesTypeOK
<1>15. CASE Expire
  <2>1. PICK c \in unanswered :
          /\ astray' = astray \cup IF c[1] = "revoke" THEN {c[2]} ELSE {}
          /\ Over(c)
    BY <1>15 DEF Expire
  <2>2. c[2] \in Licenses
    BY DEF Orders, LicensesTypeOK
  <2>3. QED
    BY <1>15, <2>1, <2>2, OverTyped DEF Expire, LicensesTypeOK
<1>5. ASSUME NEW g \in Grants, CommitRevocation(g)
      PROVE  LicensesTypeOK'
  <2>1. PICK l \in grant[g].todo :
          /\ license' = [license EXCEPT ![l] = "revoked"]
          /\ grant' = [grant EXCEPT ![g].pc = "queue", ![g].cur = l, ![g].todo = @ \ {l}]
          /\ Makes(<<"revoke", l, g>>)
          /\ Touch(g, l)
    BY <1>5 DEF CommitRevocation, LicensesTypeOK
  <2>2. l \in Licenses
    BY <2>1, GrantTyped DEF LicensesTypeOK
  <2>3. grant' \in [Grants -> GrantRec]
    <3>1. grant' = [grant EXCEPT ![g].pc = "queue", ![g].cur = l, ![g].todo = grant[g].todo \ {l}]
      BY <2>1, GrantTyped DEF LicensesTypeOK
    <3>2. grant[g].todo \ {l} \subseteq Licenses
      BY GrantTyped DEF LicensesTypeOK
    <3>3. [grant EXCEPT ![g].pc = "queue", ![g].cur = l, ![g].todo = grant[g].todo \ {l}]
            \in [Grants -> GrantRec]
      BY <2>2, <3>2, SetTyped
    <3>4. QED
      BY <3>1, <3>3 DEF LicensesTypeOK
  <2>4. older' \subseteq Orders \X Orders
    <3>1. <<"revoke", l, g>> \in Orders
      BY <2>2 DEF Orders
    <3>2. QED
      BY <2>1, <3>1, MakesTyped
  <2>5. QED
    BY <1>5, <2>1, <2>2, <2>3, <2>4, TouchTyped
       DEF CommitRevocation, GrantRec, LicensesTypeOK
<1>6. ASSUME NEW g \in Grants, RenewNext(g)
      PROVE  LicensesTypeOK'
  <2>1. PICK l \in grant[g].todo :
          LET rest == grant[g].todo \ {l} IN
          \/ /\ license' = [license EXCEPT ![l] = IF @ = "active" THEN "ended" ELSE @]
             /\ grant' = Onwards(g, rest)
          \/ grant' = Onwards(g, rest) /\ UNCHANGED license
          \/ /\ grant' = [grant EXCEPT ![g].pc = "sign", ![g].cur = l, ![g].todo = rest]
             /\ UNCHANGED license
    BY <1>6 DEF RenewNext, LicensesTypeOK
  <2>2. l \in Licenses /\ grant[g].todo \ {l} \subseteq Licenses
    BY <2>1, GrantTyped DEF LicensesTypeOK
  <2>3. license' \in [Licenses -> {"none", "active", "revoked", "ended"}]
    BY <2>1, <2>2 DEF LicensesTypeOK
  <2>4. grant' \in [Grants -> GrantRec]
    <3>1. Onwards(g, grant[g].todo \ {l}) \in [Grants -> GrantRec]
      BY <2>2, OnwardsTyped
    <3>2. [grant EXCEPT ![g].pc = "sign", ![g].cur = l, ![g].todo = grant[g].todo \ {l}]
            \in [Grants -> GrantRec]
      BY <2>2, SetTyped
    <3>3. QED
      BY <2>1, <3>1, <3>2 DEF LicensesTypeOK
  <2>5. QED
    BY <1>6, <2>3, <2>4 DEF RenewNext, GrantRec, LicensesTypeOK
<1>7. ASSUME NEW g \in Grants, Cut(g)
      PROVE  LicensesTypeOK'
  <2>1. grant' \in [Grants -> GrantRec]
    <3>1. [grant EXCEPT ![g].pc = "cut"] \in [Grants -> GrantRec]
      BY SMTT(30), GrantTyped DEF GrantRec, LicensesTypeOK
    <3>2. QED
      BY <1>7, <3>1 DEF Cut, LicensesTypeOK
  <2>2. QED
    BY <1>7, <2>1, OneMoreCut DEF Cut, GrantRec, LicensesTypeOK
<1>8. CASE InstanceTakes
  <2>1. PICK c \in wire :
          /\ holds' = IF c[1] = "revoke" THEN holds \ {c[2]}
                      ELSE IF signed[c[2]] # "lapsed" THEN holds \cup {c[2]} ELSE holds
          /\ Over(c)
    BY <1>8 DEF InstanceTakes
  <2>2. c[2] \in Licenses
    BY DEF Orders, LicensesTypeOK
  <2>3. QED
    BY <1>8, <2>1, <2>2, OverTyped DEF InstanceTakes, LicensesTypeOK
<1>9. ASSUME NEW l \in Licenses, Ages(l)
      PROVE  LicensesTypeOK'
  BY <1>9 DEF Ages, LicensesTypeOK
<1>10. QED
  BY <1>1, <1>2, <1>3, <1>4, <1>5, <1>6, <1>7, <1>8, <1>9,
     <1>11, <1>12, <1>13, <1>14, <1>15 DEF LicensesNext
-----------------------------------------------------------------------------
(* The invariant *)

\* The fields a step sets in the run it works on, and what it leaves alone.
LEMMA OnwardsMoves ==
  ASSUME LicensesTypeOK, NEW g \in Grants, NEW rest, grant' = Onwards(g, rest)
  PROVE  /\ grant'[g].pc \in {"done", "next"}
         /\ \A h \in Grants \ {g} : grant'[h] = grant[h]
<1> DEFINE pc == IF rest = {} THEN "done" ELSE "next"
<1>1. pc \in {"done", "next"}
  OBVIOUS
<1> HIDE DEF pc
<1>2. grant' = [grant EXCEPT ![g] = [grant[g] EXCEPT !.pc = pc, !.cur = NoLicense, !.todo = rest]]
  BY GrantTyped DEF Onwards, pc
<1>3. grant'[g] = [grant[g] EXCEPT !.pc = pc, !.cur = NoLicense, !.todo = rest]
  BY <1>2, GrantTyped
<1>4. grant'[g].pc = pc
  BY <1>3, GrantTyped DEF GrantRec
<1>5. QED
  BY <1>1, <1>2, <1>4, GrantTyped

\* Every step but the start of a run and an insert.
LEMMA Quiet ==
  ASSUME IndInv, LicensesTypeOK', NEW g \in Grants,
         g \in Working, grant'[g].pc # "insert",
         grant'[g].pc \in {"sign", "queue", "send"} => grant'[g].cur \in Licenses,
         \A h \in Grants \ {g} : grant'[h] = grant[h],
         ActiveLic' \subseteq ActiveLic, together' = together,
         \A l \in Licenses : touched[l] \subseteq touched'[l]
  PROVE  IndInv'
<1>1. Working' \subseteq Working
  BY DEF Working
<1>2. CurKnown'
  BY DEF IndInv, CurKnown
<1>3. WorkTogether'
  BY <1>1 DEF IndInv, WorkTogether
<1>4. ActiveLic \subseteq Licenses
  BY DEF ActiveLic
<1>5. InsertKnows'
  BY <1>4 DEF IndInv, InsertKnows
<1>6. OneActiveUnlessOverlapping'
  BY <1>4 DEF IndInv, OneActiveUnlessOverlapping
<1>7. QED
  BY <1>2, <1>3, <1>5, <1>6 DEF IndInv

LEMMA BeginsKeeps ==
  ASSUME IndInv, LicensesTypeOK', NEW g \in Grants, NEW kind, NEW pc \in {"insert", "next"},
         NEW todo, Begins(g, kind, pc, todo), pc = "insert" => ActiveLic = {}
  PROVE  IndInv'
<1>1. /\ grant'[g].pc = pc
      /\ \A h \in Grants \ {g} : grant'[h] = grant[h]
  BY DEF Begins, IndInv, LicensesTypeOK, NoGrant
<1>2. UNCHANGED <<license, touched>> /\ together' = together \cup {{g, h} : h \in Working}
  BY DEF Begins
<1>3. Working' \subseteq Working \cup {g}
  BY <1>1 DEF Working
<1>4. CurKnown'
  BY <1>1 DEF IndInv, CurKnown
<1>5. WorkTogether'
  <2>1. \A h \in Working : {g, h} \in together' /\ {h, g} \in together'
    <3>1. \A h \in Working : {h, g} = {g, h}
      OBVIOUS
    <3>2. QED
      BY <1>2, <3>1
  <2>2. \A h, k \in Working : h # k => {h, k} \in together'
    BY <1>2 DEF IndInv, WorkTogether
  <2>3. QED
    BY <1>3, <2>1, <2>2 DEF WorkTogether
<1>6. ActiveLic' = ActiveLic
  BY <1>2 DEF ActiveLic
<1>7. InsertKnows'
  BY <1>1, <1>2, <1>6 DEF IndInv, InsertKnows
<1>8. OneActiveUnlessOverlapping'
  <2>1. together \subseteq together'
    BY <1>2
  <2>2. QED
    BY ZenonT(40), <1>2, <1>6, <2>1 DEF IndInv, OneActiveUnlessOverlapping
<1>9. QED
  BY <1>4, <1>5, <1>7, <1>8 DEF IndInv

\* The license inserted is new, and g has met those who inserted the others;
\* a creation that is yet to insert has met g.
LEMMA InsertKeeps ==
  ASSUME IndInv, LicensesTypeOK', NEW g \in Grants, InsertLicense(g)
  PROVE  IndInv'
<1>1. PICK l \in Licenses :
        /\ license[l] = "none" /\ license' = [license EXCEPT ![l] = "active"]
        /\ grant' = [grant EXCEPT ![g].pc = "sign", ![g].cur = l]
        /\ Touch(g, l)
  BY DEF InsertLicense
<1>2. /\ grant[g].pc = "insert" /\ grant'[g].pc = "sign" /\ grant'[g].cur = l
      /\ \A h \in Grants \ {g} : grant'[h] = grant[h]
      /\ together' = together
  BY <1>1 DEF InsertLicense, IndInv, LicensesTypeOK
<1>3. /\ \A m \in Licenses : touched[m] \subseteq touched'[m]
      /\ g \in touched'[l]
  BY <1>1 DEF Touch, IndInv, LicensesTypeOK
<1>4. ActiveLic' = ActiveLic \cup {l} /\ ActiveLic \subseteq Licenses
  BY <1>1 DEF ActiveLic, IndInv, LicensesTypeOK
<1>5. Working' = Working /\ g \in Working
  BY <1>2 DEF Working
<1>6. CurKnown'
  BY <1>2 DEF IndInv, CurKnown
<1>7. WorkTogether'
  BY <1>2, <1>5 DEF IndInv, WorkTogether
<1>8. InsertKnows'
  <2> SUFFICES ASSUME NEW h \in Grants, grant'[h].pc = "insert", NEW m \in ActiveLic'
               PROVE  \E k \in touched'[m] : {h, k} \in together'
    BY DEF InsertKnows
  <2>1. h # g /\ grant[h].pc = "insert"
    BY <1>2
  <2>2. CASE m = l
    <3>1. h \in Working
      BY <2>1 DEF Working
    <3>2. {h, g} \in together
      BY <1>5, <2>1, <3>1 DEF IndInv, WorkTogether
    <3>3. QED
      BY <1>2, <1>3, <2>2, <3>2
  <2>3. CASE m \in ActiveLic
    BY <1>2, <1>3, <1>4, <2>1, <2>3 DEF IndInv, InsertKnows
  <2>4. QED
    BY <1>4, <2>2, <2>3
<1>9. OneActiveUnlessOverlapping'
  <2> SUFFICES ASSUME NEW m \in ActiveLic', NEW n \in ActiveLic', m # n
               PROVE  \E h \in touched'[m], k \in touched'[n] : {h, k} \in together'
    BY DEF OneActiveUnlessOverlapping
  <2>1. \A p \in ActiveLic : \E k \in touched[p] : {g, k} \in together
    BY <1>2 DEF IndInv, InsertKnows
  <2>2. CASE m = l
    <3>1. PICK k \in touched[n] : {g, k} \in together
      BY <1>4, <2>1, <2>2
    <3>2. QED
      BY <1>2, <1>3, <1>4, <2>2, <3>1
  <2>3. CASE n = l
    <3>1. PICK k \in touched[m] : {g, k} \in together
      BY <1>4, <2>1, <2>3
    <3>2. {k, g} \in together
      <4>1. {k, g} = {g, k}
        OBVIOUS
      <4>2. QED
        BY <3>1, <4>1
    <3>3. QED
      BY <1>2, <1>3, <1>4, <2>3, <3>1, <3>2
  <2>4. CASE m \in ActiveLic /\ n \in ActiveLic
    BY <1>2, <1>3, <1>4, <2>4 DEF IndInv, OneActiveUnlessOverlapping
  <2>5. QED
    BY <1>4, <2>2, <2>3, <2>4
<1>10. QED
  BY <1>6, <1>7, <1>8, <1>9 DEF IndInv

LEMMA TouchGrows ==
  ASSUME LicensesTypeOK, NEW g, NEW l \in Licenses, Touch(g, l)
  PROVE  \A m \in Licenses : touched[m] \subseteq touched'[m]
BY DEF LicensesTypeOK, Touch

LEMMA StepKeeps ==
  ASSUME IndInv, LicensesNext
  PROVE  IndInv'
<1>0. LicensesTypeOK /\ CurKnown /\ LicensesTypeOK'
  BY StepTyped DEF IndInv
<1>1. ASSUME NEW g \in Grants, CreateReads(g)
      PROVE  IndInv'
  BY <1>0, <1>1, BeginsKeeps DEF CreateReads, Unlicensed
<1>2. ASSUME NEW g \in Grants, RevokeLicenseReads(g) \/ RemoveLicenseReads(g) \/ RenewReads(g)
      PROVE  IndInv'
  <2>1. PICK kind \in {"revoke", "renew"}, todo \in SUBSET Licenses : Begins(g, kind, "next", todo)
    BY <1>2 DEF RevokeLicenseReads, RemoveLicenseReads, RenewReads, ActiveLic
  <2>2. QED
    BY <1>0, <2>1, BeginsKeeps
<1>3. ASSUME NEW g \in Grants, InsertLicense(g)
      PROVE  IndInv'
  BY <1>0, <1>3, InsertKeeps
<1>4. ASSUME NEW g \in Grants, SignToken(g)
      PROVE  IndInv'
  <2>1. /\ grant[g].pc = "sign" /\ g \in Working /\ grant[g].cur \in Licenses
        /\ UNCHANGED <<license, together>>
    BY <1>0, <1>4 DEF SignToken, Working, CurKnown
  <2>2. CASE grant' = Onwards(g, grant[g].todo) /\ UNCHANGED touched
    BY <1>0, <2>1, <2>2, OnwardsMoves, Quiet DEF ActiveLic
  <2>3. CASE grant' = [grant EXCEPT ![g].pc = "queue"] /\ Touch(g, grant[g].cur)
    <3>1. /\ grant'[g].pc = "queue" /\ grant'[g].cur = grant[g].cur
          /\ \A h \in Grants \ {g} : grant'[h] = grant[h]
      BY <1>0, <2>3 DEF LicensesTypeOK
    <3>2. \A m \in Licenses : touched[m] \subseteq touched'[m]
      BY <1>0, <2>1, <2>3, TouchGrows
    <3>3. QED
      BY <1>0, <2>1, <3>1, <3>2, Quiet DEF ActiveLic
  <2>4. QED
    BY <1>4, <2>2, <2>3 DEF SignToken
<1>5. ASSUME NEW g \in Grants, SendCommand(g)
      PROVE  IndInv'
  <2>1. /\ g \in Working /\ grant' = Onwards(g, grant[g].todo)
        /\ UNCHANGED <<license, together, touched>>
    BY <1>5 DEF SendCommand, Working
  <2>2. QED
    BY <1>0, <2>1, OnwardsMoves, Quiet DEF ActiveLic
<1>11. ASSUME NEW g \in Grants, QueueCommand(g)
       PROVE  IndInv'
  <2>1. /\ g \in Working /\ grant'[g].pc = "send" /\ grant'[g].cur = grant[g].cur
        /\ \A h \in Grants \ {g} : grant'[h] = grant[h]
        /\ UNCHANGED <<license, together, touched>>
    BY <1>0, <1>11 DEF QueueCommand, Working, LicensesTypeOK
  <2>2. grant[g].cur \in Licenses
    BY <1>0, <1>11 DEF QueueCommand, CurKnown
  <2>3. QED
    BY <1>0, <2>1, <2>2, Quiet DEF ActiveLic
<1>6. ASSUME NEW g \in Grants, CommitRevocation(g)
      PROVE  IndInv'
  <2>1. PICK l \in grant[g].todo :
          /\ license' = [license EXCEPT ![l] = "revoked"]
          /\ grant' = [grant EXCEPT ![g].pc = "queue", ![g].cur = l, ![g].todo = @ \ {l}]
          /\ Touch(g, l)
    BY <1>6 DEF CommitRevocation
  <2>2. l \in Licenses
    BY <1>0, <2>1, GrantTyped
  <2>3. /\ grant'[g].pc = "queue" /\ grant'[g].cur = l
        /\ \A h \in Grants \ {g} : grant'[h] = grant[h]
    BY <1>0, <2>1 DEF LicensesTypeOK
  <2>4. ActiveLic' \subseteq ActiveLic
    BY <1>0, <2>1, <2>2 DEF ActiveLic, LicensesTypeOK
  <2>5. \A m \in Licenses : touched[m] \subseteq touched'[m]
    BY <1>0, <2>1, <2>2, TouchGrows
  <2>6. g \in Working /\ together' = together
    BY <1>6 DEF CommitRevocation, Working
  <2>7. QED
    BY <1>0, <2>2, <2>3, <2>4, <2>5, <2>6, Quiet
<1>7. ASSUME NEW g \in Grants, RenewNext(g)
      PROVE  IndInv'
  <2>1. g \in Working /\ UNCHANGED <<together, touched>>
    BY <1>7 DEF RenewNext, Working
  <2>2. PICK l \in grant[g].todo :
          \/ /\ \/ license' = [license EXCEPT ![l] = IF @ = "active" THEN "ended" ELSE @]
                \/ license' = license
             /\ grant' = Onwards(g, grant[g].todo \ {l})
          \/ /\ grant' = [grant EXCEPT ![g].pc = "sign", ![g].cur = l, ![g].todo = grant[g].todo \ {l}]
             /\ license' = license
    BY <1>7 DEF RenewNext
  <2>3. l \in Licenses
    BY <1>0, <2>2, GrantTyped
  <2>4. ActiveLic' \subseteq ActiveLic
    BY <1>0, <2>2, <2>3 DEF ActiveLic, LicensesTypeOK
  <2>5. CASE grant' = Onwards(g, grant[g].todo \ {l})
    BY <1>0, <2>1, <2>4, <2>5, OnwardsMoves, Quiet
  <2>6. CASE grant' = [grant EXCEPT ![g].pc = "sign", ![g].cur = l, ![g].todo = grant[g].todo \ {l}]
    <3>1. /\ grant'[g].pc = "sign" /\ grant'[g].cur = l
          /\ \A h \in Grants \ {g} : grant'[h] = grant[h]
      BY <1>0, <2>6 DEF LicensesTypeOK
    <3>2. QED
      BY <1>0, <2>1, <2>3, <2>4, <3>1, Quiet
  <2>7. QED
    BY <2>2, <2>5, <2>6
<1>8. ASSUME NEW g \in Grants, Cut(g)
      PROVE  IndInv'
  <2>1. /\ grant'[g].pc = "cut"
        /\ \A h \in Grants \ {g} : grant'[h] = grant[h]
        /\ g \in Working /\ UNCHANGED <<license, together, touched>>
    BY <1>0, <1>8 DEF Cut, LicensesTypeOK
  <2>2. QED
    BY <1>0, <2>1, Quiet DEF ActiveLic
<1>9. CASE \/ InstanceTakes \/ Expire \/ LoseLink \/ \E l \in Licenses : Ages(l)
           \/ \E k \in Links : Connect(k) \/ ResendSelect(k) \/ ResendSend(k)
  <2>1. UNCHANGED <<license, grant, together, touched>>
    BY <1>9 DEF InstanceTakes, Expire, LoseLink, Ages, Connect, ResendSelect, ResendSend
  <2>2. QED
    <3>1. Working' = Working /\ ActiveLic' = ActiveLic
      BY <2>1 DEF Working, ActiveLic
    <3>2. CurKnown' /\ WorkTogether'
      BY <2>1, <3>1 DEF IndInv, CurKnown, WorkTogether
    <3>3. InsertKnows'
      BY <2>1, <3>1 DEF IndInv, InsertKnows
    <3>4. OneActiveUnlessOverlapping'
      <4>1. ASSUME NEW k \in ActiveLic, NEW m \in ActiveLic, k # m
            PROVE  \E g \in touched'[k], h \in touched'[m] : {g, h} \in together'
        BY <2>1, <4>1 DEF IndInv, OneActiveUnlessOverlapping
      <4>2. QED
        BY <3>1, <4>1 DEF OneActiveUnlessOverlapping
    <3>5. QED
      BY <1>0, <3>2, <3>3, <3>4 DEF IndInv
<1>10. QED
  BY <1>1, <1>2, <1>3, <1>4, <1>5, <1>6, <1>7, <1>8, <1>9, <1>11 DEF LicensesNext

LEMMA InitHolds == LicensesInit => IndInv
<1> SUFFICES ASSUME LicensesInit PROVE IndInv
  OBVIOUS
<1> USE LicensesAssumption DEF LicensesInit, NoGrant
<1>1. LicensesTypeOK
  BY DEF LicensesTypeOK
<1>2. Working = {} /\ ActiveLic = {}
  BY DEF Working, ActiveLic
<1>3. QED
  BY <1>1, <1>2 DEF IndInv, CurKnown, WorkTogether, InsertKnows, OneActiveUnlessOverlapping

LEMMA Inductive == LicensesSpec => []IndInv
<1>1. IndInv /\ UNCHANGED licenseVars => IndInv'
  BY DEF IndInv, licenseVars, LicensesTypeOK, CurKnown, WorkTogether, InsertKnows,
         OneActiveUnlessOverlapping, Working, ActiveLic
<1>2. IndInv /\ [LicensesNext]_licenseVars => IndInv'
  BY <1>1, StepKeeps
<1>3. QED
  BY <1>2, InitHolds, PTL DEF LicensesSpec

\* Every variable of Licenses keeps its type.
THEOREM LicensesTyped == LicensesSpec => []LicensesTypeOK
<1>1. IndInv => LicensesTypeOK
  BY DEF IndInv
<1>2. QED
  BY <1>1, Inductive, PTL

\* Two active licenses for one feature come from creations that overlapped, for
\* any number of licenses and runs (licenses/router.py:64-69).
THEOREM OneActive == LicensesSpec => []OneActiveUnlessOverlapping
<1>1. IndInv => OneActiveUnlessOverlapping
  BY DEF IndInv
<1>2. QED
  BY <1>1, Inductive, PTL
-----------------------------------------------------------------------------
(* What a revocation leaves on the instance *)

\* No two of the runs that issued or revoked l overlapped, and none was cut.
Lone(l) ==
  \A g, h \in touched[l] : ~(g # h /\ {g, h} \in together) /\ grant[g].pc # "cut"

\* A run that issues tokens is not a revocation, a creation has nothing else
\* ahead of it, and a run that queues a command has left its mark on the license.
RunsKnown ==
  \A g \in Grants :
    /\ grant[g].pc = "insert" => grant[g].todo = {}
    /\ grant[g].pc \in {"insert", "sign"} => grant[g].kind # "revoke"
    /\ grant[g].pc \in {"queue", "send"} => g \in touched[grant[g].cur]

\* Run g has a token of l to sign or to queue, or l ahead of it.
Issues(g, l) ==
  /\ grant[g].kind # "revoke"
  /\ \/ grant[g].pc \in {"sign", "queue"} /\ grant[g].cur = l
     \/ grant[g].pc \in {"sign", "queue", "send", "next"} /\ l \in grant[g].todo

\* One that would still issue a revoked license has met another that left its
\* mark on it: the one that revoked it.
IssuesMeet ==
  \A l \in Licenses : license[l] = "revoked" =>
    \A g \in Grants : Issues(g, l) =>
      \E h \in touched[l] : h # g /\ {g, h} \in together

Token(l, g)   == <<"install", l, g>>
Removal(l, g) == <<"revoke", l, g>>

\* The removal of l by run g is about to be queued, or in the table.
Due(l, g) ==
  \/ Removal(l, g) \in unanswered
  \/ grant[g].pc = "queue" /\ grant[g].kind = "revoke" /\ grant[g].cur = l

TokensMarked == \A l \in Licenses, g \in Grants : Token(l, g) \in unanswered => g \in touched[l]
DueRevoked   == \A l \in Licenses, g \in Grants : Due(l, g) => license[l] = "revoked"
Live         == wire \subseteq unanswered /\ \A k \in Links : batch[k] \subseteq unanswered

\* What a connection that has sent what it held has not on the wire was not
\* accepted, or its run has yet to send it, or was cut short.
SentUp ==
  \A l \in Licenses, g \in Grants :
    /\ serving \in Links /\ Token(l, g) \in unanswered
    /\ stage[serving] \in {"selected", "resent"}
    => \/ Token(l, g) \in wire
       \/ stage[serving] = "selected" /\ Token(l, g) \in batch[serving]
       \/ l \in astray
       \/ grant[g].pc = "cut"
       \/ grant[g].pc = "send" /\ grant[g].kind # "revoke" /\ grant[g].cur = l

\* The tokens of l come before its removals, wherever these stand, and the
\* removal of l is still to be executed or the instance has nothing of l.
OrderHeld(l) ==
  /\ \A g, h \in Grants : Due(l, g) /\ Token(l, h) \in unanswered
       => <<Token(l, h), Removal(l, g)>> \in older
  /\ \A k \in Links, g, h \in Grants : Removal(l, g) \in batch[k] /\ Token(l, h) \in unanswered
       => Token(l, h) \in batch[k]
  /\ \A g, h \in Grants : Removal(l, g) \in wire /\ Token(l, h) \in unanswered
       => Token(l, h) \in wire /\ <<Token(l, h), Removal(l, g)>> \in ahead
  /\ \/ \E g \in Grants : Due(l, g)
     \/ l \notin holds /\ \A h \in Grants : Token(l, h) \notin unanswered

Straight(l) == license[l] = "revoked" /\ Lone(l) /\ l \notin astray

RemovalOrdered == \A l \in Licenses : Straight(l) => OrderHeld(l)

HeldInv ==
  RunsKnown /\ IssuesMeet /\ TokensMarked /\ DueRevoked /\ Live /\ SentUp /\ RemovalOrdered

\* What every step keeps.
Marks ==
  /\ \A l \in Licenses : touched[l] \subseteq touched'[l]
  /\ together \subseteq together'
  /\ \A g \in Grants : grant[g].pc = "cut" => grant'[g].pc = "cut"
  /\ astray \subseteq astray'

\* Run g moves on, and no other.
Goes(g, pc, cur, todo) ==
  /\ grant'[g].pc = pc /\ grant'[g].kind = grant[g].kind
  /\ grant'[g].cur = cur /\ grant'[g].todo = todo
  /\ \A h \in Grants \ {g} : grant'[h] = grant[h]

LEMMA OnwardsGoes ==
  ASSUME LicensesTypeOK, NEW g \in Grants, NEW rest \in SUBSET Licenses, grant' = Onwards(g, rest)
  PROVE  \E pc \in {"done", "next"} : Goes(g, pc, NoLicense, rest)
<1> DEFINE pc == IF rest = {} THEN "done" ELSE "next"
           new == [grant[g] EXCEPT !.pc = pc, !.cur = NoLicense, !.todo = rest]
<1>1. pc \in {"done", "next"}
  OBVIOUS
<1> HIDE DEF pc
<1>2. grant' = [grant EXCEPT ![g] = new]
  BY GrantTyped DEF Onwards, pc
<1>3. new.pc = pc /\ new.kind = grant[g].kind /\ new.cur = NoLicense /\ new.todo = rest
  BY <1>1, GrantTyped DEF GrantRec
<1> HIDE DEF new
<1>4. Goes(g, pc, NoLicense, rest)
  BY <1>2, <1>3, GrantTyped DEF Goes
<1>5. QED
  BY <1>1, <1>4

LEMMA SetGoes ==
  ASSUME LicensesTypeOK, NEW g \in Grants, NEW pc, NEW cur, NEW todo,
         \/ /\ grant' = [grant EXCEPT ![g].pc = pc]
            /\ cur = grant[g].cur /\ todo = grant[g].todo
         \/ /\ grant' = [grant EXCEPT ![g].pc = pc, ![g].cur = cur]
            /\ todo = grant[g].todo
         \/ grant' = [grant EXCEPT ![g].pc = pc, ![g].cur = cur, ![g].todo = todo]
  PROVE  Goes(g, pc, cur, todo)
<1> DEFINE one == [grant[g] EXCEPT !.pc = pc]
           two == [grant[g] EXCEPT !.pc = pc, !.cur = cur]
           three == [grant[g] EXCEPT !.pc = pc, !.cur = cur, !.todo = todo]
<1>1. PICK new \in {one, two, three} :
        /\ grant' = [grant EXCEPT ![g] = new]
        /\ new = one => cur = grant[g].cur /\ todo = grant[g].todo
        /\ new = two => todo = grant[g].todo
  BY GrantTyped DEF GrantRec
<1>2. new.pc = pc /\ new.kind = grant[g].kind /\ new.cur = cur /\ new.todo = todo
  BY <1>1, GrantTyped DEF GrantRec
<1>3. QED
  BY <1>1, <1>2, GrantTyped DEF Goes

LEMMA LoneBefore ==
  ASSUME LicensesTypeOK, Marks, NEW l \in Licenses, Lone(l)'
  PROVE  Lone(l)
<1>1. touched[l] \subseteq touched'[l] /\ touched[l] \subseteq Grants
  BY DEF Marks, LicensesTypeOK
<1>2. QED
  BY <1>1 DEF Lone, Marks

LEMMA RunsKept ==
  ASSUME IndInv, HeldInv, Marks, NEW g \in Grants,
         \A h \in Grants \ {g} : grant'[h] = grant[h],
         grant'[g].pc = "insert" => grant'[g].todo = {},
         grant'[g].pc \in {"insert", "sign"} => grant'[g].kind # "revoke",
         grant'[g].pc \in {"queue", "send"} => g \in touched'[grant'[g].cur]
  PROVE  RunsKnown'
<1> SUFFICES ASSUME NEW h \in Grants \ {g}
             PROVE  /\ grant[h].pc = "insert" => grant[h].todo = {}
                    /\ grant[h].pc \in {"insert", "sign"} => grant[h].kind # "revoke"
                    /\ grant[h].pc \in {"queue", "send"} => h \in touched'[grant[h].cur]
  BY DEF RunsKnown
<1>1. grant[h].pc \in {"queue", "send"} => grant[h].cur \in Licenses
  BY DEF IndInv, CurKnown
<1>2. QED
  BY <1>1 DEF HeldInv, RunsKnown, Marks

\* A run that would issue a revoked license has not been alone on it.
LEMMA IssuesNotLone ==
  ASSUME HeldInv, NEW l \in Licenses, license[l] = "revoked", NEW g \in touched[l], g \in Grants,
         Issues(g, l)
  PROVE  ~Lone(l)
<1>1. PICK h \in touched[l] : h # g /\ {g, h} \in together
  BY DEF HeldInv, IssuesMeet
<1>2. QED
  BY <1>1 DEF Lone

LEMMA IssuesKept ==
  ASSUME HeldInv, Marks, NEW g \in Grants,
         \A h \in Grants \ {g} : grant'[h] = grant[h],
         \A l \in Licenses : license'[l] = "revoked" => license[l] = "revoked",
         \A l \in Licenses : license[l] = "revoked" /\ Issues(g, l)' => Issues(g, l)
  PROVE  IssuesMeet'
<1> SUFFICES ASSUME NEW l \in Licenses, license'[l] = "revoked", NEW h \in Grants, Issues(h, l)'
             PROVE  \E k \in touched'[l] : k # h /\ {h, k} \in together'
  BY DEF IssuesMeet
<1>1. Issues(h, l)
  BY DEF Issues
<1>2. PICK k \in touched[l] : k # h /\ {h, k} \in together
  BY <1>1 DEF HeldInv, IssuesMeet
<1>3. QED
  BY <1>2 DEF Marks

\* A step of run g that revokes nothing, queues nothing and sends nothing.
LEMMA RunStep ==
  ASSUME IndInv, HeldInv, Marks, RunsKnown', NEW g \in Grants,
         \A h \in Grants \ {g} : grant'[h] = grant[h],
         UNCHANGED <<unanswered, linkVars, wireVars, holds, astray>>, older \subseteq older',
         \A l \in Licenses : license'[l] = "revoked" <=> license[l] = "revoked",
         \A l \in Licenses : license[l] = "revoked" /\ Issues(g, l)' => Issues(g, l),
         grant[g].pc = "send" => grant'[g].pc = "cut",
         ~(grant'[g].pc = "queue" /\ grant'[g].kind = "revoke"),
         \A l \in Licenses : grant[g].pc = "queue" /\ grant[g].kind = "revoke" /\ grant[g].cur = l
                               => ~Lone(l)'
  PROVE  HeldInv'
<1>1. IssuesMeet'
  BY IssuesKept
<1>2. TokensMarked' /\ Live'
  BY DEF HeldInv, TokensMarked, Live, Marks
<1>3. \A l \in Licenses, h \in Grants : Due(l, h)' => Due(l, h)
  BY DEF Due
<1>4. DueRevoked'
  BY <1>3 DEF HeldInv, DueRevoked
<1>5. SentUp'
  BY DEF HeldInv, SentUp, Marks
<1>6. RemovalOrdered'
  <2> SUFFICES ASSUME NEW l \in Licenses, Straight(l)'
               PROVE  OrderHeld(l)'
    BY DEF RemovalOrdered
  <2>1. OrderHeld(l)
    BY LoneBefore DEF HeldInv, RemovalOrdered, Straight, IndInv
  <2>2. \A h \in Grants : Due(l, h)' <=> Due(l, h)
    BY <1>3 DEF Due, Straight
  <2>3. QED
    BY <2>1, <2>2 DEF OrderHeld
<1>7. QED
  BY <1>1, <1>2, <1>4, <1>5, <1>6 DEF HeldInv

\* A step of no run: the marks of the runs stay, and what they know.
LEMMA StillStep ==
  ASSUME IndInv, HeldInv, UNCHANGED <<license, grant, touched, together>>, astray \subseteq astray'
  PROVE  /\ Marks /\ RunsKnown' /\ IssuesMeet'
         /\ \A l \in Licenses : Straight(l)' => Straight(l) /\ OrderHeld(l)
<1>1. Marks
  BY DEF Marks
<1>2. RunsKnown' /\ IssuesMeet'
  BY DEF HeldInv, RunsKnown, IssuesMeet, Issues
<1>3. ASSUME NEW l \in Licenses, Straight(l)'
      PROVE  Straight(l)
  BY <1>3 DEF Straight, Lone
<1>4. QED
  BY <1>1, <1>2, <1>3 DEF HeldInv, RemovalOrdered

-----------------------------------------------------------------------------
LEMMA BeginsHeld ==
  ASSUME IndInv, HeldInv, NEW g \in Grants, NEW kind, NEW pc \in {"insert", "next"}, NEW todo,
         Begins(g, kind, pc, todo), pc = "insert" => kind # "revoke" /\ todo = {},
         kind # "revoke" => todo \subseteq ActiveLic
  PROVE  HeldInv'
<1>1. /\ grant[g].pc = "idle"
      /\ grant'[g].pc = pc /\ grant'[g].kind = kind /\ grant'[g].todo = todo
      /\ \A h \in Grants \ {g} : grant'[h] = grant[h]
  BY DEF Begins, IndInv, LicensesTypeOK, NoGrant
<1>2. /\ UNCHANGED <<license, unanswered, older, linkVars, wireVars, holds, touched, astray>>
      /\ together \subseteq together'
  BY DEF Begins
<1>3. Marks
  BY <1>1, <1>2 DEF Marks
<1>4. ASSUME NEW l \in Licenses, license[l] = "revoked", Issues(g, l)'
      PROVE  Issues(g, l)
  BY <1>1, <1>4 DEF Issues, ActiveLic
<1>5. RunsKnown'
  BY <1>1, <1>2, <1>3, RunsKept
<1>6. QED
  BY <1>1, <1>2, <1>3, <1>4, <1>5, RunStep

LEMMA InsertHeld ==
  ASSUME IndInv, HeldInv, NEW g \in Grants, InsertLicense(g)
  PROVE  HeldInv'
<1>1. PICK l \in Licenses :
        /\ license[l] = "none" /\ license' = [license EXCEPT ![l] = "active"]
        /\ grant' = [grant EXCEPT ![g].pc = "sign", ![g].cur = l]
        /\ Touch(g, l)
  BY DEF InsertLicense
<1>2. /\ grant[g].pc = "insert" /\ LicensesTypeOK
      /\ UNCHANGED <<unanswered, older, linkVars, wireVars, holds, together, astray>>
  BY DEF InsertLicense, IndInv
<1>3. Goes(g, "sign", l, grant[g].todo)
  BY <1>1, <1>2, SetGoes
<1>4. Marks
  BY <1>1, <1>2, <1>3, TouchGrows DEF Marks, Goes
<1>5. \A m \in Licenses : license'[m] = "revoked" <=> license[m] = "revoked"
  BY <1>1, <1>2 DEF LicensesTypeOK
<1>6. grant[g].kind # "revoke" /\ grant[g].todo = {}
  BY <1>2 DEF HeldInv, RunsKnown
<1>7. ASSUME NEW m \in Licenses, license[m] = "revoked", Issues(g, m)'
      PROVE  Issues(g, m)
  BY <1>1, <1>3, <1>6, <1>7 DEF Issues, Goes
<1>8. RunsKnown'
  BY <1>3, <1>4, <1>6, RunsKept DEF Goes
<1>9. QED
  BY <1>2, <1>3, <1>4, <1>5, <1>7, <1>8, RunStep DEF Goes

LEMMA SignHeld ==
  ASSUME IndInv, HeldInv, NEW g \in Grants, SignToken(g)
  PROVE  HeldInv'
<1> DEFINE l == grant[g].cur
<1>1. /\ grant[g].pc = "sign" /\ l \in Licenses
      /\ UNCHANGED <<license, unanswered, linkVars, wireVars, holds, together, astray>>
      /\ LicensesTypeOK /\ grant[g].todo \subseteq Licenses
  BY GrantTyped DEF SignToken, IndInv, CurKnown
<1>2. grant[g].kind # "revoke"
  BY <1>1 DEF HeldInv, RunsKnown
<1>3. PICK pc, cur :
        /\ pc \in {"done", "next", "queue"}
        /\ Goes(g, pc, cur, grant[g].todo)
        /\ pc = "queue" => cur = l /\ Touch(g, l)
        /\ pc # "queue" => UNCHANGED touched
        /\ older \subseteq older'
  <2>1. CASE l \in over
    <3>1. grant' = Onwards(g, grant[g].todo) /\ UNCHANGED <<touched, older>>
      BY <2>1 DEF SignToken
    <3>2. QED
      BY <1>1, <3>1, OnwardsGoes
  <2>2. CASE l \notin over
    <3>1. grant' = [grant EXCEPT ![g].pc = "queue"] /\ Touch(g, l) /\ older \subseteq older'
      BY <2>2 DEF SignToken, Makes
    <3>2. Goes(g, "queue", l, grant[g].todo)
      BY <1>1, <3>1, SetGoes
    <3>3. QED
      BY <3>1, <3>2
  <2>3. QED
    BY <2>1, <2>2
<1> HIDE DEF l
<1>4. Marks
  <2>1. \A m \in Licenses : touched[m] \subseteq touched'[m]
    BY <1>1, <1>3, TouchGrows
  <2>2. QED
    BY <1>1, <1>3, <2>1 DEF Marks, Goes
<1>5. pc = "queue" => g \in touched'[l]
  BY <1>1, <1>3 DEF Touch, LicensesTypeOK
<1>6. ASSUME NEW m \in Licenses, license[m] = "revoked", Issues(g, m)'
      PROVE  Issues(g, m)
  BY <1>1, <1>3, <1>6 DEF Issues, Goes, l
<1>7. RunsKnown'
  BY <1>2, <1>3, <1>4, <1>5, RunsKept DEF Goes
<1>8. QED
  BY <1>1, <1>2, <1>3, <1>4, <1>6, <1>7, RunStep DEF Goes

LEMMA RenewHeld ==
  ASSUME IndInv, HeldInv, NEW g \in Grants, RenewNext(g)
  PROVE  HeldInv'
<1>1. /\ grant[g].pc = "next" /\ grant[g].kind = "renew" /\ LicensesTypeOK
      /\ UNCHANGED <<unanswered, older, linkVars, wireVars, holds, touched, together, astray>>
  BY DEF RenewNext, IndInv
<1>2. PICK l \in grant[g].todo :
        \/ /\ \/ license' = [license EXCEPT ![l] = IF @ = "active" THEN "ended" ELSE @]
              \/ license' = license
           /\ grant' = Onwards(g, grant[g].todo \ {l})
        \/ /\ grant' = [grant EXCEPT ![g].pc = "sign", ![g].cur = l, ![g].todo = grant[g].todo \ {l}]
           /\ license' = license
  BY DEF RenewNext
<1>3. l \in Licenses /\ grant[g].todo \ {l} \in SUBSET Licenses
  BY <1>1, <1>2, GrantTyped
<1>4. PICK pc, cur :
        /\ pc \in {"done", "next", "sign"}
        /\ Goes(g, pc, cur, grant[g].todo \ {l})
        /\ pc = "sign" => cur = l
  <2>1. CASE grant' = Onwards(g, grant[g].todo \ {l})
    BY <1>1, <1>3, <2>1, OnwardsGoes
  <2>2. CASE grant' = [grant EXCEPT ![g].pc = "sign", ![g].cur = l, ![g].todo = grant[g].todo \ {l}]
    <3>1. Goes(g, "sign", l, grant[g].todo \ {l})
      BY <1>1, <2>2, SetGoes
    <3>2. QED
      BY <3>1
  <2>3. QED
    BY <1>2, <2>1, <2>2
<1>5. Marks
  BY <1>1, <1>4 DEF Marks, Goes
<1>6. \A m \in Licenses : license'[m] = "revoked" <=> license[m] = "revoked"
  BY <1>1, <1>2, <1>3 DEF LicensesTypeOK
<1>7. ASSUME NEW m \in Licenses, Issues(g, m)'
      PROVE  Issues(g, m)
  BY <1>1, <1>2, <1>4, <1>7 DEF Issues, Goes
<1>8. RunsKnown'
  BY <1>1, <1>4, <1>5, RunsKept DEF Goes
<1>9. QED
  BY <1>1, <1>4, <1>5, <1>6, <1>7, <1>8, RunStep DEF Goes

\* A run that was to queue or to send a command and is cut short has left its
\* mark on the license.
LEMMA CutHeld ==
  ASSUME IndInv, HeldInv, NEW g \in Grants, Cut(g)
  PROVE  HeldInv'
<1>1. /\ g \in Working /\ LicensesTypeOK
      /\ UNCHANGED <<license, unanswered, older, linkVars, wireVars, holds, touched, together,
                     astray>>
  BY DEF Cut, IndInv
<1>2. Goes(g, "cut", grant[g].cur, grant[g].todo)
  BY <1>1, SetGoes DEF Cut
<1>3. Marks
  BY <1>1, <1>2 DEF Marks, Goes
<1>4. ASSUME NEW l \in Licenses, grant[g].pc = "queue", grant[g].cur = l
      PROVE  ~Lone(l)'
  <2>1. g \in touched'[l]
    BY <1>1, <1>4 DEF HeldInv, RunsKnown
  <2>2. QED
    BY <1>2, <2>1 DEF Lone, Goes
<1>5. \A l \in Licenses : ~Issues(g, l)'
  BY <1>2 DEF Issues, Goes
<1>6. RunsKnown'
  BY <1>2, <1>3, RunsKept DEF Goes
<1>7. QED
  BY <1>1, <1>2, <1>3, <1>4, <1>5, <1>6, RunStep DEF Goes

-----------------------------------------------------------------------------
(* The revocation, and the queue *)

\* Every run at work when a license is revoked has met the run that revokes it,
\* and every token in the table is older than the command that is made then.
LEMMA CommitHeld ==
  ASSUME IndInv, HeldInv, NEW g \in Grants, CommitRevocation(g)
  PROVE  HeldInv'
<1>1. PICK l \in grant[g].todo :
        /\ license' = [license EXCEPT ![l] = "revoked"]
        /\ grant' = [grant EXCEPT ![g].pc = "queue", ![g].cur = l, ![g].todo = grant[g].todo \ {l}]
        /\ Makes(Removal(l, g))
        /\ Touch(g, l)
  <2>1. grant \in [Grants -> GrantRec]
    BY GrantTyped DEF IndInv
  <2>2. QED
    BY <2>1 DEF CommitRevocation, Removal
<1>2. /\ grant[g].pc = "next" /\ grant[g].kind = "revoke" /\ l \in Licenses
      /\ UNCHANGED <<unanswered, linkVars, wireVars, holds, together, astray>> /\ LicensesTypeOK
  BY <1>1, GrantTyped DEF CommitRevocation, IndInv
<1>3. Goes(g, "queue", l, grant[g].todo \ {l})
  BY <1>1, <1>2, SetGoes
<1>4. /\ \A m \in Licenses : m # l => license'[m] = license[m] /\ touched'[m] = touched[m]
      /\ touched'[l] = touched[l] \cup {g} /\ license'[l] = "revoked"
  BY <1>1, <1>2 DEF Touch, LicensesTypeOK
<1>5. Marks
  BY <1>1, <1>2, <1>3, TouchGrows DEF Marks, Goes
<1>6. RunsKnown'
  BY <1>2, <1>3, <1>4, <1>5, RunsKept DEF Goes
<1>7. IssuesMeet'
  <2> SUFFICES ASSUME NEW m \in Licenses, license'[m] = "revoked", NEW h \in Grants, Issues(h, m)'
               PROVE  \E k \in touched'[m] : k # h /\ {h, k} \in together'
    BY DEF IssuesMeet
  <2>1. h # g
    BY <1>2, <1>3 DEF Issues, Goes
  <2>2. Issues(h, m)
    BY <1>3, <2>1 DEF Issues, Goes
  <2>3. CASE m = l
    <3>1. h \in Working /\ g \in Working
      BY <1>2, <2>2 DEF Issues, Working
    <3>2. {h, g} \in together
      BY <2>1, <3>1 DEF IndInv, WorkTogether
    <3>3. QED
      BY <1>2, <1>4, <2>1, <2>3, <3>2
  <2>4. CASE m # l
    BY <1>2, <1>4, <2>2, <2>4 DEF HeldInv, IssuesMeet
  <2>5. QED
    BY <2>3, <2>4
<1>8. \A m \in Licenses, h \in Grants : Due(m, h)' <=> Due(m, h) \/ (m = l /\ h = g)
  BY <1>2, <1>3 DEF Due, Goes
<1>9. /\ older \subseteq older'
      /\ \A h \in Grants : Token(l, h) \in unanswered
           => <<Token(l, h), Removal(l, g)>> \in older'
  BY <1>1 DEF Makes, InHand
<1>10. TokensMarked' /\ Live' /\ DueRevoked'
  BY <1>2, <1>4, <1>5, <1>8 DEF HeldInv, TokensMarked, Live, DueRevoked, Marks
<1>11. SentUp'
  BY <1>2, <1>3 DEF HeldInv, SentUp, Goes
<1>12. RemovalOrdered'
  <2> SUFFICES ASSUME NEW m \in Licenses, Straight(m)'
               PROVE  OrderHeld(m)'
    BY DEF RemovalOrdered
  <2>1. CASE license[m] = "revoked"
    <3>1. OrderHeld(m)
      BY <1>2, <1>5, <2>1, LoneBefore DEF HeldInv, RemovalOrdered, Straight
    <3>2. QED
      BY <1>2, <1>8, <1>9, <3>1 DEF OrderHeld
  <2>2. CASE license[m] # "revoked"
    <3>1. m = l
      BY <1>4, <2>2 DEF Straight
    <3>2. \A h \in Grants : ~Due(m, h)
      BY <2>2 DEF HeldInv, DueRevoked
    <3>3. \A h \in Grants : /\ Removal(m, h) \notin wire
                            /\ \A k \in Links : Removal(m, h) \notin batch[k]
      BY <3>2 DEF HeldInv, Live, Due
    <3>4. QED
      BY <1>2, <1>8, <1>9, <3>1, <3>2, <3>3 DEF OrderHeld
  <2>3. QED
    BY <2>1, <2>2
<1>13. QED
  BY <1>6, <1>7, <1>10, <1>11, <1>12 DEF HeldInv

\* A token that is queued is not one of a license that was revoked without an
\* overlap.
LEMMA QueueHeld ==
  ASSUME IndInv, HeldInv, NEW g \in Grants, QueueCommand(g)
  PROVE  HeldInv'
<1> DEFINE l == grant[g].cur
           revokes == grant[g].kind = "revoke"
           c == Order(g)
<1>1. /\ grant[g].pc = "queue" /\ l \in Licenses /\ g \in touched[l]
      /\ unanswered' = unanswered \cup {c}
      /\ UNCHANGED <<license, older, linkVars, wireVars, holds, touched, together, astray>>
      /\ LicensesTypeOK /\ grant[g].todo \subseteq Licenses
  BY GrantTyped DEF QueueCommand, IndInv, CurKnown, HeldInv, RunsKnown
<1>2. c = IF revokes THEN Removal(l, g) ELSE Token(l, g)
  BY DEF Order, Removal, Token
<1>3. Goes(g, "send", l, grant[g].todo)
  BY <1>1, SetGoes DEF QueueCommand
<1> HIDE DEF c
<1>4. Marks
  BY <1>1, <1>3 DEF Marks, Goes
<1>5. RunsKnown'
  BY <1>1, <1>3, <1>4, RunsKept DEF Goes
<1>6. \A m \in Licenses : Issues(g, m)' => Issues(g, m)
  BY <1>1, <1>3 DEF Issues, Goes
<1>7. IssuesMeet'
  BY <1>1, <1>3, <1>4, <1>6, IssuesKept DEF Goes
<1>8. \A m \in Licenses, h \in Grants : Due(m, h)' <=> Due(m, h)
  <2> SUFFICES ASSUME NEW m \in Licenses, NEW h \in Grants
               PROVE  Due(m, h)' <=> Due(m, h)
    OBVIOUS
  <2>1. CASE h = g
    BY <1>1, <1>2, <1>3, <2>1 DEF Due, Removal, Token, Goes
  <2>2. CASE h # g
    BY <1>1, <1>2, <1>3, <2>2 DEF Due, Removal, Token, Goes
  <2>3. QED
    BY <2>1, <2>2
<1>9. \A m \in Licenses, h \in Grants :
        Token(m, h) \in unanswered' => Token(m, h) \in unanswered \/ (m = l /\ h = g /\ ~revokes)
  BY <1>1, <1>2 DEF Removal, Token
<1>10. TokensMarked' /\ Live' /\ DueRevoked'
  BY <1>1, <1>8, <1>9 DEF HeldInv, TokensMarked, Live, DueRevoked
<1>11. SentUp'
  BY <1>1, <1>3, <1>9 DEF HeldInv, SentUp, Goes
<1>12. RemovalOrdered'
  <2> SUFFICES ASSUME NEW m \in Licenses, Straight(m)'
               PROVE  OrderHeld(m)'
    BY DEF RemovalOrdered
  <2>1. Lone(m) /\ license[m] = "revoked" /\ m \notin astray
    BY <1>1, <1>4, LoneBefore DEF Straight
  <2>2. ~(m = l /\ ~revokes)
    <3> SUFFICES ASSUME m = l, ~revokes PROVE FALSE
      OBVIOUS
    <3>1. Issues(g, l)
      BY <1>1 DEF Issues
    <3>2. QED
      BY <1>1, <2>1, <3>1, IssuesNotLone
  <2>3. \A h \in Grants : Token(m, h) \in unanswered' => Token(m, h) \in unanswered
    BY <1>9, <2>2
  <2>4. OrderHeld(m)
    BY <2>1 DEF HeldInv, RemovalOrdered, Straight
  <2>5. QED
    BY <1>1, <1>8, <2>3, <2>4 DEF OrderHeld
<1>13. QED
  BY <1>5, <1>7, <1>10, <1>11, <1>12 DEF HeldInv

\* A removal sent at once, on a connection that has sent what it held, goes
\* behind the tokens: no run has one to send, for it would overlap.
LEMMA SendHeld ==
  ASSUME IndInv, HeldInv, NEW g \in Grants, SendCommand(g)
  PROVE  HeldInv'
<1> DEFINE l == grant[g].cur
           revokes == grant[g].kind = "revoke"
           c == Order(g)
<1>1. /\ grant[g].pc = "send" /\ l \in Licenses /\ g \in touched[l]
      /\ UNCHANGED <<license, unanswered, older, linkVars, holds, touched, together>>
      /\ LicensesTypeOK /\ grant[g].todo \subseteq Licenses
  BY GrantTyped DEF SendCommand, IndInv, CurKnown, HeldInv, RunsKnown
<1>2. /\ c = IF revokes THEN Removal(l, g) ELSE Token(l, g)
      /\ c[1] = (IF revokes THEN "revoke" ELSE "install") /\ c[2] = l
  BY DEF Order, Removal, Token
<1>3. PICK pc \in {"done", "next"} : Goes(g, pc, NoLicense, grant[g].todo)
  BY <1>1, OnwardsGoes DEF SendCommand
<1>4. \/ UNCHANGED <<wireVars, astray>> /\ (serving = NoLink \/ c \notin unanswered)
      \/ /\ serving # NoLink /\ c \in unanswered /\ PutOn({c}, {})
         /\ astray' = astray \cup IF revokes /\ stage[serving] # "resent" THEN {l} ELSE {}
      \/ /\ serving # NoLink /\ c \in unanswered /\ UNCHANGED wireVars
         /\ astray' = astray \cup TokensIn({c})
  BY <1>2 DEF SendCommand
<1> HIDE DEF c
<1>5. wire \subseteq wire' /\ ahead \subseteq ahead' /\ astray \subseteq astray' /\ wire' \subseteq wire \cup {c}
  BY <1>4 DEF PutOn
<1>6. Marks
  BY <1>1, <1>3, <1>5 DEF Marks, Goes
<1>7. RunsKnown'
  BY <1>1, <1>3, <1>6, RunsKept DEF Goes
<1>8. \A m \in Licenses : Issues(g, m)' => Issues(g, m)
  BY <1>1, <1>3 DEF Issues, Goes
<1>9. IssuesMeet'
  BY <1>1, <1>3, <1>6, <1>8, IssuesKept DEF Goes
<1>10. \A m \in Licenses, h \in Grants : Due(m, h)' <=> Due(m, h)
  BY <1>1, <1>3 DEF Due, Goes
<1>11. wire' # wire => c \in unanswered
  BY <1>4
<1>12. TokensMarked' /\ Live' /\ DueRevoked'
  BY <1>1, <1>5, <1>10, <1>11 DEF HeldInv, TokensMarked, Live, DueRevoked
<1>13. SentUp'
  <2> SUFFICES ASSUME NEW m \in Licenses, NEW h \in Grants,
                      serving \in Links, Token(m, h) \in unanswered,
                      stage[serving] \in {"selected", "resent"}
               PROVE  \/ Token(m, h) \in wire'
                      \/ stage[serving] = "selected" /\ Token(m, h) \in batch[serving]
                      \/ m \in astray'
                      \/ grant'[h].pc = "cut"
                      \/ grant'[h].pc = "send" /\ grant'[h].kind # "revoke" /\ grant'[h].cur = m
    BY <1>1 DEF SentUp
  <2>1. CASE h = g /\ ~revokes /\ l = m
    <3>1. c = Token(m, h) /\ serving # NoLink
      BY <1>2, <2>1, LicensesAssumption
    <3>2. CASE PutOn({c}, {})
      BY <3>1, <3>2 DEF PutOn
    <3>3. CASE astray' = astray \cup TokensIn({c})
      <4>1. m \in TokensIn({c})
        BY <1>2, <2>1 DEF TokensIn
      <4>2. QED
        BY <3>3, <4>1
    <3>4. QED
      BY <1>4, <3>1, <3>2, <3>3
  <2>2. CASE ~(h = g /\ ~revokes /\ l = m)
    BY <1>1, <1>3, <1>5, <2>2 DEF HeldInv, SentUp, Goes
  <2>3. QED
    BY <2>1, <2>2
<1>14. RemovalOrdered'
  <2> SUFFICES ASSUME NEW m \in Licenses, Straight(m)'
               PROVE  OrderHeld(m)'
    BY DEF RemovalOrdered
  <2>1. Straight(m)
    BY <1>1, <1>5, <1>6, LoneBefore DEF Straight
  <2>2. OrderHeld(m)
    BY <2>1 DEF HeldInv, RemovalOrdered
  <2>3. ASSUME NEW k \in Grants, NEW h \in Grants, Removal(m, k) \in wire', Token(m, h) \in unanswered
        PROVE  Token(m, h) \in wire' /\ <<Token(m, h), Removal(m, k)>> \in ahead'
    <3>1. CASE Removal(m, k) \in wire
      BY <1>5, <2>2, <2>3, <3>1 DEF OrderHeld
    <3>2. CASE Removal(m, k) \notin wire
      <4>1. Removal(m, k) = c
        BY <1>5, <2>3, <3>2
      <4>2. k = g /\ revokes /\ m = l
        BY <1>2, <4>1 DEF Removal, Token
      <4>3. /\ PutOn({c}, {}) /\ serving # NoLink
            /\ astray' = astray \cup IF revokes /\ stage[serving] # "resent" THEN {l} ELSE {}
        BY <1>4, <2>3, <3>2
      <4>4. stage[serving] = "resent" /\ serving \in Links
        BY <1>1, <4>2, <4>3 DEF Straight, LicensesTypeOK
      <4>5. h \in touched[m] /\ g \in touched[m]
        BY <1>1, <2>3, <4>2 DEF HeldInv, TokensMarked
      <4>6. grant[h].pc # "cut"
        BY <2>1, <4>5 DEF Straight, Lone
      <4>7. ~(grant[h].pc = "send" /\ grant[h].kind # "revoke")
        <5> SUFFICES ASSUME grant[h].pc = "send", grant[h].kind # "revoke" PROVE FALSE
          OBVIOUS
        <5>1. h # g /\ h \in Working /\ g \in Working
          BY <1>1, <4>2 DEF Working
        <5>2. {h, g} \in together
          BY <5>1 DEF IndInv, WorkTogether
        <5>3. QED
          BY <2>1, <4>5, <5>1, <5>2 DEF Straight, Lone
      <4>8. Token(m, h) \in wire
        BY <2>1, <2>3, <4>4, <4>6, <4>7 DEF HeldInv, SentUp, Straight
      <4>9. <<Token(m, h), c>> \in wire \X ({c} \ wire)
        BY <3>2, <4>1, <4>8
      <4>10. <<Token(m, h), c>> \in ahead'
        BY <4>3, <4>9 DEF PutOn
      <4>11. QED
        BY <1>5, <4>1, <4>8, <4>10
    <3>3. QED
      BY <3>1, <3>2
  <2>4. QED
    BY <1>1, <1>10, <2>2, <2>3 DEF OrderHeld
<1>15. QED
  BY <1>7, <1>9, <1>12, <1>13, <1>14 DEF HeldInv

-----------------------------------------------------------------------------
(* The connections *)

\* A resend that has the removal of a license has its tokens, and puts them
\* ahead of it.
LEMMA ResendHeld ==
  ASSUME IndInv, HeldInv, NEW k \in Links, ResendSend(k)
  PROVE  HeldInv'
<1>1. /\ stage[k] = "selected" /\ stage' = [stage EXCEPT ![k] = "resent"]
      /\ batch' = [batch EXCEPT ![k] = {}]
      /\ UNCHANGED <<license, unanswered, older, serving, holds, grant, touched, together>>
      /\ LicensesTypeOK
  BY DEF ResendSend, IndInv
<1>2. PICK S \in SUBSET batch[k] :
        \/ serving = NoLink /\ UNCHANGED <<wireVars, astray>>
        \/ /\ serving # NoLink /\ PutOn(S, older)
           /\ astray' = astray \cup TokensIn(batch[k] \ S)
  BY DEF ResendSend, Selected
<1>3. wire \subseteq wire' /\ ahead \subseteq ahead' /\ astray \subseteq astray' /\ wire' \subseteq wire \cup S
  BY <1>2 DEF PutOn
<1>4. /\ RunsKnown' /\ IssuesMeet'
      /\ \A l \in Licenses : Straight(l)' => Straight(l) /\ OrderHeld(l)
  BY <1>1, <1>3, StillStep
<1>5. \A l \in Licenses, g \in Grants : Due(l, g)' <=> Due(l, g)
  BY <1>1 DEF Due
<1>6. batch[k] \subseteq unanswered /\ \A j \in Links : batch'[j] \subseteq batch[j] /\ batch'[j] \in {{}, batch[j]}
  BY <1>1 DEF HeldInv, Live, LicensesTypeOK
<1>7. TokensMarked' /\ Live' /\ DueRevoked'
  BY <1>1, <1>3, <1>5, <1>6 DEF HeldInv, TokensMarked, Live, DueRevoked
<1>8. ASSUME NEW l \in Licenses, NEW g \in Grants, Token(l, g) \in batch[k], serving # NoLink,
             l \notin astray'
      PROVE  Token(l, g) \in S /\ Token(l, g) \in wire'
  <2>1. PutOn(S, older) /\ astray' = astray \cup TokensIn(batch[k] \ S)
    BY <1>2, <1>8
  <2>2. Token(l, g) \in batch[k] \ S => l \in TokensIn(batch[k] \ S)
    BY DEF TokensIn, Token
  <2>3. QED
    BY <1>8, <2>1, <2>2 DEF PutOn
<1>9. SentUp'
  <2> SUFFICES ASSUME NEW l \in Licenses, NEW g \in Grants,
                      serving \in Links, Token(l, g) \in unanswered,
                      stage'[serving] \in {"selected", "resent"}
               PROVE  \/ Token(l, g) \in wire'
                      \/ stage'[serving] = "selected" /\ Token(l, g) \in batch'[serving]
                      \/ l \in astray'
                      \/ grant[g].pc = "cut"
                      \/ grant[g].pc = "send" /\ grant[g].kind # "revoke" /\ grant[g].cur = l
    BY <1>1 DEF SentUp
  <2>1. CASE serving = k
    <3>1. \/ Token(l, g) \in wire \/ Token(l, g) \in batch[k] \/ l \in astray
          \/ grant[g].pc = "cut"
          \/ grant[g].pc = "send" /\ grant[g].kind # "revoke" /\ grant[g].cur = l
      BY <1>1, <2>1 DEF HeldInv, SentUp
    <3>2. serving # NoLink
      BY LicensesAssumption
    <3>3. QED
      BY <1>3, <1>8, <3>1, <3>2
  <2>2. CASE serving # k
    <3>1. stage'[serving] = stage[serving] /\ batch'[serving] = batch[serving]
      BY <1>1, <2>2 DEF LicensesTypeOK
    <3>2. QED
      BY <1>3, <3>1 DEF HeldInv, SentUp
  <2>3. QED
    BY <2>1, <2>2
<1>10. RemovalOrdered'
  <2> SUFFICES ASSUME NEW l \in Licenses, Straight(l)'
               PROVE  OrderHeld(l)'
    BY DEF RemovalOrdered
  <2>1. Straight(l) /\ OrderHeld(l) /\ l \notin astray'
    BY <1>4 DEF Straight
  <2>2. ASSUME NEW g \in Grants, NEW h \in Grants, Removal(l, g) \in wire', Token(l, h) \in unanswered
        PROVE  Token(l, h) \in wire' /\ <<Token(l, h), Removal(l, g)>> \in ahead'
    <3>1. CASE Removal(l, g) \in wire
      BY <1>3, <2>1, <2>2, <3>1 DEF OrderHeld
    <3>2. CASE Removal(l, g) \notin wire
      <4>1. Removal(l, g) \in S /\ PutOn(S, older) /\ serving # NoLink
        BY <1>2, <1>3, <2>2, <3>2, LicensesAssumption DEF PutOn
      <4>2. Token(l, h) \in batch[k] /\ Due(l, g)
        BY <1>6, <2>1, <2>2, <4>1 DEF OrderHeld, Due
      <4>3. Token(l, h) \in S /\ Token(l, h) \in wire'
        BY <1>8, <2>1, <4>1, <4>2
      <4>4. <<Token(l, h), Removal(l, g)>> \in older
        BY <2>1, <2>2, <4>2 DEF OrderHeld
      <4>5. CASE Token(l, h) \in wire
        <5>1. <<Token(l, h), Removal(l, g)>> \in wire \X (S \ wire)
          BY <3>2, <4>1, <4>5
        <5>2. QED
          BY <4>1, <4>3, <5>1 DEF PutOn
      <4>6. CASE Token(l, h) \notin wire
        <5> DEFINE p == <<Token(l, h), Removal(l, g)>>
        <5>1. p \in older /\ p[1] \in S \ wire /\ p[2] \in S \ wire
          BY <3>2, <4>1, <4>3, <4>4, <4>6
        <5> HIDE DEF p
        <5>2. p \in ahead'
          BY <4>1, <5>1 DEF PutOn
        <5>3. QED
          BY <4>3, <5>2 DEF p
      <4>7. QED
        BY <4>5, <4>6
    <3>3. QED
      BY <3>1, <3>2
  <2>3. ASSUME NEW j \in Links, NEW g \in Grants, NEW h \in Grants,
               Removal(l, g) \in batch'[j], Token(l, h) \in unanswered
        PROVE  Token(l, h) \in batch'[j]
    BY <1>6, <2>1, <2>3 DEF OrderHeld
  <2>4. QED
    BY <1>1, <1>5, <2>1, <2>2, <2>3 DEF OrderHeld
<1>11. QED
  BY <1>4, <1>7, <1>9, <1>10 DEF HeldInv

LEMMA ConnectHeld ==
  ASSUME IndInv, HeldInv, NEW k \in Links, Connect(k) \/ ResendSelect(k)
  PROVE  HeldInv'
<1>1. UNCHANGED <<license, unanswered, older, holds, grant, touched, together, astray>>
  BY DEF Connect, ResendSelect
<1>2. /\ RunsKnown' /\ IssuesMeet'
      /\ \A l \in Licenses : Straight(l)' => Straight(l) /\ OrderHeld(l)
  BY <1>1, StillStep
<1>3. \A l \in Licenses, g \in Grants : Due(l, g)' <=> Due(l, g)
  BY <1>1 DEF Due
<1>4. CASE Connect(k)
  <2>1. serving' = k /\ stage'[k] = "registered" /\ wire' = {} /\ ahead' = {} /\ batch' = batch
    BY <1>4 DEF Connect, IndInv, LicensesTypeOK
  <2>2. TokensMarked' /\ Live' /\ DueRevoked' /\ SentUp'
    BY <1>1, <1>3, <2>1 DEF HeldInv, TokensMarked, Live, DueRevoked, SentUp
  <2>3. RemovalOrdered'
    BY <1>1, <1>2, <1>3, <2>1 DEF RemovalOrdered, OrderHeld
  <2>4. QED
    BY <1>2, <2>2, <2>3 DEF HeldInv
<1>5. CASE ResendSelect(k)
  <2>1. /\ UNCHANGED <<serving, wireVars>>
        /\ stage'[k] = "selected" /\ batch'[k] = unanswered
        /\ \A j \in Links \ {k} : stage'[j] = stage[j] /\ batch'[j] = batch[j]
    BY <1>5 DEF ResendSelect, IndInv, LicensesTypeOK
  <2>2. TokensMarked' /\ Live' /\ DueRevoked'
    BY <1>1, <1>3, <2>1 DEF HeldInv, TokensMarked, Live, DueRevoked
  <2>3. SentUp'
    BY <1>1, <2>1 DEF HeldInv, SentUp
  <2>4. RemovalOrdered'
    BY <1>1, <1>2, <1>3, <2>1 DEF RemovalOrdered, OrderHeld
  <2>5. QED
    BY <1>2, <2>2, <2>3, <2>4 DEF HeldInv
<1>6. QED
  BY <1>4, <1>5

LEMMA LoseHeld ==
  ASSUME IndInv, HeldInv, LoseLink
  PROVE  HeldInv'
<1>1. /\ UNCHANGED <<license, unanswered, older, batch, holds, grant, touched, together, astray>>
      /\ serving' \notin Links /\ wire' = {} /\ ahead' = {}
  BY LicensesAssumption DEF LoseLink
<1>2. /\ RunsKnown' /\ IssuesMeet'
      /\ \A l \in Licenses : Straight(l)' => Straight(l) /\ OrderHeld(l)
  BY <1>1, StillStep
<1>3. \A l \in Licenses, g \in Grants : Due(l, g)' <=> Due(l, g)
  BY <1>1 DEF Due
<1>4. TokensMarked' /\ Live' /\ DueRevoked' /\ SentUp'
  BY <1>1, <1>3 DEF HeldInv, TokensMarked, Live, DueRevoked, SentUp
<1>5. RemovalOrdered'
  BY <1>1, <1>2, <1>3 DEF RemovalOrdered, OrderHeld
<1>6. QED
  BY <1>2, <1>4, <1>5 DEF HeldInv

\* A command that is over leaves the order of the others as it was; when it is
\* the removal the instance executed, no token of the license is left.
LEMMA OverHeld ==
  ASSUME IndInv, HeldInv, NEW c \in Orders, Over(c),
         UNCHANGED <<license, serving, stage, grant, touched, together>>, astray \subseteq astray',
         \A l \in Licenses : l \in holds' /\ l \notin holds
           => \E g \in Grants : c = Token(l, g),
         \A l \in Licenses, g \in Grants : c = Removal(l, g) /\ l \notin astray'
           => /\ l \notin holds' /\ c \in wire
              /\ \A d \in wire : <<d, c>> \notin ahead,
         c \in unanswered
  PROVE  HeldInv'
<1>1. /\ unanswered' = unanswered \ {c} /\ wire' = wire \ {c} /\ LicensesTypeOK
      /\ \A k \in Links : batch'[k] = batch[k] \ {c}
      /\ older' = {p \in older : p[1] # c /\ p[2] # c}
      /\ ahead' = {p \in ahead : p[1] # c /\ p[2] # c}
  BY DEF Over, IndInv
<1>2. /\ RunsKnown' /\ IssuesMeet'
      /\ \A l \in Licenses : Straight(l)' => Straight(l) /\ OrderHeld(l)
  BY StillStep
<1>3. \A l \in Licenses, g \in Grants : /\ Due(l, g)' => Due(l, g)
                                        /\ Due(l, g) /\ c # Removal(l, g) => Due(l, g)'
  BY <1>1 DEF Due
<1>4. TokensMarked' /\ Live' /\ DueRevoked'
  BY <1>1, <1>3 DEF HeldInv, TokensMarked, Live, DueRevoked
<1>5. SentUp'
  BY <1>1 DEF HeldInv, SentUp
<1>6. RemovalOrdered'
  <2> SUFFICES ASSUME NEW l \in Licenses, Straight(l)'
               PROVE  OrderHeld(l)'
    BY DEF RemovalOrdered
  <2>1. OrderHeld(l) /\ l \notin astray'
    BY <1>2 DEF Straight
  <2>2. ASSUME NEW g \in Grants, NEW h \in Grants,
               Token(l, h) \in unanswered', Removal(l, g) # c
        PROVE  /\ <<Token(l, h), Removal(l, g)>> \in older
                    => <<Token(l, h), Removal(l, g)>> \in older'
               /\ <<Token(l, h), Removal(l, g)>> \in ahead
                    => <<Token(l, h), Removal(l, g)>> \in ahead'
    BY <1>1, <2>2
  <2>3. ASSUME NEW g \in Grants, NEW h \in Grants, Due(l, g)', Token(l, h) \in unanswered'
        PROVE  <<Token(l, h), Removal(l, g)>> \in older'
    <3>1. CASE Removal(l, g) # c
      BY <1>1, <1>3, <2>1, <2>2, <2>3, <3>1 DEF OrderHeld
    <3>2. CASE Removal(l, g) = c
      <4>1. c \in wire /\ <<Token(l, h), Removal(l, g)>> \in ahead /\ Token(l, h) \in wire
        BY <1>1, <2>1, <2>3, <3>2 DEF OrderHeld
      <4>2. QED
        BY <2>1, <3>2, <4>1
    <3>3. QED
      BY <3>1, <3>2
  <2>4. ASSUME NEW k \in Links, NEW g \in Grants, NEW h \in Grants,
               Removal(l, g) \in batch'[k], Token(l, h) \in unanswered'
        PROVE  Token(l, h) \in batch'[k]
    BY <1>1, <2>1, <2>4 DEF OrderHeld
  <2>5. ASSUME NEW g \in Grants, NEW h \in Grants,
               Removal(l, g) \in wire', Token(l, h) \in unanswered'
        PROVE  Token(l, h) \in wire' /\ <<Token(l, h), Removal(l, g)>> \in ahead'
    BY <1>1, <2>1, <2>2, <2>5 DEF OrderHeld
  <2>6. \/ \E g \in Grants : Due(l, g)'
        \/ l \notin holds' /\ \A h \in Grants : Token(l, h) \notin unanswered'
    <3>1. CASE \E g \in Grants : c = Removal(l, g)
      <4>1. PICK g \in Grants : c = Removal(l, g)
        BY <3>1
      <4>2. l \notin holds' /\ c \in wire /\ \A d \in wire : <<d, c>> \notin ahead
        BY <2>1, <4>1
      <4>3. \A h \in Grants : Token(l, h) \notin unanswered
        BY <2>1, <4>1, <4>2 DEF OrderHeld
      <4>4. QED
        BY <1>1, <4>2, <4>3
    <3>2. CASE /\ ~\E g \in Grants : c = Removal(l, g)
               /\ \E g \in Grants : Due(l, g)
      BY <1>3, <3>2
    <3>3. CASE l \notin holds /\ \A h \in Grants : Token(l, h) \notin unanswered
      BY <1>1, <3>3
    <3>4. QED
      BY <2>1, <3>1, <3>2, <3>3 DEF OrderHeld
  <2>7. QED
    BY <2>3, <2>4, <2>5, <2>6 DEF OrderHeld
<1>7. QED
  BY <1>2, <1>4, <1>5, <1>6 DEF HeldInv

LEMMA OrderShape ==
  ASSUME NEW c \in Orders
  PROVE  /\ c[1] = "revoke" => c = Removal(c[2], c[3])
         /\ c[1] # "revoke" => c = Token(c[2], c[3])
         /\ c[2] \in Licenses /\ c[3] \in Grants
BY DEF Orders, Removal, Token

LEMMA TakesHeld ==
  ASSUME IndInv, HeldInv, InstanceTakes
  PROVE  HeldInv'
<1>1. PICK c \in wire :
        /\ \A d \in wire : <<d, c>> \notin ahead
        /\ holds' = IF c[1] = "revoke" THEN holds \ {c[2]}
                    ELSE IF signed[c[2]] # "lapsed" THEN holds \cup {c[2]} ELSE holds
        /\ Over(c)
  BY DEF InstanceTakes
<1>2. c \in Orders /\ c \in unanswered
  BY DEF IndInv, LicensesTypeOK, HeldInv, Live
<1>3. ASSUME NEW l \in Licenses, l \in holds', l \notin holds
      PROVE  \E g \in Grants : c = Token(l, g)
  <2>1. c[1] # "revoke" /\ l = c[2]
    BY <1>1, <1>3
  <2>2. QED
    BY <1>2, <2>1, OrderShape
<1>4. ASSUME NEW l \in Licenses, NEW g \in Grants, c = Removal(l, g)
      PROVE  l \notin holds'
  <2>1. c[1] = "revoke" /\ c[2] = l
    BY <1>4 DEF Removal
  <2>2. QED
    BY <1>1, <2>1
<1>5. UNCHANGED <<license, serving, stage, grant, touched, together, astray>>
  BY DEF InstanceTakes
<1>6. QED
  BY <1>1, <1>2, <1>3, <1>4, <1>5, OverHeld

LEMMA ExpireHeld ==
  ASSUME IndInv, HeldInv, Expire
  PROVE  HeldInv'
<1>1. PICK c \in unanswered :
        /\ astray' = astray \cup IF c[1] = "revoke" THEN {c[2]} ELSE {}
        /\ Over(c)
  BY DEF Expire
<1>2. c \in Orders
  BY DEF IndInv, LicensesTypeOK
<1>3. ASSUME NEW l \in Licenses, NEW g \in Grants, c = Removal(l, g)
      PROVE  l \in astray'
  <2>1. c[1] = "revoke" /\ c[2] = l
    BY <1>3 DEF Removal
  <2>2. QED
    BY <1>1, <2>1
<1>4. UNCHANGED <<license, serving, stage, holds, grant, touched, together>>
  BY DEF Expire
<1>5. QED
  BY <1>1, <1>2, <1>3, <1>4, OverHeld

LEMMA AgesHeld ==
  ASSUME IndInv, HeldInv, NEW l \in Licenses, Ages(l)
  PROVE  HeldInv'
<1>1. /\ UNCHANGED <<license, unanswered, older, linkVars, wireVars, grant, touched, together,
                     astray>>
      /\ holds' \subseteq holds
  BY DEF Ages
<1>2. /\ RunsKnown' /\ IssuesMeet'
      /\ \A m \in Licenses : Straight(m)' => Straight(m) /\ OrderHeld(m)
  BY <1>1, StillStep
<1>3. \A m \in Licenses, g \in Grants : Due(m, g)' <=> Due(m, g)
  BY <1>1 DEF Due
<1>4. TokensMarked' /\ Live' /\ DueRevoked' /\ SentUp'
  BY <1>1, <1>3 DEF HeldInv, TokensMarked, Live, DueRevoked, SentUp
<1>5. RemovalOrdered'
  BY <1>1, <1>2, <1>3 DEF RemovalOrdered, OrderHeld
<1>6. QED
  BY <1>2, <1>4, <1>5 DEF HeldInv

LEMMA HeldStep ==
  ASSUME IndInv, HeldInv, LicensesNext
  PROVE  HeldInv'
<1>1. ASSUME NEW g \in Grants, CreateReads(g)
      PROVE  HeldInv'
  BY <1>1, BeginsHeld DEF CreateReads
<1>2. ASSUME NEW g \in Grants, RevokeLicenseReads(g) \/ RemoveLicenseReads(g)
      PROVE  HeldInv'
  <2>1. PICK todo : Begins(g, "revoke", "next", todo)
    BY <1>2 DEF RevokeLicenseReads, RemoveLicenseReads
  <2>2. QED
    BY <2>1, BeginsHeld
<1>3. ASSUME NEW g \in Grants, RenewReads(g)
      PROVE  HeldInv'
  <2>1. PICK todo \in SUBSET ActiveLic : Begins(g, "renew", "next", todo)
    BY <1>3 DEF RenewReads
  <2>2. QED
    BY <2>1, BeginsHeld
<1>4. QED
  BY <1>1, <1>2, <1>3, InsertHeld, SignHeld, CommitHeld, RenewHeld, QueueHeld, SendHeld, CutHeld,
     ConnectHeld, ResendHeld, LoseHeld, TakesHeld, ExpireHeld, AgesHeld
     DEF LicensesNext

\* A revoked license stays on the instance only when a run that issued its
\* token overlapped with the revocation, or was cut short, or its commands went
\* astray: for any licenses, runs, errors and connections
\* (licenses/service.py:84, agents/dispatcher.py:61-82, 125-136).
THEOREM Removed == LicensesSpec => []HeldOnlyOverlapping
<1>1. LicensesInit => HeldInv
  <2> SUFFICES ASSUME LicensesInit PROVE HeldInv
    OBVIOUS
  <2>1. /\ \A g \in Grants : grant[g] = NoGrant
        /\ \A l \in Licenses : license[l] = "none"
        /\ unanswered = {} /\ wire = {} /\ serving \notin Links
        /\ \A k \in Links : batch[k] = {}
    BY LicensesAssumption DEF LicensesInit
  <2>2. RunsKnown
    BY <2>1 DEF RunsKnown, NoGrant
  <2>3. \A l \in Licenses, g \in Grants : ~Due(l, g)
    BY <2>1 DEF Due, NoGrant
  <2>4. IssuesMeet /\ RemovalOrdered
    BY <2>1 DEF IssuesMeet, RemovalOrdered, Straight
  <2>5. TokensMarked /\ DueRevoked /\ Live
    BY <2>1, <2>3 DEF TokensMarked, DueRevoked, Live
  <2>6. SentUp
    BY <2>1 DEF SentUp
  <2>7. QED
    BY <2>2, <2>4, <2>5, <2>6 DEF HeldInv
<1>2. IndInv /\ HeldInv /\ [LicensesNext]_licenseVars => HeldInv'
  <2>1. ASSUME IndInv, HeldInv, UNCHANGED licenseVars
        PROVE  HeldInv'
    <3>1. /\ UNCHANGED <<license, unanswered, older, linkVars, wireVars, holds, grant, touched,
                         together, astray>>
      BY <2>1 DEF licenseVars
    <3>2. /\ RunsKnown' /\ IssuesMeet'
          /\ \A l \in Licenses : Straight(l)' => OrderHeld(l)
      BY <2>1, <3>1, StillStep
    <3>3. \A l \in Licenses, g \in Grants : Due(l, g)' <=> Due(l, g)
      BY <3>1 DEF Due
    <3>4. TokensMarked' /\ DueRevoked' /\ Live' /\ SentUp'
      BY <2>1, <3>1, <3>3 DEF HeldInv, TokensMarked, DueRevoked, Live, SentUp
    <3>5. RemovalOrdered'
      BY <3>1, <3>2, <3>3 DEF RemovalOrdered, OrderHeld
    <3>6. QED
      BY <3>2, <3>4, <3>5 DEF HeldInv
  <2>2. QED
    BY <2>1, HeldStep
<1>3. IndInv /\ HeldInv => HeldOnlyOverlapping
  <2> SUFFICES ASSUME IndInv, HeldInv, NEW l \in holds, Withdrawn(l), Lone(l), l \notin astray
               PROVE  FALSE
    BY DEF HeldOnlyOverlapping, Lone
  <2>1. l \in Licenses
    BY DEF IndInv, LicensesTypeOK
  <2>2. OrderHeld(l)
    BY <2>1 DEF HeldInv, RemovalOrdered, Straight, Withdrawn
  <2>3. ASSUME NEW g \in Grants, Due(l, g)
        PROVE  FALSE
    <3>1. CASE Removal(l, g) \in unanswered
      <4>1. Removal(l, g)[2] = l
        BY DEF Removal
      <4>2. QED
        BY <3>1, <4>1 DEF Withdrawn
    <3>2. CASE grant[g].pc = "queue" /\ grant[g].cur = l
      BY <3>2 DEF Withdrawn, Working
    <3>3. QED
      BY <2>3, <3>1, <3>2 DEF Due
  <2>4. QED
    BY <2>2, <2>3 DEF OrderHeld
<1>4. QED
  BY <1>1, <1>2, <1>3, Inductive, PTL DEF LicensesSpec
=============================================================================
