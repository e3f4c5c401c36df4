-------------------------- MODULE OperatorsProofs ---------------------------
(***************************************************************************)
(* Proofs about module Operators, for any visits, backup codes and limits.   *)
(*                                                                         *)
(* A visit decides on the row it read and writes what it changed in it: the  *)
(* invariant says of a visit under way what its copy can still hold of what  *)
(* was committed before it began (CodesGone, StepsPast), and of a revocation *)
(* that it ends whatever was issued before it began (EndedCovers,            *)
(* RevokedDead).  A visit that did not begin after another overlaps with it, *)
(* which the properties allow for; the commits then need no other order.     *)
(***************************************************************************)
EXTENDS Operators, TLAPS

Used     == [secret : Secrets, code : Nat \cup Codes]
VisitRec ==
  [pc : {"idle", "read", "write", "done", "refused"}, kind : Kinds \cup {"none", "lock"},
   via : Visits \cup {NoVisit}, copy : Account, new : Account, ended : SUBSET Visits,
   gives : SessionKinds, used : Used]

OperatorsTyped ==
  /\ account \in Account /\ exists \in BOOLEAN /\ dead \subseteq Visits
  /\ failures \in Nat /\ now \in 1..MaxStep
  /\ given \in [Visits -> SessionKinds] /\ began \in [Visits -> SUBSET Visits]
  /\ visit \in [Visits -> VisitRec]

-----------------------------------------------------------------------------
(* What began before what *)

History ==
  /\ Issued \subseteq Made
  /\ \A v \in Visits : began[v] \subseteq Made
  /\ \A v \in Ongoing \cup Made : v \notin began[v]
  /\ \A v \in Visits : \A r \in began[v] : began[r] \subseteq began[v]

\* A visit under way that needs the secret found one.
HasSecret ==
  \A v \in Ongoing : visit[v].kind \in {"second", "setup2fa", "on", "codes"} =>
    visit[v].copy.secret # NoVisit

Undecided == \A v \in Ongoing : visit[v].pc = "read" => visit[v].used = NoCode

Base == OperatorsTyped /\ History /\ HasSecret /\ Undecided
-----------------------------------------------------------------------------
(* Sessions *)

EndedCovers ==
  \A q \in Visits : visit[q].pc = "write" => Issued \cap began[q] \subseteq visit[q].ended

Beside(r) == \E q \in Revocations : AtOnce(q, r)

RevokedDead == \A r \in Revocations : Issued \cap began[r] \subseteq dead \/ Beside(r)

ViaMet ==
  \A t \in Ongoing \cup Made : visit[t].via # NoVisit =>
    \A r \in Revocations \cap began[t] : visit[t].via \in began[r] => Beside(r)

SessionsInv == EndedCovers /\ RevokedDead /\ ViaMet
-----------------------------------------------------------------------------
(* Codes *)

\* Its step, or its backup codes, may have been written back by another.
Overlapped(v) == \E x \in Uses : AtOnce(v, x) /\ Alike(v, x)

\* What a visit has decided to write and to have used, of what it read.
Sound(v, copy, new, used, t) ==
  /\ new.codes \subseteq copy.codes
  /\ \/ new.codes \in {copy.codes, {}}
     \/ used.secret = NoVisit /\ used # NoCode
  /\ new.secret \in {copy.secret, v, NoVisit}
  /\ new.step = copy.step \/ new.secret = v \/ used.secret # NoVisit
  /\ used.secret = NoVisit /\ used # NoCode =>
       used.code \in copy.codes /\ used.code \notin new.codes
  /\ used.secret # NoVisit =>
       /\ used.secret = copy.secret /\ new.secret = copy.secret
       /\ used.code \in Nat /\ used.code = new.step
       /\ copy.step < used.code /\ used.code <= t

DecisionsSound == \A v \in Visits : visit[v].pc = "write" =>
                    Sound(v, visit[v].copy, visit[v].new, visit[v].used, now)

SecretsMade ==
  /\ account.secret \in Made \cup {NoVisit}
  /\ \A v \in Ongoing : visit[v].copy.secret \in Made \cup {NoVisit}
  /\ \A v \in Made : visit[v].used.secret \in Made \cup {NoVisit}

UsesPast ==
  \A v \in Made : visit[v].used.secret # NoVisit =>
    visit[v].used.code \in Nat /\ visit[v].used.code <= now

CodesGone ==
  \A v \in Made : visit[v].used.secret = NoVisit /\ visit[v].used # NoCode =>
    \/ Overlapped(v)
    \/ /\ visit[v].used.code \notin account.codes
       /\ \A y \in Ongoing : v \in began[y] => visit[v].used.code \notin visit[y].copy.codes

StepsPast ==
  \A v \in Made : visit[v].used.secret # NoVisit =>
    \/ Overlapped(v)
    \/ /\ account.secret = visit[v].used.secret => account.step >= visit[v].used.code
       /\ \A y \in Ongoing : v \in began[y] =>
            /\ visit[y].copy.secret = visit[v].used.secret =>
                 visit[y].copy.step >= visit[v].used.code
            /\ visit[y].pc = "write" /\ visit[y].used.secret # NoVisit =>
                 visit[y].used.code >= visit[v].used.code

CodesInv == /\ DecisionsSound /\ SecretsMade /\ UsesPast /\ CodesGone /\ StepsPast
            /\ CodeServesOnce

IndInv == Base /\ SessionsInv /\ CodesInv
-----------------------------------------------------------------------------
(* The steps *)

\* A visit begins: with a copy of the row, after what is made.
Begins(v) ==
  \E kind \in Kinds, t \in Visits \cup {NoVisit} :
    /\ visit[v].pc = "idle"
    /\ t # NoVisit => t \in Issued \ dead
    /\ kind \in {"second", "setup2fa", "on", "codes"} => account.secret # NoVisit
    /\ visit' = [visit EXCEPT ![v] = [NotBegun EXCEPT !.pc = "read", !.kind = kind, !.via = t,
                                                      !.copy = account]]
    /\ began' = [began EXCEPT ![v] = Made]
    /\ UNCHANGED <<account, exists, dead, now, given>>
    /\ failures' \in Nat

\* It decides.
Decides(v) ==
  \E j \in VisitRec :
    /\ visit[v].pc = "read"
    /\ visit' = [visit EXCEPT ![v] = j]
    /\ j.pc = "write" /\ j.via = visit[v].via /\ j.copy = visit[v].copy
    /\ j.kind \in {visit[v].kind, "lock"} /\ j.ended = Issued
    /\ Sound(v, j.copy, j.new, j.used, now)
    /\ j.used.secret # NoVisit => j.used.code = now
    /\ UNCHANGED <<account, exists, dead, now, given, began>>
    /\ failures' \in Nat

\* Some that are under way end without a commit.
Drops ==
  \E D \in SUBSET Ongoing :
    /\ visit' = [v \in Visits |-> IF v \in D THEN [NotBegun EXCEPT !.pc = "refused"] ELSE visit[v]]
    /\ began' = [v \in Visits |-> IF v \in D THEN {} ELSE began[v]]
    /\ UNCHANGED <<account, exists, dead, now, given>>
    /\ failures' \in Nat

LEMMA Blank ==
  /\ Active0 \in Account /\ NoCode \in Used /\ NotBegun \in VisitRec
  /\ Active0 = [active |-> TRUE, password |-> NoVisit, must |-> FALSE, totp |-> FALSE,
                secret |-> NoVisit, locked |-> FALSE, codes |-> Codes, step |-> 0]
  /\ NotBegun = [pc |-> "idle", kind |-> "none", via |-> NoVisit, copy |-> Active0, new |-> Active0,
                 ended |-> {}, gives |-> "none", used |-> NoCode]
  /\ NoCode = [secret |-> NoVisit, code |-> 0]
<1>1. Active0 \in Account
  BY DEF Active0, Account, Secrets
<1>2. NoCode \in Used
  BY DEF NoCode, Used, Secrets
<1>3. NotBegun \in VisitRec
  BY <1>1, <1>2 DEF NotBegun, VisitRec, SessionKinds
<1>4. QED
  BY <1>1, <1>2, <1>3 DEF Active0, NotBegun, NoCode

LEMMA Decided ==
  ASSUME OperatorsTyped, NEW v \in Visits, NEW new \in Account, NEW gives \in SessionKinds,
         NEW used \in Used, Decide(v, new, gives, used), failures' \in Nat,
         Sound(v, visit[v].copy, new, used, now), used.secret # NoVisit => used.code = now
  PROVE  Decides(v)
<1> DEFINE j == [visit[v] EXCEPT !.pc = "write", !.new = new, !.gives = gives, !.ended = Issued,
                                 !.used = used]
<1>1. visit \in [Visits -> VisitRec] /\ visit[v] \in VisitRec
  BY DEF OperatorsTyped
<1>2. visit[v].pc = "read" /\ visit' = [visit EXCEPT ![v] = j]
      /\ UNCHANGED <<account, exists, dead, now, given, began>>
  BY <1>1 DEF Decide
<1>3. Issued \in SUBSET Visits
  BY DEF Issued
<1>4. j \in VisitRec /\ j.pc = "write" /\ j.via = visit[v].via /\ j.copy = visit[v].copy
      /\ j.kind = visit[v].kind /\ j.new = new /\ j.used = used /\ j.ended = Issued
  BY <1>1, <1>3 DEF VisitRec
<1> HIDE DEF j
<1>5. QED
  BY <1>2, <1>4 DEF Decides

\* A row that keeps its second factor, or loses it.
LEMMA Edited ==
  ASSUME OperatorsTyped, NEW v \in Visits, NEW kind, NEW new \in Account, Edit(v, kind, new),
         new.codes \in {visit[v].copy.codes, {}},
         \/ new.secret \in {visit[v].copy.secret, NoVisit} /\ new.step = visit[v].copy.step
         \/ new.secret = v
  PROVE  Decides(v)
<1>1. NoCode \in Used /\ NoCode.secret = NoVisit /\ "none" \in SessionKinds
  BY Blank DEF SessionKinds
<1>2. Sound(v, visit[v].copy, new, NoCode, now)
  BY <1>1 DEF Sound
<1>3. Decide(v, new, "none", NoCode) /\ failures' \in Nat
  BY DEF Edit, OperatorsTyped
<1>4. QED
  BY <1>1, <1>2, <1>3, Decided

\* A TOTP code is used.
LEMMA ByCode ==
  ASSUME OperatorsTyped, NEW v \in Visits, NEW acc \in Account, acc = visit[v].copy,
         acc.secret # NoVisit, TotpFits(acc), NEW new \in Account, NEW gives \in SessionKinds,
         new.secret = acc.secret, new.step = now, new.codes \in {acc.codes, {}},
         Decide(v, new, gives, TotpUse(acc)), failures' \in Nat
  PROVE  Decides(v)
<1>1. /\ now \in Nat /\ acc.step \in Nat /\ acc.secret \in Secrets
      /\ acc.step < now
  BY OperatorsAssumption DEF OperatorsTyped, Account, TotpFits
<1>2. /\ TotpUse(acc) \in Used /\ TotpUse(acc).secret = acc.secret /\ TotpUse(acc).code = now
  BY <1>1 DEF TotpUse, Used
<1>3. Sound(v, visit[v].copy, new, TotpUse(acc), now)
  BY <1>1, <1>2 DEF Sound
<1>4. QED
  BY <1>2, <1>3, Decided


LEMMA RowsWritten ==
  ASSUME NEW acc \in Account, NEW v \in Visits, now \in Nat
  PROVE  /\ NewPassword(acc, v) \in Account /\ NewPassword(acc, v).codes = acc.codes
         /\ NewPassword(acc, v).secret = acc.secret /\ NewPassword(acc, v).step = acc.step
         /\ Without2fa(acc) \in Account /\ Without2fa(acc).codes = {}
         /\ Without2fa(acc).secret = NoVisit /\ Without2fa(acc).step = acc.step
         /\ ByTotp(acc) \in Account /\ ByTotp(acc).codes = acc.codes
         /\ ByTotp(acc).secret = acc.secret /\ ByTotp(acc).step = now
         /\ Enabled(acc) \in Account /\ Enabled(acc).codes = acc.codes
         /\ Enabled(acc).secret = acc.secret /\ Enabled(acc).step = now
         /\ \A c : /\ Spent(acc, c) \in Account /\ Spent(acc, c).codes = acc.codes \ {c}
                   /\ Spent(acc, c).secret = acc.secret /\ Spent(acc, c).step = acc.step
<1>1. \A c : acc.codes \ {c} \in SUBSET Codes
  BY DEF Account
<1>2. ASSUME NEW c
      PROVE  /\ Spent(acc, c) \in Account /\ Spent(acc, c).codes = acc.codes \ {c}
             /\ Spent(acc, c).secret = acc.secret /\ Spent(acc, c).step = acc.step
  BY <1>1 DEF Account, Spent
<1>3. /\ ByTotp(acc) \in Account /\ ByTotp(acc).codes = acc.codes
      /\ ByTotp(acc).secret = acc.secret /\ ByTotp(acc).step = now
  BY DEF Account, ByTotp
<1>4. /\ Enabled(acc) \in Account /\ Enabled(acc).codes = acc.codes
      /\ Enabled(acc).secret = acc.secret /\ Enabled(acc).step = now
  BY <1>3 DEF Account, Enabled
<1>5. /\ NewPassword(acc, v) \in Account /\ NewPassword(acc, v).codes = acc.codes
      /\ NewPassword(acc, v).secret = acc.secret /\ NewPassword(acc, v).step = acc.step
  BY DEF Account, NewPassword
<1>6. /\ Without2fa(acc) \in Account /\ Without2fa(acc).codes = {}
      /\ Without2fa(acc).secret = NoVisit /\ Without2fa(acc).step = acc.step
  BY DEF Account, Without2fa, Secrets
<1>7. QED
  BY <1>2, <1>3, <1>4, <1>5, <1>6

LEMMA Choices ==
  ASSUME Base, NEW v \in Visits,
         \/ DecideLogin(v) \/ SecondSucceeds(v) \/ CompletePasswordChange(v)
         \/ ChangeOwnPassword(v) \/ UpdateUser(v) \/ DeleteUser(v) \/ Logout(v)
         \/ Setup2fa(v) \/ Enable2fa(v) \/ Complete2faSetup(v)
         \/ Disable2fa(v) \/ DisableUser2fa(v) \/ RegenerateBackupCodes(v)
  PROVE  Decides(v)
<1>1. PICK acc \in Account : acc = visit[v].copy
  BY DEF Base, OperatorsTyped, VisitRec
<1>2. /\ OperatorsTyped /\ now \in Nat /\ failures \in Nat
      /\ \A new, gives, used : Decide(v, new, gives, used) => v \in Ongoing
      /\ visit[v].kind \in {"second", "setup2fa", "on", "codes"} /\ v \in Ongoing =>
           acc.secret # NoVisit
  <2>1. OperatorsTyped /\ now \in Nat /\ failures \in Nat
    BY OperatorsAssumption DEF Base, OperatorsTyped
  <2>2. \A new, gives, used : Decide(v, new, gives, used) => v \in Ongoing
    BY DEF Decide, Ongoing
  <2>3. visit[v].kind \in {"second", "setup2fa", "on", "codes"} /\ v \in Ongoing =>
           acc.secret # NoVisit
    BY <1>1 DEF Base, HasSecret
  <2>4. QED
    BY <2>1, <2>2, <2>3
<1>3. /\ Gate(acc) \in SessionKinds /\ {"none", "full", "second", "setup"} \subseteq SessionKinds
      /\ NoCode \in Used /\ NoCode.secret = NoVisit
  BY Blank DEF Gate, SessionKinds
<1>4. \A new \in Account :
        /\ new.codes = acc.codes /\ new.secret \in {acc.secret, NoVisit}
        /\ new.step = acc.step
        => Sound(v, acc, new, NoCode, now)
  BY <1>3 DEF Sound
<1>5. CASE DecideLogin(v)
  <2>1. failures' \in Nat /\ \E gives \in SessionKinds : Decide(v, acc, gives, NoCode)
    BY <1>1, <1>2, <1>3, <1>5 DEF DecideLogin
  <2>2. QED
    BY <1>1, <1>2, <1>3, <1>4, <2>1, Decided
<1>6. CASE SecondSucceeds(v)
  <2>1. failures' \in Nat /\ acc.secret # NoVisit
    BY <1>1, <1>2, <1>6 DEF SecondSucceeds
  <2>2. CASE TotpFits(acc) /\ Decide(v, ByTotp(acc), Gate(acc), TotpUse(acc))
    <3>1. /\ ByTotp(acc) \in Account /\ ByTotp(acc).codes = acc.codes
          /\ ByTotp(acc).secret = acc.secret /\ ByTotp(acc).step = now
      BY <1>2, RowsWritten
    <3>2. QED
      BY <1>1, <1>2, <1>3, <2>1, <2>2, <3>1, ByCode
  <2>3. ASSUME NEW c \in acc.codes,
               Decide(v, Spent(acc, c), Gate(acc), [secret |-> NoVisit, code |-> c])
        PROVE  Decides(v)
    <3>1. PICK new \in Account : /\ new = Spent(acc, c) /\ new.codes = acc.codes \ {c}
                                 /\ new.secret = acc.secret /\ new.step = acc.step
      BY <1>2, RowsWritten
    <3>2. PICK used \in Used : used = [secret |-> NoVisit, code |-> c]
      BY DEF Used, Secrets, Account
    <3>3. used.secret = NoVisit /\ used.code = c
      BY <3>2
    <3>4. used # NoCode
      BY <3>3, Blank, OperatorsAssumption DEF Account
    <3>5. Sound(v, acc, new, used, now)
      BY <3>1, <3>3, <3>4 DEF Sound
    <3>6. QED
      BY <1>1, <1>2, <1>3, <2>1, <2>3, <3>1, <3>2, <3>3, <3>5, Decided
  <2>4. QED
    BY <1>1, <1>6, <2>2, <2>3 DEF SecondSucceeds
<1>7. CASE CompletePasswordChange(v)
  <2>1. PICK new \in Account : /\ new = NewPassword(acc, v) /\ new.codes = acc.codes
                               /\ new.secret = acc.secret /\ new.step = acc.step
    BY <1>2, RowsWritten
  <2>2. QED
    BY <1>1, <1>2, <1>3, <1>4, <1>7, <2>1, Decided DEF CompletePasswordChange
<1>8. CASE ChangeOwnPassword(v) \/ UpdateUser(v)
  <2>1. ASSUME NEW kind, Edit(v, kind, NewPassword(acc, v)) PROVE Decides(v)
    <3>1. PICK new \in Account : /\ new = NewPassword(acc, v) /\ new.codes = acc.codes
                                 /\ new.secret = acc.secret /\ new.step = acc.step
      BY <1>2, RowsWritten
    <3>2. QED
      BY <1>1, <1>2, <2>1, <3>1, Edited
  <2>2. ASSUME NEW b \in BOOLEAN, NEW kind, Edit(v, kind, [acc EXCEPT !.active = b])
        PROVE  Decides(v)
    <3> DEFINE new == [acc EXCEPT !.active = b]
    <3>1. new \in Account /\ new.codes = acc.codes /\ new.secret = acc.secret /\ new.step = acc.step
      BY DEF Account
    <3>2. Edit(v, kind, new)
      BY <2>2
    <3> HIDE DEF new
    <3>3. QED
      BY <1>1, <1>2, <3>1, <3>2, Edited
  <2>3. ASSUME NEW kind, Edit(v, kind, [acc EXCEPT !.must = TRUE]) PROVE Decides(v)
    <3> DEFINE new == [acc EXCEPT !.must = TRUE]
    <3>1. new \in Account /\ new.codes = acc.codes /\ new.secret = acc.secret /\ new.step = acc.step
      BY DEF Account
    <3>2. Edit(v, kind, new)
      BY <2>3
    <3> HIDE DEF new
    <3>3. QED
      BY <1>1, <1>2, <3>1, <3>2, Edited
  <2>4. QED
    BY <1>1, <1>8, <2>1, <2>2, <2>3 DEF ChangeOwnPassword, UpdateUser
<1>9. CASE DeleteUser(v) \/ Logout(v)
  BY <1>1, <1>2, <1>9, Edited DEF DeleteUser, Logout
<1>10. CASE Setup2fa(v)
  <2> DEFINE new == [acc EXCEPT !.secret = v, !.step = 0, !.codes = {}]
  <2>1. new \in Account /\ new.secret = v /\ new.codes = {}
    BY DEF Account, Secrets
  <2>2. Edit(v, "secret", new)
    BY <1>1, <1>10 DEF Setup2fa
  <2> HIDE DEF new
  <2>3. QED
    BY <1>1, <1>2, <2>1, <2>2, Edited
<1>11. CASE Enable2fa(v) \/ Complete2faSetup(v)
  <2>1. /\ failures' \in Nat /\ TotpFits(acc)
        /\ \E gives \in SessionKinds : Decide(v, Enabled(acc), gives, TotpUse(acc))
        /\ acc.secret # NoVisit
    BY <1>1, <1>2, <1>3, <1>11 DEF Enable2fa, Complete2faSetup
  <2>2. /\ Enabled(acc) \in Account /\ Enabled(acc).codes = acc.codes
        /\ Enabled(acc).secret = acc.secret /\ Enabled(acc).step = now
    BY <1>2, RowsWritten
  <2>3. QED
    BY <1>1, <1>2, <2>1, <2>2, ByCode
<1>12. CASE Disable2fa(v) \/ DisableUser2fa(v)
  <2>1. /\ Without2fa(acc) \in Account /\ Without2fa(acc).codes = {}
        /\ Without2fa(acc).secret = NoVisit /\ Without2fa(acc).step = acc.step
    BY <1>2, RowsWritten
  <2>2. QED
    BY <1>1, <1>2, <1>12, <2>1, Edited DEF Disable2fa, DisableUser2fa
<1>13. CASE RegenerateBackupCodes(v)
  <2> DEFINE new == [ByTotp(acc) EXCEPT !.codes = {}]
  <2>1. /\ ByTotp(acc) \in Account /\ ByTotp(acc).secret = acc.secret /\ ByTotp(acc).step = now
    BY <1>2, RowsWritten
  <2>2. new \in Account /\ new.codes = {} /\ new.secret = acc.secret /\ new.step = now
    BY <2>1 DEF Account
  <2>3. /\ failures' \in Nat /\ TotpFits(acc) /\ Decide(v, new, "none", TotpUse(acc))
        /\ acc.secret # NoVisit
    BY <1>1, <1>2, <1>13 DEF RegenerateBackupCodes
  <2> HIDE DEF new
  <2>4. QED
    BY <1>1, <1>2, <1>3, <2>2, <2>3, ByCode
<1>14. QED
  BY <1>5, <1>6, <1>7, <1>8, <1>9, <1>10, <1>11, <1>12, <1>13

LEMMA Starts ==
  ASSUME Base, NEW v \in Visits, Visit(v)
  PROVE  Begins(v)
<1>1. PICK kind \in Kinds, t \in Visits \cup {NoVisit} :
        /\ Allowed(kind)
        /\ IF kind \in Anonymous THEN t = NoVisit ELSE Current(t, TakenBy(kind))
        /\ visit' = [visit EXCEPT ![v] = [NotBegun EXCEPT !.pc = "read", !.kind = kind,
                                                          !.via = t, !.copy = account]]
  BY DEF Visit
<1>2. t # NoVisit => t \in Issued \ dead
  BY <1>1 DEF Current
<1>3. kind \in {"second", "setup2fa", "on", "codes"} => account.secret # NoVisit
  BY <1>1 DEF Allowed
<1>4. failures' \in Nat /\ UNCHANGED <<account, exists, dead, now, given>>
  BY DEF Visit, Base, OperatorsTyped
<1>5. QED
  BY <1>1, <1>2, <1>3, <1>4 DEF Visit, Begins

LEMMA Fails ==
  ASSUME Base, NEW v \in Visits, SecondFails(v)
  PROVE  Decides(v) \/ Drops
<1>1. /\ OperatorsTyped /\ visit \in [Visits -> VisitRec] /\ visit[v] \in VisitRec
      /\ failures' \in Nat /\ v \in Ongoing /\ visit[v].used = NoCode /\ visit[v].pc = "read"
      /\ UNCHANGED <<account, exists, dead, now, given>>
  BY DEF Base, OperatorsTyped, SecondFails, Ongoing, Undecided
<1>2. CASE failures + 1 >= MaxFailures
  <2> DEFINE new == [visit[v].copy EXCEPT !.locked = TRUE]
             j == [visit[v] EXCEPT !.pc = "write", !.kind = "lock", !.ended = Issued, !.new = new]
  <2>1. visit' = [visit EXCEPT ![v] = j] /\ began' = began
    BY <1>1, <1>2 DEF SecondFails
  <2>2. new \in Account /\ new.codes = visit[v].copy.codes
        /\ new.secret = visit[v].copy.secret /\ new.step = visit[v].copy.step
    BY <1>1 DEF VisitRec, Account
  <2> HIDE DEF new
  <2>3. Issued \in SUBSET Visits
    BY DEF Issued
  <2>4. /\ j \in VisitRec /\ j.pc = "write" /\ j.via = visit[v].via /\ j.copy = visit[v].copy
        /\ j.kind = "lock" /\ j.new = new /\ j.used = NoCode /\ j.ended = Issued
    BY <1>1, <2>2, <2>3 DEF VisitRec
  <2> HIDE DEF j
  <2>5. NoCode.secret = NoVisit
    BY Blank
  <2>6. Sound(v, j.copy, j.new, j.used, now)
    BY <2>2, <2>4, <2>5 DEF Sound
  <2>7. QED
    BY <1>1, <2>1, <2>4, <2>5, <2>6 DEF Decides
<1>3. CASE ~(failures + 1 >= MaxFailures)
  <2>1. /\ visit' = [visit EXCEPT ![v] = [NotBegun EXCEPT !.pc = "refused"]]
        /\ began' = [began EXCEPT ![v] = {}]
    BY <1>3 DEF SecondFails
  <2>2. /\ visit' = [w \in Visits |-> IF w \in {v} THEN [NotBegun EXCEPT !.pc = "refused"]
                                                   ELSE visit[w]]
        /\ began' = [w \in Visits |-> IF w \in {v} THEN {} ELSE began[w]]
    BY <1>1, <2>1 DEF OperatorsTyped
  <2>3. {v} \in SUBSET Ongoing
    BY <1>1
  <2>4. QED
    BY <1>1, <2>2, <2>3 DEF Drops
<1>4. QED
  BY <1>2, <1>3

LEMMA StepKinds ==
  ASSUME Base, OperatorsNext
  PROVE  \/ \E v \in Visits : Begins(v) \/ Decides(v) \/ Commit(v)
         \/ Drops \/ NextStep
<1>1. /\ visit \in [Visits -> VisitRec] /\ began \in [Visits -> SUBSET Visits]
      /\ failures \in Nat
  BY DEF Base, OperatorsTyped
<1>2. ASSUME NEW v \in Visits, Refused(v) PROVE Drops
  <2>1. /\ visit' = [w \in Visits |-> IF w \in {v} THEN [NotBegun EXCEPT !.pc = "refused"]
                                                   ELSE visit[w]]
        /\ began' = [w \in Visits |-> IF w \in {v} THEN {} ELSE began[w]]
    BY <1>1, <1>2 DEF Refused
  <2>2. {v} \in SUBSET Ongoing /\ UNCHANGED <<account, exists, dead, now, given>> /\ failures' \in Nat
    BY <1>1, <1>2 DEF Refused
  <2>3. QED
    BY <2>1, <2>2 DEF Drops
<1>3. CASE RestartCounter
  <2>1. Ongoing \in SUBSET Ongoing /\ failures' \in Nat
    BY <1>3 DEF RestartCounter
  <2>2. QED
    BY <1>3, <2>1 DEF RestartCounter, Drops
<1>4. QED
  BY <1>2, <1>3, Starts, Choices, Fails DEF OperatorsNext
-----------------------------------------------------------------------------
(* What they do *)

LEMMA CommitWrites ==
  ASSUME NEW acc \in Account, NEW copy \in Account, NEW new \in Account
  PROVE  /\ Written(acc, copy, new) \in Account
         /\ Written(acc, copy, new).codes = IF new.codes # copy.codes THEN new.codes ELSE acc.codes
         /\ Written(acc, copy, new).step = IF new.step # copy.step THEN new.step ELSE acc.step
         /\ Written(acc, copy, new).secret =
              IF new.secret # copy.secret THEN new.secret ELSE acc.secret
<1>1. DOMAIN acc = {"active", "password", "must", "totp", "secret", "locked", "codes", "step"}
  BY DEF Account
<1>2. \A f \in DOMAIN acc : Written(acc, copy, new)[f] = IF new[f] # copy[f] THEN new[f] ELSE acc[f]
  BY DEF Written
<1>3. Written(acc, copy, new) =
        [active |-> Written(acc, copy, new)["active"],
         password |-> Written(acc, copy, new)["password"],
         must |-> Written(acc, copy, new)["must"], totp |-> Written(acc, copy, new)["totp"],
         secret |-> Written(acc, copy, new)["secret"],
         locked |-> Written(acc, copy, new)["locked"],
         codes |-> Written(acc, copy, new)["codes"], step |-> Written(acc, copy, new)["step"]]
  BY <1>1 DEF Written
<1>4. QED
  BY <1>1, <1>2, <1>3 DEF Account

LEMMA BeginsWrites ==
  ASSUME Base, NEW v \in Visits, Begins(v)
  PROVE  /\ OperatorsTyped' /\ v \notin Ongoing \cup Made
         /\ \A w \in Visits \ {v} : visit'[w] = visit[w] /\ began'[w] = began[w]
         /\ visit'[v].pc = "read" /\ visit'[v].copy = account /\ began'[v] = Made
         /\ visit'[v].used = NoCode
         /\ visit'[v].via # NoVisit => visit'[v].via \in Issued \ dead
         /\ visit'[v].kind \in {"second", "setup2fa", "on", "codes"} => account.secret # NoVisit
         /\ UNCHANGED <<account, exists, dead, now, given>>
         /\ Made' = Made /\ Issued' = Issued /\ Ongoing' = Ongoing \cup {v}
<1>1. PICK kind \in Kinds, t \in Visits \cup {NoVisit} :
        /\ visit[v].pc = "idle"
        /\ t # NoVisit => t \in Issued \ dead
        /\ kind \in {"second", "setup2fa", "on", "codes"} => account.secret # NoVisit
        /\ visit' = [visit EXCEPT ![v] = [NotBegun EXCEPT !.pc = "read", !.kind = kind, !.via = t,
                                                          !.copy = account]]
        /\ began' = [began EXCEPT ![v] = Made]
        /\ UNCHANGED <<account, exists, dead, now, given>>
        /\ failures' \in Nat
  BY DEF Begins
<1> DEFINE j == [NotBegun EXCEPT !.pc = "read", !.kind = kind, !.via = t, !.copy = account]
<1>2. OperatorsTyped /\ Made \in SUBSET Visits
  BY DEF Base, Made
<1>3. /\ j \in VisitRec /\ j.pc = "read" /\ j.copy = account /\ j.used = NoCode /\ j.via = t
      /\ j.kind = kind
  <2>1. NotBegun \in VisitRec /\ NotBegun.used = NoCode /\ account \in Account
    BY <1>2, Blank DEF OperatorsTyped
  <2>2. QED
    BY <2>1 DEF VisitRec
<1>4. visit' = [visit EXCEPT ![v] = j]
  BY <1>1
<1> HIDE DEF j
<1>5. /\ visit'[v] = j /\ began'[v] = Made
      /\ \A w \in Visits \ {v} : visit'[w] = visit[w] /\ began'[w] = began[w]
  BY <1>1, <1>2, <1>4 DEF OperatorsTyped
<1>6. OperatorsTyped'
  BY <1>1, <1>2, <1>3, <1>4 DEF OperatorsTyped
<1>7. /\ v \notin Ongoing \cup Made /\ Made' = Made /\ Issued' = Issued
      /\ Ongoing' = Ongoing \cup {v}
  BY <1>1, <1>3, <1>5 DEF Ongoing, Made, Issued
<1>8. QED
  BY <1>1, <1>3, <1>5, <1>6, <1>7

LEMMA DecidesWrites ==
  ASSUME Base, NEW v \in Visits, Decides(v)
  PROVE  /\ OperatorsTyped' /\ v \in Ongoing
         /\ \A w \in Visits \ {v} : visit'[w] = visit[w]
         /\ visit'[v].pc = "write" /\ visit'[v].via = visit[v].via
         /\ visit'[v].copy = visit[v].copy /\ visit'[v].kind \in {visit[v].kind, "lock"}
         /\ visit'[v].ended = Issued
         /\ Sound(v, visit'[v].copy, visit'[v].new, visit'[v].used, now)
         /\ visit'[v].used.secret # NoVisit => visit'[v].used.code = now
         /\ UNCHANGED <<account, exists, dead, now, given, began>>
         /\ Made' = Made /\ Issued' = Issued /\ Ongoing' = Ongoing
<1>1. PICK j \in VisitRec :
        /\ visit[v].pc = "read"
        /\ visit' = [visit EXCEPT ![v] = j]
        /\ j.pc = "write" /\ j.via = visit[v].via /\ j.copy = visit[v].copy
        /\ j.kind \in {visit[v].kind, "lock"} /\ j.ended = Issued
        /\ Sound(v, j.copy, j.new, j.used, now)
        /\ j.used.secret # NoVisit => j.used.code = now
        /\ UNCHANGED <<account, exists, dead, now, given, began>>
        /\ failures' \in Nat
  BY DEF Decides
<1>2. OperatorsTyped
  BY DEF Base
<1>3. visit'[v] = j /\ \A w \in Visits \ {v} : visit'[w] = visit[w]
  BY <1>1, <1>2 DEF OperatorsTyped
<1>4. OperatorsTyped'
  BY <1>1, <1>2 DEF OperatorsTyped
<1>5. v \in Ongoing /\ Made' = Made /\ Issued' = Issued /\ Ongoing' = Ongoing
  BY <1>1, <1>3 DEF Ongoing, Made, Issued
<1>6. QED
  BY <1>1, <1>3, <1>4, <1>5

LEMMA DropsWrite ==
  ASSUME Base, Drops
  PROVE  /\ OperatorsTyped'
         /\ UNCHANGED <<account, exists, dead, now, given>>
         /\ Made' = Made /\ Issued' = Issued /\ Ongoing' \subseteq Ongoing
         /\ \A w \in Ongoing' \cup Made : visit'[w] = visit[w] /\ began'[w] = began[w]
         /\ \A w \in Visits : began'[w] = began[w] \/ began'[w] = {}
         /\ \A w \in Visits : visit'[w].pc = "write" => w \in Ongoing'
<1>1. PICK D \in SUBSET Ongoing :
        /\ visit' = [v \in Visits |-> IF v \in D THEN [NotBegun EXCEPT !.pc = "refused"]
                                                 ELSE visit[v]]
        /\ began' = [v \in Visits |-> IF v \in D THEN {} ELSE began[v]]
        /\ UNCHANGED <<account, exists, dead, now, given>>
        /\ failures' \in Nat
  BY DEF Drops
<1> DEFINE j == [NotBegun EXCEPT !.pc = "refused"]
<1>2. j \in VisitRec /\ j.pc = "refused"
  <2>1. NotBegun \in VisitRec
    BY Blank
  <2>2. QED
    BY <2>1 DEF VisitRec
<1>3. visit' = [v \in Visits |-> IF v \in D THEN j ELSE visit[v]]
  BY <1>1
<1> HIDE DEF j
<1>4. OperatorsTyped
  BY DEF Base
<1>5. OperatorsTyped'
  BY <1>1, <1>2, <1>3, <1>4 DEF OperatorsTyped
<1>6. Made' = Made /\ Issued' = Issued /\ Ongoing' = Ongoing \ D /\ D \cap Made = {}
  BY <1>1, <1>2, <1>3 DEF Made, Issued, Ongoing
<1>7. Ongoing' \cup Made \subseteq Visits \ D
  BY <1>6 DEF Ongoing, Made
<1>8. \A w \in Visits : visit'[w].pc = "write" => w \in Ongoing'
  BY DEF Ongoing
<1>9. QED
  BY <1>1, <1>3, <1>5, <1>6, <1>7, <1>8

LEMMA CommitsWrites ==
  ASSUME Base, NEW v \in Visits, Commit(v)
  PROVE  /\ OperatorsTyped' /\ visit[v].pc = "write" /\ v \in Ongoing /\ v \notin Made
         /\ \A w \in Visits \ {v} : visit'[w] = visit[w] /\ given'[w] = given[w]
         /\ visit'[v].pc = "done" /\ visit'[v].kind = visit[v].kind
         /\ visit'[v].via = visit[v].via /\ visit'[v].used = visit[v].used
         /\ account' = Written(account, visit[v].copy, visit[v].new)
         /\ dead' = IF visit[v].kind \in Revoking \cup {"lock"} THEN visit[v].ended ELSE dead
         /\ began' = began /\ now' = now
         /\ Made' = Made \cup {v} /\ Issued' \subseteq Issued \cup {v}
         /\ Ongoing' = Ongoing \ {v}
<1> DEFINE j == [NotBegun EXCEPT !.pc = "done", !.kind = visit[v].kind,
                                 !.via = visit[v].via, !.used = visit[v].used]
<1>1. OperatorsTyped /\ visit[v] \in VisitRec
  BY DEF Base, OperatorsTyped
<1>2. /\ j \in VisitRec /\ j.pc = "done" /\ j.kind = visit[v].kind /\ j.via = visit[v].via
      /\ j.used = visit[v].used
  <2>1. NotBegun \in VisitRec
    BY Blank
  <2>2. QED
    BY <1>1, <2>1 DEF VisitRec
<1>3. /\ visit[v].pc = "write" /\ visit' = [visit EXCEPT ![v] = j] /\ exists' \in BOOLEAN
      /\ account' = Written(account, visit[v].copy, visit[v].new)
      /\ dead' = IF visit[v].kind \in Revoking \cup {"lock"} THEN visit[v].ended ELSE dead
      /\ given' = [given EXCEPT ![v] = visit[v].gives] /\ began' = began /\ now' = now
      /\ failures' = IF visit[v].kind = "lock" THEN 0 ELSE failures
  BY DEF Commit
<1> HIDE DEF j
<1>4. Written(account, visit[v].copy, visit[v].new) \in Account
  BY <1>1, CommitWrites DEF OperatorsTyped, VisitRec
<1>5. /\ visit'[v] = j
      /\ \A w \in Visits \ {v} : visit'[w] = visit[w] /\ given'[w] = given[w]
  BY <1>1, <1>3 DEF OperatorsTyped
<1>6. OperatorsTyped'
  <2>1. failures' \in Nat /\ dead' \subseteq Visits
    BY <1>1, <1>3 DEF OperatorsTyped, VisitRec
  <2>2. given' \in [Visits -> SessionKinds] /\ visit' \in [Visits -> VisitRec]
    BY <1>1, <1>2, <1>3 DEF OperatorsTyped, VisitRec
  <2>3. QED
    BY <1>1, <1>3, <1>4, <2>1, <2>2 DEF OperatorsTyped
<1>7. /\ v \in Ongoing /\ v \notin Made /\ Made' = Made \cup {v} /\ Issued' \subseteq Issued \cup {v}
      /\ Ongoing' = Ongoing \ {v}
  BY <1>2, <1>3, <1>5 DEF Ongoing, Made, Issued
<1>8. QED
  BY <1>2, <1>3, <1>5, <1>6, <1>7

\* What is made stays as it was; a visit under way keeps its copy, its token
\* and its place.
LEMMA Carry ==
  ASSUME Base, OperatorsNext
  PROVE  /\ OperatorsTyped' /\ now <= now'
         /\ Made \subseteq Made'
         /\ \A w \in Made : visit'[w] = visit[w] /\ began'[w] = began[w] /\ given'[w] = given[w]
         /\ \A w \in Made' \ Made : /\ w \in Ongoing /\ Commit(w) /\ began'[w] = began[w]
                                    /\ Made' = Made \cup {w}
         /\ \A w \in Ongoing' : \/ /\ w \in Ongoing /\ began'[w] = began[w]
                                   /\ visit'[w].copy = visit[w].copy
                                   /\ visit'[w].via = visit[w].via
                                   /\ visit'[w].kind \in {visit[w].kind, "lock"}
                                \/ Begins(w)
         /\ \A w \in Ongoing' : visit'[w] = visit[w] \/ Begins(w) \/ Decides(w)
         /\ \A w \in Visits : began'[w] \in {began[w], {}} \/ Begins(w)
         /\ (\A w \in Visits : ~Commit(w)) => account' = account /\ dead' = dead /\ given' = given
<1>1. /\ OperatorsTyped /\ now \in Nat /\ Made \subseteq Visits /\ Ongoing \subseteq Visits
      /\ Ongoing \cap Made = {} /\ Ongoing' \subseteq Visits
  BY OperatorsAssumption DEF Base, OperatorsTyped, Made, Ongoing
<1>2. ASSUME NEW v \in Visits, Begins(v)
      PROVE  /\ OperatorsTyped' /\ Made' = Made /\ Ongoing' = Ongoing \cup {v}
             /\ UNCHANGED <<account, dead, now, given>> /\ visit'[v].pc = "read"
             /\ \A w \in Visits \ {v} : visit'[w] = visit[w] /\ began'[w] = began[w]
             /\ v \notin Made
  BY <1>2, BeginsWrites
<1>3. ASSUME NEW v \in Visits, Decides(v)
      PROVE  /\ OperatorsTyped' /\ Made' = Made /\ Ongoing' = Ongoing /\ v \notin Made
             /\ UNCHANGED <<account, dead, now, given, began>>
             /\ \A w \in Visits \ {v} : visit'[w] = visit[w]
             /\ visit'[v].copy = visit[v].copy /\ visit'[v].via = visit[v].via
             /\ visit'[v].kind \in {visit[v].kind, "lock"}
  BY <1>1, <1>3, DecidesWrites
<1>4. CASE Drops
  BY <1>1, <1>4, DropsWrite
<1>5. CASE \E v \in Visits : Begins(v)
  BY <1>1, <1>2, <1>5
<1>6. CASE \E v \in Visits : Decides(v)
  BY <1>1, <1>3, <1>6
<1>7. CASE \E v \in Visits : Commit(v)
  <2>1. PICK v \in Visits : Commit(v)
    BY <1>7
  <2>2. /\ OperatorsTyped' /\ v \in Ongoing /\ v \notin Made /\ visit'[v].pc = "done"
        /\ \A w \in Visits \ {v} : visit'[w] = visit[w] /\ given'[w] = given[w]
        /\ Made' = Made \cup {v} /\ began' = began /\ now' = now /\ Ongoing' = Ongoing \ {v}
    BY <2>1, CommitsWrites
  <2>3. QED
    BY <1>1, <2>1, <2>2
<1>8. CASE NextStep
  <2>1. /\ UNCHANGED <<account, dead, visit, given, began>> /\ now' = now + 1 /\ OperatorsTyped'
    BY <1>1, <1>8, OperatorsAssumption DEF NextStep, OperatorsTyped
  <2>2. Made' = Made /\ Ongoing' = Ongoing
    BY <2>1 DEF Made, Ongoing
  <2>3. QED
    BY <1>1, <2>1, <2>2
<1>9. QED
  BY <1>4, <1>5, <1>6, <1>7, <1>8, StepKinds

LEMMA BaseKeeps ==
  ASSUME Base, OperatorsNext
  PROVE  Base'
<1>1. /\ OperatorsTyped /\ History /\ HasSecret /\ Undecided /\ Made \subseteq Visits
      /\ Ongoing \subseteq Visits /\ Ongoing' \subseteq Visits
  BY DEF Base, Made, Ongoing
<1>2. ASSUME NEW w \in Visits, Begins(w)
      PROVE  /\ began'[w] = Made /\ w \notin Made /\ visit'[w].used = NoCode
             /\ visit'[w].copy = account
             /\ visit'[w].kind \in {"second", "setup2fa", "on", "codes"} => account.secret # NoVisit
  BY <1>2, BeginsWrites
<1>3. Issued' \subseteq Made'
  <2>1. ASSUME NEW v \in Visits, Commit(v) PROVE Issued' \subseteq Made'
    BY <1>1, <2>1, CommitsWrites DEF History
  <2>2. CASE \A v \in Visits : ~Commit(v)
    <3>1. Issued' = Issued /\ Made \subseteq Made'
      BY <2>2, Carry DEF Issued
    <3>2. QED
      BY <1>1, <3>1 DEF History
  <2>3. QED
    BY <2>1, <2>2
<1>4. \A v \in Visits : began'[v] \subseteq Made'
  BY <1>1, <1>2, Carry DEF History
<1>5. \A v \in Ongoing' \cup Made' : v \notin began'[v]
  BY <1>1, <1>2, Carry DEF History
<1>6. ASSUME NEW v \in Visits, NEW r \in began'[v] PROVE began'[r] \subseteq began'[v]
  <2>1. CASE Begins(v)
    BY <1>1, <1>2, <1>6, <2>1, Carry DEF History
  <2>2. CASE began'[v] = began[v]
    <3>1. r \in Made /\ began[r] \subseteq began[v]
      BY <1>1, <1>6, <2>2 DEF History
    <3>2. QED
      BY <2>2, <3>1, Carry
  <2>3. QED
    BY <1>6, <2>1, <2>2, Carry
<1>7. HasSecret'
  <2>1. ASSUME NEW w \in Ongoing', visit'[w].kind \in {"second", "setup2fa", "on", "codes"}
        PROVE  visit'[w].copy.secret # NoVisit
    <3>1. CASE Begins(w)
      BY <1>1, <1>2, <2>1, <3>1
    <3>2. CASE ~Begins(w)
      BY <1>1, <2>1, <3>2, Carry DEF HasSecret
    <3>3. QED
      BY <3>1, <3>2
  <2>2. QED
    BY <2>1 DEF HasSecret
<1>8. Undecided'
  <2>1. ASSUME NEW w \in Ongoing', visit'[w].pc = "read" PROVE visit'[w].used = NoCode
    <3>1. CASE Begins(w)
      BY <1>1, <1>2, <3>1
    <3>2. CASE ~Begins(w)
      <4>1. ~Decides(w)
        BY <1>1, <2>1, DecidesWrites
      <4>2. w \in Ongoing /\ visit'[w] = visit[w]
        BY <3>2, <4>1, Carry
      <4>3. QED
        BY <1>1, <2>1, <4>2 DEF Undecided
    <3>3. QED
      BY <3>1, <3>2
  <2>2. QED
    BY <2>1 DEF Undecided
<1>9. QED
  BY <1>3, <1>4, <1>5, <1>6, <1>7, <1>8, Carry DEF Base, History
-----------------------------------------------------------------------------
(* Sessions *)

\* An overlap of two that are made is for good, and a visit that commits
\* overlaps with those made since it began.
LEMMA AtOnceStays ==
  ASSUME Base, OperatorsNext
  PROVE  /\ \A x, y \in Made : AtOnce(x, y)' <=> AtOnce(x, y)
         /\ \A x \in Made, y \in Made' \ Made : x \notin began'[y] => AtOnce(x, y)' /\ AtOnce(y, x)'
         /\ \A x, y : AtOnce(x, y) => AtOnce(y, x)
         /\ \A x \in Made, y \in Made' \ Made : y \notin began'[x]
<1>1. \A x \in Made : began'[x] = began[x] /\ began[x] \subseteq Made /\ x \in Visits
  BY Carry DEF Base, History, Made
<1>2. QED
  BY <1>1, Carry DEF AtOnce

LEMMA RevocationsGrow ==
  ASSUME Base, OperatorsNext
  PROVE  /\ Revocations \subseteq Revocations' /\ Revocations \subseteq Made
         /\ \A r \in Revocations' : r \in Made' /\ (r \in Made => r \in Revocations)
         /\ \A r \in Revocations : Beside(r) => Beside(r)'
<1>1. \A r \in Visits : r \in Revocations <=>
        /\ r \in Made
        /\ visit[r].kind \in {"change", "own", "logout", "disable", "password", "reset", "lock"}
  BY DEF Revocations, Done, Made
<1>2. \A r \in Visits : r \in Revocations' <=>
        /\ r \in Made'
        /\ visit'[r].kind \in {"change", "own", "logout", "disable", "password", "reset", "lock"}
  BY DEF Revocations, Done, Made
<1>3. Revocations \subseteq Visits /\ Revocations' \subseteq Visits /\ Made \subseteq Visits
  BY DEF Revocations, Done, Made
<1>4. \A w \in Made : visit'[w] = visit[w] /\ w \in Made'
  BY Carry
<1>5. /\ Revocations \subseteq Revocations' /\ Revocations \subseteq Made
      /\ \A r \in Revocations' : r \in Made' /\ (r \in Made => r \in Revocations)
  BY <1>1, <1>2, <1>3, <1>4
<1>6. \A r \in Revocations : Beside(r) => Beside(r)'
  BY <1>5, AtOnceStays DEF Beside
<1>7. QED
  BY <1>5, <1>6

LEMMA EndedCoversKeeps ==
  ASSUME Base, EndedCovers, OperatorsNext
  PROVE  EndedCovers'
<1>1. SUFFICES ASSUME NEW q \in Visits, visit'[q].pc = "write",
                      NEW x \in Issued' \cap began'[q]
               PROVE  x \in visit'[q].ended
  BY DEF EndedCovers
<1>2. q \in Ongoing' /\ ~Begins(q)
  BY <1>1, BeginsWrites DEF Ongoing
<1>3. CASE Decides(q)
  BY <1>1, <1>3, DecidesWrites
<1>4. CASE visit'[q] = visit[q]
  <2>1. x \in began[q] /\ x \in Made
    BY <1>1, <1>2, Carry DEF Base, History
  <2>2. x \in Issued
    BY <1>1, <2>1, Carry DEF Issued
  <2>3. QED
    BY <1>1, <1>4, <2>1, <2>2 DEF EndedCovers
<1>5. QED
  BY <1>2, <1>3, <1>4, Carry

LEMMA RevokedDeadKeeps ==
  ASSUME Base, EndedCovers, RevokedDead, OperatorsNext
  PROVE  RevokedDead'
<1>1. SUFFICES ASSUME NEW r \in Revocations'
               PROVE  Issued' \cap began'[r] \subseteq dead' \/ Beside(r)'
  BY DEF RevokedDead
<1>2. r \in Visits /\ visit'[r].kind \in Revoking \cup {"lock"} /\ r \in Made'
  BY RevocationsGrow DEF Revocations, Done, Revoking
<1>3. Issued' \cap began'[r] \subseteq Issued \cap began[r] /\ began'[r] = began[r]
  <2>1. began'[r] = began[r] /\ began[r] \subseteq Made
    BY <1>2, Carry DEF Base, History
  <2>2. QED
    BY <2>1, Carry DEF Issued
<1>4. CASE r \in Made
  <2>1. r \in Revocations
    BY <1>4, RevocationsGrow
  <2>2. CASE \A w \in Visits : ~Commit(w)
    BY <1>3, <2>1, <2>2, Carry, RevocationsGrow DEF RevokedDead
  <2>3. ASSUME NEW q \in Visits, Commit(q)
        PROVE  Issued' \cap began'[r] \subseteq dead' \/ Beside(r)'
    <3>1. /\ visit[q].pc = "write" /\ q \in Made' \ Made
          /\ visit'[q].kind = visit[q].kind /\ visit'[q].pc = "done"
          /\ dead' = IF visit[q].kind \in Revoking \cup {"lock"} THEN visit[q].ended ELSE dead
          /\ began'[q] = began[q]
      BY <2>3, CommitsWrites
    <3>2. CASE visit[q].kind \notin Revoking \cup {"lock"}
      BY <1>3, <2>1, <3>1, <3>2, RevocationsGrow DEF RevokedDead
    <3>3. CASE visit[q].kind \in Revoking \cup {"lock"} /\ r \notin began[q]
      <4>1. q \in Revocations'
        BY <3>1, <3>3 DEF Revocations, Done, Revoking
      <4>2. QED
        BY <1>4, <3>1, <3>3, <4>1, AtOnceStays DEF Beside
    <3>4. CASE visit[q].kind \in Revoking \cup {"lock"} /\ r \in began[q]
      BY <1>3, <3>1, <3>4 DEF EndedCovers, Base, History
    <3>5. QED
      BY <3>2, <3>3, <3>4
  <2>4. QED
    BY <2>2, <2>3
<1>5. CASE r \notin Made
  <2>1. Commit(r)
    BY <1>2, <1>5, Carry
  <2>2. visit[r].pc = "write" /\ dead' = visit[r].ended
    BY <1>2, <2>1, CommitsWrites
  <2>3. QED
    BY <1>2, <1>3, <2>2 DEF EndedCovers
<1>6. QED
  BY <1>4, <1>5

LEMMA ViaMetKeeps ==
  ASSUME Base, RevokedDead, ViaMet, OperatorsNext
  PROVE  ViaMet'
<1>1. SUFFICES ASSUME NEW t \in Ongoing' \cup Made', visit'[t].via # NoVisit,
                      NEW r \in Revocations' \cap began'[t], visit'[t].via \in began'[r]
               PROVE  Beside(r)'
  BY DEF ViaMet
<1>2. t \in Visits /\ Made \subseteq Visits
  BY DEF Ongoing, Made
<1>3. CASE Begins(t)
  <2>1. r \in Made /\ visit'[t].via \in Issued \ dead
    BY <1>1, <1>2, <1>3, BeginsWrites
  <2>2. r \in Revocations /\ began'[r] = began[r]
    BY <1>1, <2>1, RevocationsGrow, Carry
  <2>3. QED
    BY <1>1, <2>1, <2>2, RevocationsGrow DEF RevokedDead
<1>4. CASE ~Begins(t)
  <2>1. /\ t \in Ongoing \cup Made /\ began'[t] = began[t] /\ visit'[t].via = visit[t].via
    <3>1. CASE t \in Ongoing'
      BY <1>4, <3>1, Carry
    <3>2. CASE t \in Made
      BY <3>2, Carry
    <3>3. CASE t \in Made' \ Made
      BY <1>2, <3>3, Carry, CommitsWrites
    <3>4. QED
      BY <1>1, <3>1, <3>2, <3>3
  <2>2. r \in Made
    BY <1>1, <1>2, <2>1 DEF Base, History
  <2>3. r \in Revocations /\ began'[r] = began[r]
    BY <1>1, <2>2, RevocationsGrow, Carry
  <2>4. QED
    BY <1>1, <2>1, <2>3, RevocationsGrow DEF ViaMet
<1>5. QED
  BY <1>3, <1>4

LEMMA SessionsKeep ==
  ASSUME Base, SessionsInv, OperatorsNext
  PROVE  SessionsInv'
BY EndedCoversKeeps, RevokedDeadKeeps, ViaMetKeeps DEF SessionsInv

LEMMA SessionsEnd ==
  ASSUME Base, SessionsInv
  PROVE  SessionsEndWithRevocation
<1>1. SUFFICES ASSUME NEW t \in Issued \ dead, NEW r \in Revocations, ~Beside(r),
                      \A v \in Lineage(t) : v # r /\ ~AtOnce(v, r)
               PROVE  \A v \in Lineage(t) : r \in began[v]
  BY DEF SessionsEndWithRevocation, Beside
<1>2. t \in Ongoing \cup Made /\ t \in Lineage(t) /\ r \in Made
  BY DEF Base, History, Lineage, Revocations, Done, Made
<1>3. \A v \in Lineage(t) : v \in began[r] \/ r \in began[v]
  BY <1>1 DEF AtOnce
<1>4. Issued \cap began[r] \subseteq dead
  BY <1>1 DEF SessionsInv, RevokedDead
<1>5. r \in began[t]
  BY <1>2, <1>3, <1>4
<1>6. visit[t].via # NoVisit => r \in began[visit[t].via]
  BY <1>1, <1>2, <1>3, <1>5 DEF SessionsInv, ViaMet, Lineage
<1>7. QED
  BY <1>5, <1>6 DEF Lineage
-----------------------------------------------------------------------------
(* Codes *)

LEMMA OverlappedStays ==
  ASSUME Base, OperatorsNext
  PROVE  /\ Uses \subseteq Uses' /\ \A v \in Uses' : v \in Made => v \in Uses
         /\ \A v \in Uses : Overlapped(v) => Overlapped(v)'
         /\ \A v \in Uses, y \in Uses' \ Made : Alike(v, y)' /\ ~Overlapped(v)' => v \in began[y]
<1>1. Uses \subseteq Uses' /\ \A v \in Uses' : v \in Made => v \in Uses
  BY Carry DEF Uses
<1>2. ASSUME NEW v \in Uses, Overlapped(v) PROVE Overlapped(v)'
  <2>1. PICK x \in Uses : AtOnce(v, x) /\ Alike(v, x)
    BY <1>2 DEF Overlapped
  <2>2. v \in Made /\ x \in Made
    BY DEF Uses
  <2>3. AtOnce(v, x)' /\ Alike(v, x)'
    BY <2>1, <2>2, AtOnceStays, Carry DEF Alike
  <2>4. QED
    BY <1>1, <2>3 DEF Overlapped
<1>3. ASSUME NEW v \in Uses, NEW y \in Uses' \ Made, Alike(v, y)', v \notin began[y]
      PROVE  Overlapped(v)'
  <2>1. v \in Made /\ y \in Made' \ Made
    BY DEF Uses
  <2>2. began'[y] = began[y]
    BY <2>1, Carry
  <2>3. AtOnce(v, y)'
    BY <1>3, <2>1, <2>2, AtOnceStays
  <2>4. QED
    BY <1>3, <2>3 DEF Overlapped
<1>4. QED
  BY <1>1, <1>2, <1>3

LEMMA DecisionsSoundKeeps ==
  ASSUME Base, DecisionsSound, OperatorsNext
  PROVE  DecisionsSound'
<1>1. SUFFICES ASSUME NEW w \in Visits, visit'[w].pc = "write"
               PROVE  Sound(w, visit'[w].copy, visit'[w].new, visit'[w].used, now')
  BY DEF DecisionsSound, Sound
<1>2. w \in Ongoing' /\ ~Begins(w)
  BY <1>1, BeginsWrites DEF Ongoing
<1>3. CASE Decides(w)
  BY <1>3, DecidesWrites
<1>4. CASE visit'[w] = visit[w]
  <2>1. Sound(w, visit[w].copy, visit[w].new, visit[w].used, now)
    BY <1>1, <1>4 DEF DecisionsSound
  <2>2. now \in Nat /\ now' \in Nat /\ now <= now'
    BY OperatorsAssumption, Carry DEF Base, OperatorsTyped
  <2>3. QED
    BY <1>4, <2>1, <2>2 DEF Sound
<1>5. QED
  BY <1>2, <1>3, <1>4, Carry

\* What a commit writes to the second factor.
LEMMA CommitsSound ==
  ASSUME Base, DecisionsSound, SecretsMade, NEW v \in Visits, Commit(v)
  PROVE  /\ Sound(v, visit[v].copy, visit[v].new, visit[v].used, now)
         /\ visit[v].copy.secret \in Made \cup {NoVisit} /\ v \in Ongoing
         /\ account'.codes \in {account.codes, visit[v].new.codes}
         /\ account'.codes = IF visit[v].new.codes # visit[v].copy.codes
                             THEN visit[v].new.codes ELSE account.codes
         /\ account'.step = IF visit[v].new.step # visit[v].copy.step
                            THEN visit[v].new.step ELSE account.step
         /\ account'.secret = IF visit[v].new.secret # visit[v].copy.secret
                              THEN visit[v].new.secret ELSE account.secret
         /\ visit[v].copy.step \in Nat
<1>1. /\ visit[v].pc = "write" /\ v \in Ongoing
      /\ account' = Written(account, visit[v].copy, visit[v].new)
  BY CommitsWrites
<1>2. account \in Account /\ visit[v].copy \in Account /\ visit[v].new \in Account
  BY DEF Base, OperatorsTyped, VisitRec
<1>3. visit[v].copy.step \in Nat
  BY <1>2 DEF Account
<1>4. QED
  BY <1>1, <1>2, <1>3, CommitWrites DEF DecisionsSound, SecretsMade

LEMMA SecretsMadeKeeps ==
  ASSUME Base, DecisionsSound, SecretsMade, OperatorsNext
  PROVE  SecretsMade'
<1>1. Made \subseteq Made' /\ Made \subseteq Visits /\ Made' \subseteq Visits
  BY Carry DEF Made
<1>2. account'.secret \in Made' \cup {NoVisit}
  <2>1. ASSUME NEW v \in Visits, Commit(v) PROVE account'.secret \in Made' \cup {NoVisit}
    BY <1>1, <2>1, CommitsSound, CommitsWrites DEF Sound, SecretsMade
  <2>2. CASE \A v \in Visits : ~Commit(v)
    BY <1>1, <2>2, Carry DEF SecretsMade
  <2>3. QED
    BY <2>1, <2>2
<1>3. ASSUME NEW w \in Ongoing' PROVE visit'[w].copy.secret \in Made' \cup {NoVisit}
  <2>1. CASE Begins(w)
    BY <1>1, <1>3, <2>1, BeginsWrites DEF SecretsMade, Ongoing
  <2>2. CASE ~Begins(w)
    BY <1>1, <1>3, <2>2, Carry DEF SecretsMade
  <2>3. QED
    BY <2>1, <2>2
<1>4. ASSUME NEW w \in Made' PROVE visit'[w].used.secret \in Made' \cup {NoVisit}
  <2>1. CASE w \in Made
    BY <1>1, <2>1, Carry DEF SecretsMade
  <2>2. CASE w \notin Made
    <3>1. Commit(w)
      BY <1>4, <2>2, Carry
    <3>2. QED
      BY <1>1, <1>4, <3>1, CommitsSound, CommitsWrites DEF Sound
  <2>3. QED
    BY <2>1, <2>2
<1>5. QED
  BY <1>2, <1>3, <1>4 DEF SecretsMade

LEMMA UsesPastKeeps ==
  ASSUME Base, DecisionsSound, SecretsMade, UsesPast, OperatorsNext
  PROVE  UsesPast'
<1>1. SUFFICES ASSUME NEW w \in Made', visit'[w].used.secret # NoVisit
               PROVE  visit'[w].used.code \in Nat /\ visit'[w].used.code <= now'
  BY DEF UsesPast
<1>2. now \in Nat /\ now' \in Nat /\ now <= now' /\ w \in Visits
  BY OperatorsAssumption, Carry DEF Base, OperatorsTyped, Made
<1>3. CASE w \in Made
  BY <1>1, <1>2, <1>3, Carry DEF UsesPast
<1>4. CASE w \notin Made
  <2>1. Commit(w)
    BY <1>1, <1>4, Carry
  <2>2. visit'[w].used = visit[w].used
        /\ Sound(w, visit[w].copy, visit[w].new, visit[w].used, now)
    BY <1>2, <2>1, CommitsSound, CommitsWrites
  <2>3. QED
    BY <1>1, <1>2, <2>2 DEF Sound
<1>5. QED
  BY <1>3, <1>4

\* Nobody under way began after a visit that commits now.
LEMMA NoneAfter ==
  ASSUME Base, OperatorsNext, NEW v \in Made' \ Made, NEW y \in Ongoing'
  PROVE  v \notin began'[y]
<1>1. v \in Visits /\ Commit(v) /\ y \in Visits
  BY Carry DEF Made, Ongoing
<1>2. began' = began
  BY <1>1, CommitsWrites
<1>3. QED
  BY <1>1, <1>2 DEF Base, History

LEMMA CodesGoneKeeps ==
  ASSUME Base, DecisionsSound, SecretsMade, CodesGone, OperatorsNext
  PROVE  CodesGone'
<1>1. SUFFICES ASSUME NEW v \in Made', visit'[v].used.secret = NoVisit, visit'[v].used # NoCode,
                      ~Overlapped(v)'
               PROVE  /\ visit'[v].used.code \notin account'.codes
                      /\ \A y \in Ongoing' : v \in began'[y] =>
                           visit'[v].used.code \notin visit'[y].copy.codes
  BY DEF CodesGone
<1>0. v \in Uses' /\ Made \subseteq Visits
  BY <1>1 DEF Uses, Made
<1>2. CASE v \in Made
  <2>0. v \in Uses /\ visit'[v] = visit[v]
    BY <1>0, <1>2, Carry, OverlappedStays
  <2>1. PICK c : c = visit[v].used.code /\ c = visit'[v].used.code
    BY <1>2, Carry
  <2>2. /\ c \notin account.codes
        /\ \A y \in Ongoing : v \in began[y] => c \notin visit[y].copy.codes
    BY <1>1, <1>2, <2>0, <2>1, OverlappedStays DEF CodesGone
  <2>3. c \notin account'.codes
    <3>1. ASSUME NEW y \in Visits, Commit(y) PROVE c \notin account'.codes
      <4>1. /\ y \in Ongoing /\ y \in Made' \ Made /\ visit'[y].used = visit[y].used
            /\ Sound(y, visit[y].copy, visit[y].new, visit[y].used, now)
            /\ account'.codes \in {account.codes, visit[y].new.codes}
            /\ visit[y].new.codes = visit[y].copy.codes => account'.codes = account.codes
        BY <3>1, CommitsWrites, CommitsSound
      <4>2. CASE visit[y].used.secret = NoVisit /\ visit[y].used # NoCode
        <5>1. y \in Uses' /\ Alike(v, y)'
          BY <1>1, <2>0, <4>1, <4>2 DEF Uses, Alike
        <5>2. v \in began[y]
          BY <1>1, <2>0, <4>1, <5>1, OverlappedStays
        <5>3. QED
          BY <2>2, <4>1, <5>2 DEF Sound
      <4>3. CASE visit[y].new.codes \in {visit[y].copy.codes, {}}
        BY <2>2, <4>1, <4>3
      <4>4. QED
        BY <4>1, <4>2, <4>3 DEF Sound
    <3>2. QED
      BY <2>2, <3>1, Carry
  <2>4. ASSUME NEW y \in Ongoing', v \in began'[y] PROVE c \notin visit'[y].copy.codes
    <3>1. CASE Begins(y)
      BY <2>2, <2>4, <3>1, BeginsWrites DEF Ongoing
    <3>2. CASE ~Begins(y)
      BY <2>2, <2>4, <3>2, Carry
    <3>3. QED
      BY <3>1, <3>2
  <2>5. QED
    BY <2>1, <2>3, <2>4
<1>3. CASE v \notin Made
  <2>1. Commit(v) /\ v \in Visits
    BY <1>1, <1>3, Carry DEF Made
  <2>2. visit'[v].used = visit[v].used
    BY <2>1, CommitsWrites
  <2>3. /\ visit[v].used.code \in visit[v].copy.codes /\ visit[v].used.code \notin visit[v].new.codes
        /\ visit[v].new.codes # visit[v].copy.codes => account'.codes = visit[v].new.codes
    BY <1>1, <2>1, <2>2, CommitsSound DEF Sound
  <2>4. visit'[v].used.code \notin account'.codes
    BY <2>2, <2>3
  <2>5. QED
    BY <1>1, <1>3, <2>4, NoneAfter
<1>4. QED
  BY <1>2, <1>3

LEMMA StepsPastKeeps ==
  ASSUME Base, DecisionsSound, SecretsMade, UsesPast, StepsPast, OperatorsNext
  PROVE  StepsPast'
<1>1. SUFFICES ASSUME NEW v \in Made', visit'[v].used.secret # NoVisit, ~Overlapped(v)'
               PROVE  /\ account'.secret = visit'[v].used.secret =>
                           account'.step >= visit'[v].used.code
                      /\ \A y \in Ongoing' : v \in began'[y] =>
                           /\ visit'[y].copy.secret = visit'[v].used.secret =>
                                visit'[y].copy.step >= visit'[v].used.code
                           /\ visit'[y].pc = "write" /\ visit'[y].used.secret # NoVisit =>
                                visit'[y].used.code >= visit'[v].used.code
  BY DEF StepsPast
<1>2. v \in Visits /\ Made \subseteq Visits /\ now \in Nat
  BY OperatorsAssumption DEF Made, Base, OperatorsTyped
<1>0. v \in Uses'
  <2>1. NoCode.secret = NoVisit
    BY Blank
  <2>2. QED
    BY <1>1, <2>1 DEF Uses
<1>3. CASE v \in Made
  <2>0. v \in Uses /\ visit'[v] = visit[v]
    BY <1>0, <1>3, Carry, OverlappedStays
  <2>1. PICK s, n : /\ s = visit[v].used.secret /\ s = visit'[v].used.secret
                    /\ n = visit[v].used.code /\ n = visit'[v].used.code
    BY <1>3, Carry
  <2>2. /\ account.secret = s => account.step >= n
        /\ \A y \in Ongoing : v \in began[y] =>
             /\ visit[y].copy.secret = s => visit[y].copy.step >= n
             /\ visit[y].pc = "write" /\ visit[y].used.secret # NoVisit =>
                  visit[y].used.code >= n
    BY <1>1, <1>3, <2>0, <2>1, OverlappedStays DEF StepsPast
  <2>3. n \in Nat /\ n <= now /\ s \in Made /\ s # NoVisit
    BY <1>1, <1>3, <2>1 DEF UsesPast, SecretsMade
  <2>4. account'.secret = s => account'.step >= n
    <3>1. ASSUME NEW y \in Visits, Commit(y), account'.secret = s PROVE account'.step >= n
      <4>1. /\ y \in Ongoing /\ y \in Made' \ Made /\ visit[y].pc = "write"
            /\ visit'[y].used = visit[y].used
        BY <3>1, CommitsWrites
      <4>2. /\ Sound(y, visit[y].copy, visit[y].new, visit[y].used, now)
            /\ visit[y].copy.secret \in Made \cup {NoVisit}
            /\ account'.step = IF visit[y].new.step # visit[y].copy.step
                               THEN visit[y].new.step ELSE account.step
            /\ account'.secret = IF visit[y].new.secret # visit[y].copy.secret
                                 THEN visit[y].new.secret ELSE account.secret
        BY <3>1, CommitsSound
      <4>3. visit[y].new.secret = visit[y].copy.secret /\ account.secret = s
        BY <2>3, <3>1, <4>1, <4>2 DEF Sound
      <4>4. visit[y].new.secret # y
        BY <4>1, <4>2, <4>3, OperatorsAssumption
      <4>5. CASE visit[y].new.step = visit[y].copy.step
        BY <2>2, <4>2, <4>3, <4>5
      <4>6. CASE visit[y].new.step # visit[y].copy.step
        <5>1. visit[y].used.secret # NoVisit /\ visit[y].used.code = visit[y].new.step
          BY <4>2, <4>4, <4>6 DEF Sound
        <5>2. y \in Uses' /\ Alike(v, y)'
          BY <1>1, <2>0, <4>1, <5>1, Blank DEF Uses, Alike
        <5>3. v \in began[y]
          BY <1>1, <2>0, <4>1, <5>2, OverlappedStays
        <5>4. QED
          BY <2>2, <4>1, <4>2, <4>6, <5>1, <5>3
      <4>7. QED
        BY <4>5, <4>6
    <3>2. QED
      BY <2>2, <3>1, Carry
  <2>5. ASSUME NEW y \in Ongoing', v \in began'[y]
        PROVE  /\ visit'[y].copy.secret = s => visit'[y].copy.step >= n
               /\ visit'[y].pc = "write" /\ visit'[y].used.secret # NoVisit =>
                    visit'[y].used.code >= n
    <3>0. y \in Visits
      BY DEF Ongoing
    <3>1. CASE Begins(y)
      BY <2>2, <2>5, <3>0, <3>1, BeginsWrites
    <3>2. CASE Decides(y)
      <4>1. /\ y \in Ongoing /\ v \in began[y] /\ visit'[y].copy = visit[y].copy
            /\ visit'[y].used.secret # NoVisit => visit'[y].used.code = now
        BY <2>5, <3>0, <3>2, DecidesWrites
      <4>2. QED
        BY <1>2, <2>2, <2>3, <4>1
    <3>3. CASE ~Begins(y) /\ ~Decides(y)
      <4>1. y \in Ongoing /\ v \in began[y] /\ visit'[y] = visit[y]
        BY <2>5, <3>3, Carry
      <4>2. QED
        BY <2>2, <4>1
    <3>4. QED
      BY <3>1, <3>2, <3>3
  <2>6. QED
    BY <2>1, <2>4, <2>5
<1>4. CASE v \notin Made
  <2>1. Commit(v)
    BY <1>1, <1>4, Carry
  <2>2. visit'[v].used = visit[v].used
    BY <1>2, <2>1, CommitsWrites
  <2>3. /\ Sound(v, visit[v].copy, visit[v].new, visit[v].used, now)
        /\ visit[v].copy.step \in Nat
        /\ account'.step = IF visit[v].new.step # visit[v].copy.step
                           THEN visit[v].new.step ELSE account.step
    BY <1>2, <2>1, CommitsSound
  <2>4. account'.step = visit'[v].used.code /\ account'.step \in Nat
    BY <1>1, <2>2, <2>3 DEF Sound
  <2>5. QED
    BY <1>1, <1>4, <2>4, NoneAfter
<1>5. QED
  BY <1>3, <1>4

LEMMA ServesOnceKeeps ==
  ASSUME Base, CodesInv, OperatorsNext
  PROVE  CodeServesOnce'
<1>1. Made \subseteq Visits /\ Made' \subseteq Visits
      /\ DecisionsSound /\ SecretsMade /\ CodesGone /\ StepsPast /\ CodeServesOnce
  BY DEF Made, CodesInv
<1>2. ASSUME NEW v \in Uses, NEW w \in Uses' \ Made, visit'[v].used = visit'[w].used
      PROVE  Overlapped(v)'
  <2>1. SUFFICES ASSUME ~Overlapped(v)' PROVE FALSE
    OBVIOUS
  <2>2. v \in Made /\ w \in Made' \ Made /\ w \in Visits /\ visit'[v].used # NoCode
    BY <1>2, Carry DEF Uses, Made
  <2>3. Commit(w) /\ v \in began[w]
    BY <1>2, <2>1, <2>2, Carry, OverlappedStays DEF Alike
  <2>4. /\ visit'[w].used = visit[w].used /\ visit'[v] = visit[v] /\ w \in Ongoing
        /\ Sound(w, visit[w].copy, visit[w].new, visit[w].used, now) /\ ~Overlapped(v)
        /\ visit[w].copy.step \in Nat
    BY <1>1, <1>2, <2>1, <2>2, <2>3, Carry, OverlappedStays, CommitsWrites, CommitsSound
  <2>5. CASE visit[v].used.secret = NoVisit
    BY <1>1, <1>2, <2>2, <2>3, <2>4, <2>5 DEF Sound, CodesGone
  <2>6. CASE visit[v].used.secret # NoVisit
    BY <1>1, <1>2, <2>2, <2>3, <2>4, <2>6 DEF Sound, StepsPast
  <2>7. QED
    BY <2>5, <2>6
<1>3. ASSUME NEW v \in Uses', NEW w \in Uses', v # w, visit'[v].used = visit'[w].used
      PROVE  Overlapped(v)' \/ Overlapped(w)'
  <2>1. CASE v \in Made /\ w \in Made
    <3>1. v \in Uses /\ w \in Uses /\ visit[v].used = visit[w].used
      BY <1>3, <2>1, Carry, OverlappedStays
    <3>2. Overlapped(v) \/ Overlapped(w)
      BY <1>1, <1>3, <3>1 DEF CodeServesOnce, Overlapped
    <3>3. QED
      BY <3>1, <3>2, OverlappedStays
  <2>2. CASE v \in Made /\ w \notin Made
    <3>1. v \in Uses
      BY <2>2, OverlappedStays
    <3>2. QED
      BY <1>2, <1>3, <2>2, <3>1
  <2>3. CASE v \notin Made /\ w \in Made
    <3>1. w \in Uses
      BY <2>3, OverlappedStays
    <3>2. QED
      BY <1>2, <1>3, <2>3, <3>1
  <2>4. CASE v \notin Made /\ w \notin Made
    BY <1>3, <2>4, Carry DEF Uses
  <2>5. QED
    BY <2>1, <2>2, <2>3, <2>4
<1>4. QED
  BY <1>3 DEF CodeServesOnce, Overlapped

LEMMA CodesKeep ==
  ASSUME Base, CodesInv, OperatorsNext
  PROVE  CodesInv'
<1>1. DecisionsSound /\ SecretsMade /\ UsesPast /\ CodesGone /\ StepsPast
  BY DEF CodesInv
<1>2. DecisionsSound' /\ SecretsMade' /\ UsesPast'
  BY <1>1, DecisionsSoundKeeps, SecretsMadeKeeps, UsesPastKeeps
<1>3. CodesGone' /\ StepsPast' /\ CodeServesOnce'
  BY <1>1, CodesGoneKeeps, StepsPastKeeps, ServesOnceKeeps
<1>4. QED
  BY <1>2, <1>3 DEF CodesInv
-----------------------------------------------------------------------------
(* The invariant, and the theorems *)

LEMMA InitEstablishes == OperatorsInit => IndInv
<1> SUFFICES ASSUME OperatorsInit PROVE IndInv
  OBVIOUS
<1>1. /\ visit \in [Visits -> VisitRec]
      /\ \A v \in Visits : /\ visit[v].pc \in {"idle", "done"} /\ visit[v].kind \in {"none", "login"}
                           /\ visit[v].via = NoVisit /\ visit[v].used = NoCode
                           /\ v \in Old => visit[v].pc = "done"
  <2> DEFINE old == [NotBegun EXCEPT !.pc = "done", !.kind = "login"]
  <2>1. /\ NotBegun \in VisitRec /\ NotBegun.pc = "idle" /\ NotBegun.kind = "none"
        /\ NotBegun.via = NoVisit /\ NotBegun.used = NoCode
    BY Blank
  <2>2. /\ old \in VisitRec /\ old.pc = "done" /\ old.kind = "login" /\ old.via = NoVisit
        /\ old.used = NoCode
    BY <2>1 DEF VisitRec, Kinds
  <2>3. visit = [v \in Visits |-> IF v \in Old THEN old ELSE NotBegun]
    BY DEF OperatorsInit
  <2> HIDE DEF old
  <2>4. QED
    BY <2>1, <2>2, <2>3
<1>2. /\ Ongoing = {} /\ Revocations = {} /\ Old \subseteq Made
      /\ \A v \in Visits : visit[v].pc # "write"
  BY <1>1, OperatorsAssumption DEF Ongoing, Revocations, Done, Made
<1>3. Issued \subseteq Made /\ dead = {} /\ now = 1 /\ failures = 0 /\ exists = TRUE
      /\ given \in [Visits -> SessionKinds] /\ began = [v \in Visits |-> {}]
  BY <1>2 DEF OperatorsInit, Issued
<1>4. account \in Account /\ account.secret \in Old \cup {NoVisit}
  <2>1. PICK must \in BOOLEAN, totp \in BOOLEAN, s \in Old \cup {NoVisit} :
          account = [Active0 EXCEPT !.must = must, !.totp = totp, !.secret = s,
                                    !.codes = IF s = NoVisit THEN {} ELSE Codes]
    BY DEF OperatorsInit
  <2>2. s \in Secrets
    BY OperatorsAssumption DEF Secrets
  <2>3. QED
    BY <2>1, <2>2, Blank, ZenonT(40) DEF Account
<1>5. NoCode.secret = NoVisit
  BY Blank
<1>6. Base
  <2>1. OperatorsTyped
    BY <1>1, <1>3, <1>4, OperatorsAssumption DEF OperatorsTyped
  <2>2. History
    BY <1>2, <1>3 DEF History, Made
  <2>3. QED
    BY <1>2, <2>1, <2>2 DEF Base, HasSecret, Undecided
<1>7. SessionsInv
  BY <1>1, <1>2 DEF SessionsInv, EndedCovers, RevokedDead, ViaMet, Made
<1>8. CodesInv
  <2>1. DecisionsSound /\ SecretsMade
    BY <1>1, <1>2, <1>4, <1>5 DEF DecisionsSound, SecretsMade, Made
  <2>2. UsesPast /\ CodesGone /\ StepsPast
    BY <1>1, <1>5 DEF UsesPast, CodesGone, StepsPast, Made
  <2>3. CodeServesOnce
    BY <1>1 DEF CodeServesOnce, Uses, Made
  <2>4. QED
    BY <2>1, <2>2, <2>3 DEF CodesInv
<1>9. QED
  BY <1>6, <1>7, <1>8 DEF IndInv

LEMMA Inductive == IndInv /\ [OperatorsNext]_operatorVars => IndInv'
<1> SUFFICES ASSUME IndInv, [OperatorsNext]_operatorVars PROVE IndInv'
  OBVIOUS
<1>1. CASE OperatorsNext
  BY <1>1, BaseKeeps, SessionsKeep, CodesKeep DEF IndInv
<1>2. CASE UNCHANGED operatorVars
  <2> USE <1>2 DEF operatorVars
  <2>1. /\ Ongoing' = Ongoing /\ Made' = Made /\ Issued' = Issued /\ Revocations' = Revocations
        /\ \A v, w : AtOnce(v, w)' = AtOnce(v, w)
    BY DEF Ongoing, Made, Issued, Revocations, Done, AtOnce
  <2>2. Base'
    BY <2>1 DEF IndInv, Base, OperatorsTyped, History, HasSecret, Undecided
  <2>3. SessionsInv'
    <3>1. \A r : Beside(r)' = Beside(r)
      BY <2>1 DEF Beside
    <3>2. EndedCovers'
      BY <2>1 DEF IndInv, SessionsInv, EndedCovers
    <3>3. RevokedDead' /\ ViaMet'
      BY <2>1, <3>1 DEF IndInv, SessionsInv, RevokedDead, ViaMet
    <3>4. QED
      BY <3>2, <3>3 DEF SessionsInv
  <2>4. CodesInv'
    <3>0. Uses' = Uses /\ \A v, w : Alike(v, w)' = Alike(v, w)
      BY <2>1 DEF Uses, Alike
    <3>1. \A v : Overlapped(v)' = Overlapped(v)
      BY <2>1, <3>0 DEF Overlapped
    <3>2. DecisionsSound'
      BY DEF IndInv, CodesInv, DecisionsSound, Sound
    <3>3. SecretsMade' /\ UsesPast'
      BY <2>1 DEF IndInv, CodesInv, SecretsMade, UsesPast
    <3>4. CodesGone'
      BY <2>1, <3>1 DEF IndInv, CodesInv, CodesGone
    <3>5. StepsPast'
      BY <2>1, <3>1 DEF IndInv, CodesInv, StepsPast
    <3>6. CodeServesOnce'
      BY <2>1, <3>0 DEF IndInv, CodesInv, CodeServesOnce
    <3>7. QED
      BY <3>2, <3>3, <3>4, <3>5, <3>6 DEF CodesInv
  <2>5. QED
    BY <2>2, <2>3, <2>4 DEF IndInv
<1>3. QED
  BY <1>1, <1>2

LEMMA Invariant == OperatorsSpec => []IndInv
<1>1. QED
  BY InitEstablishes, Inductive, PTL DEF OperatorsSpec

\* The row of the account, the copies the visits hold and what each of them will
\* write stay rows the code can store (core/auth/models.py).
THEOREM OperatorTypes == OperatorsSpec => []OperatorsTypeOK
<1>1. IndInv => OperatorsTypeOK
  BY DEF IndInv, Base, OperatorsTyped, OperatorsTypeOK, VisitRec
<1>2. QED
  BY Invariant, <1>1, PTL

\* A revocation ends every session that does not begin after it, but for a login
\* or another revocation that overlapped with it (service.py:155).
THEOREM SessionsEnded == OperatorsSpec => []SessionsEndWithRevocation
<1>1. IndInv => SessionsEndWithRevocation
  BY SessionsEnd DEF IndInv
<1>2. QED
  BY Invariant, <1>1, PTL

\* A code of the second factor serves once, but where one of its two uses
\* overlapped with a use of a code of its sort (router.py:356, totp.py:103).
THEOREM CodesServeOnce == OperatorsSpec => []CodeServesOnce
<1>1. IndInv => CodeServesOnce
  BY DEF IndInv, CodesInv
<1>2. QED
  BY Invariant, <1>1, PTL
=============================================================================
