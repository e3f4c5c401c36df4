----------------------------- MODULE Operators ------------------------------
(***************************************************************************)
(* One operator's account: its sessions, its password and its second factor *)
(* (core/auth/router.py, service.py, dependencies.py, totp.py).  A visit is  *)
(* one request: it reads the row of the account, decides on that copy, and   *)
(* commits the columns it changed in it.  A session is the token a visit      *)
(* gave; tokens_valid_after is the set of the tokens issued before it.  Who   *)
(* may ask for what, wrong passwords and expiry times are left out.          *)
(***************************************************************************)
EXTENDS Naturals

CONSTANTS
  Visits,       \* each made once
  Old,          \* visits made before: their tokens may be around
  NoVisit,
  Codes,        \* the backup codes the account starts with
  MaxFailures,  \* _2FA_MAX_ATTEMPTS
  MaxStep       \* bound: the steps of 30 seconds

ASSUME OperatorsAssumption ==
  /\ Old \subseteq Visits /\ NoVisit \notin Visits /\ 0 \notin Codes
  /\ MaxFailures \in Nat \ {0} /\ MaxStep \in Nat \ {0}

VARIABLES
  account,   \* the row: active, password, must, totp, secret (the visit that made
             \* it), locked, codes, step
  exists,    \* the row is there
  dead,      \* the tokens issued before tokens_valid_after
  failures,  \* _2fa_attempts of the account
  now,       \* the TOTP step of the clock
  visit,     \* visit[v]: [pc, kind, via, copy, new, ended, gives, used]
  given,     \* given[v]: the kind of the token visit v was answered with
  \* History
  began      \* began[v]: the visits committed before v began

operatorVars == <<account, exists, dead, failures, now, visit, given, began>>

Kinds    == {"login", "second", "change", "setup2fa", "own", "secret", "on", "off", "codes",
             "logout", "disable", "enable", "password", "force", "reset", "delete"}
SessionKinds  == {"none", "full", "second", "change", "setup"}
Secrets  == Visits \cup {NoVisit}
Account  == [active : BOOLEAN, password : Visits \cup {NoVisit}, must : BOOLEAN, totp : BOOLEAN,
             secret : Secrets, locked : BOOLEAN, codes : SUBSET Codes, step : Nat]
NoCode   == [secret |-> NoVisit, code |-> 0]
Active0  == [active |-> TRUE, password |-> NoVisit, must |-> FALSE, totp |-> FALSE,
             secret |-> NoVisit, locked |-> FALSE, codes |-> Codes, step |-> 0]
NotBegun == [pc |-> "idle", kind |-> "none", via |-> NoVisit, copy |-> Active0, new |-> Active0,
             ended |-> {}, gives |-> "none", used |-> NoCode]
Ongoing  == {v \in Visits : visit[v].pc \in {"read", "write"}}
Made     == {v \in Visits : visit[v].pc = "done"}
Issued   == {v \in Visits : given[v] # "none"}

\* revoke_sessions is called by these.
Revoking_Mutant == {"change", "own", "logout", "disable", "reset"}
Revoking == {"change", "own", "logout", "disable", "password", "reset"}

OperatorsTypeOK ==
  /\ account \in Account /\ exists \in BOOLEAN
  /\ dead \subseteq Visits /\ failures \in Nat /\ now \in 1..MaxStep
  /\ given \in [Visits -> SessionKinds]
  /\ began \in [Visits -> SUBSET Visits]
  /\ \A v \in Visits :
       /\ visit[v].pc \in {"idle", "read", "write", "done", "refused"}
       /\ visit[v].kind \in Kinds \cup {"none", "lock"}
       /\ visit[v].via \in Visits \cup {NoVisit}
       /\ visit[v].copy \in Account /\ visit[v].new \in Account
       /\ visit[v].ended \subseteq Visits /\ visit[v].gives \in SessionKinds

OperatorsInit ==
  /\ \E must, totp \in BOOLEAN, s \in Old \cup {NoVisit} :
       /\ totp => s # NoVisit
       /\ account = [Active0 EXCEPT !.must = must, !.totp = totp, !.secret = s,
                                   !.codes = IF s = NoVisit THEN {} ELSE Codes]
  /\ exists = TRUE
  /\ dead = {} /\ failures = 0 /\ now = 1
  /\ visit = [v \in Visits |-> IF v \in Old THEN [NotBegun EXCEPT !.pc = "done", !.kind = "login"]
                                            ELSE NotBegun]
  /\ given \in [Visits -> SessionKinds]
  /\ \A v \in Visits : given[v] # "none" <=> v \in Old
  /\ began = [v \in Visits |-> {}]

----------------------------------------------------------------------------
\* token_is_current, with the kind of token the handler takes.
Current(t, kinds) == t \in Issued /\ given[t] \in kinds /\ t \notin dead

\* The token a visit needs; an administrator's own is not followed.
TakenBy(kind) ==
  IF kind = "second" THEN {"second"}
  ELSE IF kind = "change" THEN {"change"}
  ELSE IF kind = "setup2fa" THEN {"setup"}
  ELSE IF kind \in {"secret", "on"} THEN {"full", "setup"}
  ELSE {"full"}
Anonymous == {"login", "disable", "enable", "password", "force", "reset", "delete"}

\* A visit reads the row: its token is current and its account active (the
\* second factor leaves that to the revocation), and what it asks for is not
\* refused at once.
Allowed(kind) ==
  /\ kind \in {"login", "change", "setup2fa", "own", "secret", "on", "off", "codes", "logout"}
       => account.active
  /\ kind = "second" => ~account.locked
  /\ kind \in {"second", "setup2fa", "on", "codes"} => account.secret # NoVisit
  /\ kind \in {"setup2fa", "secret", "on"} => ~account.totp
  /\ kind \in {"off", "codes"} => account.totp

Visit(v) ==
  /\ exists /\ visit[v].pc = "idle"
  /\ \E kind \in Kinds :
       /\ Allowed(kind)
       /\ \E t \in Visits \cup {NoVisit} :
            /\ IF kind \in Anonymous THEN t = NoVisit ELSE Current(t, TakenBy(kind))
            /\ visit' = [visit EXCEPT ![v] = [NotBegun EXCEPT !.pc = "read", !.kind = kind,
                                                              !.via = t, !.copy = account]]
  /\ began' = [began EXCEPT ![v] = Made]
  /\ UNCHANGED <<account, exists, dead, failures, now, given>>

\* The visit has decided: the row it will write, the token it will give.
Decide(v, new, gives, used) ==
  /\ visit[v].pc = "read"
  /\ visit' = [visit EXCEPT ![v].pc = "write", ![v].new = new, ![v].gives = gives,
                            ![v].ended = Issued, ![v].used = used]
  /\ UNCHANGED <<account, exists, dead, now, given, began>>

\* With a new row and nothing else.
Edit(v, kind, new) ==
  visit[v].kind = kind /\ Decide(v, new, "none", NoCode) /\ UNCHANGED failures

\* What a session of the account still needs.
Gate(acc) == IF acc.must THEN "change" ELSE "full"

\* login: the password was compared in a thread, with the copy.
DecideLogin(v) ==
  LET acc == visit[v].copy IN
  /\ visit[v].kind = "login"
  /\ \/ Decide(v, acc, IF acc.totp THEN "second" ELSE Gate(acc), NoCode)
     \/ ~acc.totp /\ Decide(v, acc, "setup", NoCode)   \* totp_enforced
  /\ UNCHANGED failures

\* check_totp: a code of the step, newer than the last one used.
TotpFits_Mutant(acc) == now >= acc.step
TotpFits(acc) == now > acc.step
ByTotp(acc)   == [acc EXCEPT !.step = now]
TotpUse(acc)     == [secret |-> acc.secret, code |-> now]

\* verify_backup_code: the list of the copy, with one marked.
Spent(acc, c) == [acc EXCEPT !.codes = @ \ {c}]

\* verify_2fa_login with a good code.
SecondSucceeds(v) ==
  LET acc == visit[v].copy IN
  /\ visit[v].kind = "second"
  /\ \/ TotpFits(acc) /\ Decide(v, ByTotp(acc), Gate(acc), TotpUse(acc))
     \/ \E c \in acc.codes :
          Decide(v, Spent(acc, c), Gate(acc), [secret |-> NoVisit, code |-> c])
  /\ failures' = 0

\* With a bad one: counted, and the last one locks the second factor.
SecondFails(v) ==
  /\ visit[v].pc = "read" /\ visit[v].kind = "second"
  /\ failures' = failures + 1
  /\ visit' = [visit EXCEPT ![v] =
       IF failures + 1 >= MaxFailures
       THEN [@ EXCEPT !.pc = "write", !.kind = "lock", !.ended = Issued,
                      !.new = [visit[v].copy EXCEPT !.locked = TRUE]]
       ELSE [NotBegun EXCEPT !.pc = "refused"]]
  /\ began' = IF failures + 1 >= MaxFailures THEN began ELSE [began EXCEPT ![v] = {}]
  /\ UNCHANGED <<account, exists, dead, now, given>>

----------------------------------------------------------------------------
(* Passwords and accounts. *)

\* service.update_user: a new password ends a forced change.
NewPassword(acc, v) == [acc EXCEPT !.password = v, !.must = FALSE]

CompletePasswordChange(v) ==
  /\ visit[v].kind = "change"
  /\ Decide(v, NewPassword(visit[v].copy, v), "full", NoCode)
  /\ UNCHANGED failures

ChangeOwnPassword(v) == Edit(v, "own", NewPassword(visit[v].copy, v))

\* One field at a time.
UpdateUser(v) ==
  LET acc == visit[v].copy IN
  \/ Edit(v, "password", NewPassword(acc, v))
  \/ Edit(v, "disable", [acc EXCEPT !.active = FALSE])
  \/ Edit(v, "enable", [acc EXCEPT !.active = TRUE])
  \/ Edit(v, "force", [acc EXCEPT !.must = TRUE])

DeleteUser(v) == Edit(v, "delete", visit[v].copy)
Logout(v)     == Edit(v, "logout", visit[v].copy)

----------------------------------------------------------------------------
(* The second factor of an account.  New backup codes are not among Codes. *)

Setup2fa(v) ==
  Edit(v, "secret", [visit[v].copy EXCEPT !.secret = v, !.step = 0, !.codes = {}])

Enabled(acc) == [ByTotp(acc) EXCEPT !.totp = TRUE]

\* enable_2fa, and complete_2fa_setup, which gives a session.
Enable2fa(v) ==
  LET acc == visit[v].copy IN
  /\ visit[v].kind = "on" /\ TotpFits(acc)
  /\ Decide(v, Enabled(acc), "none", TotpUse(acc))
  /\ UNCHANGED failures

Complete2faSetup(v) ==
  LET acc == visit[v].copy IN
  /\ visit[v].kind = "setup2fa" /\ TotpFits(acc)
  /\ Decide(v, Enabled(acc), Gate(acc), TotpUse(acc))
  /\ UNCHANGED failures

\* disable_2fa, and disable_user_2fa, by an administrator.
Without2fa(acc) == [acc EXCEPT !.totp = FALSE, !.locked = FALSE, !.secret = NoVisit,
                                !.codes = {}]
Disable2fa(v)     == Edit(v, "off", Without2fa(visit[v].copy))
DisableUser2fa(v) == Edit(v, "reset", Without2fa(visit[v].copy))

RegenerateBackupCodes(v) ==
  LET acc == visit[v].copy IN
  /\ visit[v].kind = "codes" /\ TotpFits(acc)
  /\ Decide(v, [ByTotp(acc) EXCEPT !.codes = {}], "none", TotpUse(acc))
  /\ UNCHANGED failures

----------------------------------------------------------------------------
\* The commit: an UPDATE of the columns that differ from the copy, and of
\* tokens_valid_after where sessions are revoked.  No row, no commit.
Written(acc, copy, new) == [f \in DOMAIN acc |-> IF new[f] # copy[f] THEN new[f] ELSE acc[f]]

Commit(v) ==
  LET j == visit[v] IN
  /\ j.pc = "write" /\ exists
  /\ exists' = (j.kind # "delete")
  /\ account' = Written(account, j.copy, j.new)
  /\ dead' = IF j.kind \in Revoking \cup {"lock"} THEN j.ended ELSE dead
  /\ failures' = IF j.kind = "lock" THEN 0 ELSE failures
  /\ given' = [given EXCEPT ![v] = j.gives]
  /\ visit' = [visit EXCEPT ![v] = [NotBegun EXCEPT !.pc = "done", !.kind = j.kind,
                                                    !.via = j.via, !.used = j.used]]
  /\ UNCHANGED <<now, began>>

\* A visit is refused after its read, or fails.
Refused(v) ==
  /\ v \in Ongoing
  /\ visit' = [visit EXCEPT ![v] = [NotBegun EXCEPT !.pc = "refused"]]
  /\ began' = [began EXCEPT ![v] = {}]
  /\ UNCHANGED <<account, exists, dead, failures, now, given>>

NextStep ==
  /\ now < MaxStep
  /\ now' = now + 1
  /\ UNCHANGED <<account, exists, dead, failures, visit, given, began>>

\* The counter is in memory.
RestartCounter ==
  /\ failures > 0 /\ failures' = 0
  /\ visit' = [v \in Visits |-> IF v \in Ongoing THEN [NotBegun EXCEPT !.pc = "refused"] ELSE visit[v]]
  /\ began' = [v \in Visits |-> IF v \in Ongoing THEN {} ELSE began[v]]
  /\ UNCHANGED <<account, exists, dead, now, given>>

OperatorsNext ==
  \/ \E v \in Visits :
       \/ Visit(v) \/ DecideLogin(v) \/ SecondSucceeds(v) \/ SecondFails(v)
       \/ CompletePasswordChange(v) \/ ChangeOwnPassword(v) \/ UpdateUser(v)
       \/ DeleteUser(v) \/ Logout(v)
       \/ Setup2fa(v) \/ Enable2fa(v) \/ Complete2faSetup(v)
       \/ Disable2fa(v) \/ DisableUser2fa(v) \/ RegenerateBackupCodes(v)
       \/ Commit(v) \/ Refused(v)
  \/ NextStep \/ RestartCounter

OperatorsSpec == OperatorsInit /\ [][OperatorsNext]_operatorVars

----------------------------------------------------------------------------
(* Properties. *)

Done(kinds)     == {v \in Visits : visit[v].pc = "done" /\ visit[v].kind \in kinds}
AtOnce(v, w)    == v # w /\ v \notin began[w] /\ w \notin began[v]
Revocations     == Done({"change", "own", "logout", "disable", "password", "reset", "lock"})

\* The visits a session goes back to: its own, and the one whose token it took.
Lineage(t) == {t} \cup ({visit[t].via} \ {NoVisit})

\* A revocation ends every session that does not begin after it, and for good:
\* but for a session whose login overlapped with it, and for a revocation that
\* overlapped with another one, in whatever order the two were committed
\* (service.py:155, router.py:267).
SessionsEndWithRevocation ==
  \A t \in Issued \ dead, r \in Revocations :
    \/ r \in Lineage(t)
    \/ \A v \in Lineage(t) : r \in began[v]
    \/ \E v \in Lineage(t) : AtOnce(v, r)
    \/ \E q \in Revocations : AtOnce(q, r)

\* The visits that used a code, and that they used the same sort of it: codes of
\* the authenticator, or backup codes.
Uses        == {v \in Made : visit[v].used # NoCode}
Alike(v, w) == (visit[v].used.secret = NoVisit) = (visit[w].used.secret = NoVisit)

\* A code of the second factor serves once: but where one of its two uses
\* overlapped with a use of a code of its sort, of which each writes back the
\* step or the backup codes it read (router.py:356, totp.py:103).
CodeServesOnce ==
  \A v, w \in Uses :
    v # w /\ visit[v].used = visit[w].used
      => \E x \in {v, w}, y \in Uses : AtOnce(x, y) /\ Alike(x, y)
=============================================================================
