------------------------------ MODULE Licenses ------------------------------
(***************************************************************************)
(* hub/licenses: the entitlements of one instance for one feature, the       *)
(* tokens signed for them and the commands that bring them to the instance.  *)
(* A creation (POST /licenses or the provisioning API), a revocation and a   *)
(* pass of renew_task commit and queue in separate steps; the renewal works  *)
(* on the rows it selected at its start.                                     *)
(*                                                                         *)
(* Of the dispatcher (module Commands) the module keeps what decides in      *)
(* which order the instance executes the commands: they are held while it is *)
(* away, sent again in the order they were made by each connection, lost     *)
(* with it, and sent at once when they are queued, before what was held      *)
(* included.  The agent, which is external, executes a command once and none *)
(* that has expired.                                                         *)
(***************************************************************************)
EXTENDS Naturals

CONSTANTS
  Licenses,    \* License.id
  NoLicense,
  Termed,      \* the licenses with a valid_until
  Grants,      \* runs of a handler or of the renewal, each used once
  Links,       \* connections of the instance's agent, each used once
  NoLink,
  MaxCut       \* bound: runs cut short by an error or a restart

ASSUME LicensesAssumption ==
  /\ NoLicense \notin Licenses
  /\ Termed \subseteq Licenses
  /\ NoLink \notin Links
  /\ MaxCut \in Nat

VARIABLES
  license,   \* license[l]: "none", "active" or what made it inactive
  over,      \* the licenses past their valid_until
  signed,    \* signed[l]: the age of License.token: "none" without one
  last,      \* the licenses whose token ends with the entitlement
  unanswered, \* the commands in the table, neither executed nor expired
  older,     \* <<c, d>>: c was made before d
  serving,   \* the connection in the registry
  stage,     \* stage[k]: where the handler of connection k stands
  batch,     \* batch[k]: what its resend_pending selected
  wire,      \* the commands on their way to the instance
  ahead,     \* <<c, d>>: c is before d on the wire
  holds,     \* the licenses the instance has a token for that has not expired
  grant,     \* grant[g]: [pc, kind, cur, todo]
  cuts,
  \* History
  touched,   \* touched[l]: the runs that issued or revoked it
  together,  \* the pairs of runs at the same time
  astray     \* the licenses with a revocation that was sent before what was
             \* held, or expired, or with a token a connection did not accept

termVars    == <<license, over, signed, last>>
linkVars    == <<serving, stage, batch>>
wireVars    == <<wire, ahead>>
licenseVars == <<termVars, unanswered, older, linkVars, wireVars, holds, grant, cuts,
                 touched, together, astray>>

Orders    == {"install", "revoke"} \X Licenses \X Grants
NoGrant   == [pc |-> "idle", kind |-> "none", cur |-> NoLicense, todo |-> {}]
Working   == {g \in Grants : grant[g].pc \notin {"idle", "done", "cut"}}
ActiveLic == {l \in Licenses : license[l] = "active"}

LicensesTypeOK ==
  /\ license \in [Licenses -> {"none", "active", "revoked", "ended"}]
  /\ over \subseteq Termed /\ last \subseteq Termed
  /\ signed \in [Licenses -> {"none", "fresh", "due", "lapsed"}]
  /\ unanswered \subseteq Orders /\ wire \subseteq Orders
  /\ older \subseteq Orders \X Orders /\ ahead \subseteq Orders \X Orders
  /\ serving \in Links \cup {NoLink}
  /\ stage \in [Links -> {"unused", "registered", "selected", "resent"}]
  /\ batch \in [Links -> SUBSET Orders]
  /\ holds \subseteq Licenses
  /\ grant \in [Grants -> [pc : {"idle", "insert", "sign", "next", "queue", "send",
                                 "done", "cut"},
                           kind : {"none", "create", "renew", "revoke"},
                           cur : Licenses \cup {NoLicense}, todo : SUBSET Licenses]]
  /\ cuts \in 0..MaxCut
  /\ touched \in [Licenses -> SUBSET Grants]
  /\ together \subseteq SUBSET Grants
  /\ astray \subseteq Licenses

LicensesInit ==
  /\ license = [l \in Licenses |-> "none"]
  /\ over = {} /\ last = {} /\ holds = {}
  /\ signed = [l \in Licenses |-> "none"]
  /\ unanswered = {} /\ older = {} /\ wire = {} /\ ahead = {}
  /\ serving = NoLink
  /\ stage = [k \in Links |-> "unused"]
  /\ batch = [k \in Links |-> {}]
  /\ grant = [g \in Grants |-> NoGrant]
  /\ cuts = 0
  /\ touched = [l \in Licenses |-> {}]
  /\ together = {} /\ astray = {}

Begins(g, kind, pc, todo) ==
  /\ grant[g].pc = "idle"
  /\ grant' = [grant EXCEPT ![g] = [NoGrant EXCEPT !.pc = pc, !.kind = kind, !.todo = todo]]
  /\ together' = together \cup {{g, h} : h \in Working}
  /\ UNCHANGED <<termVars, unanswered, older, linkVars, wireVars, holds, cuts, touched, astray>>

\* After a license of the list: the next, or the end.
Onwards(g, rest) == [grant EXCEPT ![g].pc = IF rest = {} THEN "done" ELSE "next",
                                  ![g].cur = NoLicense, ![g].todo = rest]

Touch(g, l) == touched' = [touched EXCEPT ![l] = @ \cup {g}]

\* The command run g is about to queue, or has queued, and those made so far.
Order(g) == <<IF grant[g].kind = "revoke" THEN "revoke" ELSE "install", grant[g].cur, g>>
InHand   == unanswered \cup {Order(h) : h \in {h \in Grants : grant[h].pc = "queue"}}

\* queue_command makes its row, with created_at, as soon as the commit before
\* it returns.
Makes(c) == older' = older \cup {<<d, c>> : d \in InHand}

----------------------------------------------------------------------------
\* create_license and add_license: no active license for the feature.
Unlicensed_Mutant == TRUE
Unlicensed == ActiveLic = {}

CreateReads(g) == Unlicensed /\ Begins(g, "create", "insert", {})

\* create: the row is committed active, without a token.
InsertLicense(g) ==
  /\ grant[g].pc = "insert"
  /\ \E l \in Licenses :
       /\ license[l] = "none"
       /\ license' = [license EXCEPT ![l] = "active"]
       /\ grant' = [grant EXCEPT ![g].pc = "sign", ![g].cur = l]
       /\ Touch(g, l)
  /\ UNCHANGED <<over, signed, last, unanswered, older, linkVars, wireVars, holds, cuts,
                 together, astray>>

\* issue_token: signed and committed; the status of the row is not looked at.
SignToken(g) ==
  LET l == grant[g].cur IN
  /\ grant[g].pc = "sign"
  /\ IF l \in over
     THEN grant' = Onwards(g, grant[g].todo) /\ UNCHANGED <<signed, last, touched, older>>
     ELSE /\ signed' = [signed EXCEPT ![l] = "fresh"]
          /\ last' \in IF l \in Termed THEN {last, last \cup {l}} ELSE {last}
          /\ grant' = [grant EXCEPT ![g].pc = "queue"]
          /\ Makes(Order(g))
          /\ Touch(g, l)
  /\ UNCHANGED <<license, over, unanswered, linkVars, wireVars, holds, cuts, together, astray>>

----------------------------------------------------------------------------
\* revoke_license, of an active row; remove_license, of all of them.
RevokeLicenseReads(g) == \E l \in ActiveLic : Begins(g, "revoke", "next", {l})
RemoveLicenseReads(g) == ActiveLic # {} /\ Begins(g, "revoke", "next", ActiveLic)

\* revoke: committed, then queued.
CommitRevocation(g) ==
  /\ grant[g].pc = "next" /\ grant[g].kind = "revoke"
  /\ \E l \in grant[g].todo :
       /\ license' = [license EXCEPT ![l] = "revoked"]
       /\ grant' = [grant EXCEPT ![g].pc = "queue", ![g].cur = l, ![g].todo = @ \ {l}]
       /\ Makes(<<"revoke", l, g>>)
       /\ Touch(g, l)
  /\ UNCHANGED <<over, signed, last, unanswered, linkVars, wireVars, holds, cuts, together,
                 astray>>

----------------------------------------------------------------------------
\* _renew_once: a token never issued (NULL) is not below the threshold.
RenewReads(g) ==
  LET stale == {l \in ActiveLic : signed[l] \in {"due", "lapsed"}} IN
  /\ stale # {}
  /\ \A h \in Working : grant[h].kind # "renew"
  /\ Begins(g, "renew", "next", stale)

\* One row of the pass: ended, final, or signed again.
RenewNext(g) ==
  /\ grant[g].pc = "next" /\ grant[g].kind = "renew"
  /\ \E l \in grant[g].todo :
       LET rest == grant[g].todo \ {l} IN
       \/ /\ l \in over
          /\ license' = [license EXCEPT ![l] = IF @ = "active" THEN "ended" ELSE @]
          /\ grant' = Onwards(g, rest)
       \/ /\ l \in last \ over
          /\ grant' = Onwards(g, rest)
          /\ UNCHANGED license
       \/ /\ l \notin last \cup over
          /\ grant' = [grant EXCEPT ![g].pc = "sign", ![g].cur = l, ![g].todo = rest]
          /\ UNCHANGED license
  /\ UNCHANGED <<over, signed, last, unanswered, older, linkVars, wireVars, holds, cuts,
                 touched, together, astray>>

----------------------------------------------------------------------------
\* queue_command: the row is committed ...
QueueCommand(g) ==
  /\ grant[g].pc = "queue"
  /\ unanswered' = unanswered \cup {Order(g)}
  /\ grant' = [grant EXCEPT ![g].pc = "send"]
  /\ UNCHANGED <<termVars, older, linkVars, wireVars, holds, cuts, touched, together, astray>>

\* Frames accepted by the outbox go behind what is on the wire, in an order.
PutOn(S, order) ==
  /\ wire' = wire \cup S
  /\ ahead' = ahead \cup (wire \X (S \ wire))
                    \cup {p \in order : p[1] \in S \ wire /\ p[2] \in S \ wire}

\* The licenses with a token among the commands a connection did not accept,
\* for want of room or of the capability.
TokensIn(S) == {c[2] : c \in {c \in S : c[1] = "install"}}

\* ... then sent, when the instance is connected: before the connection has
\* sent what it holds, that is ahead of it.
SendCommand(g) ==
  LET c == Order(g)
  IN
  /\ grant[g].pc = "send"
  /\ IF serving = NoLink \/ c \notin unanswered
     THEN UNCHANGED <<wireVars, astray>>
     ELSE \/ /\ PutOn({c}, {})
             /\ astray' = astray \cup IF c[1] = "revoke" /\ stage[serving] # "resent"
                                      THEN {c[2]} ELSE {}
          \/ /\ astray' = astray \cup TokensIn({c})
             /\ UNCHANGED wireVars
  /\ grant' = Onwards(g, grant[g].todo)
  /\ UNCHANGED <<termVars, unanswered, older, linkVars, holds, cuts, touched, together>>

\* The agent connects: the handler registers the connection, in the place of
\* one it displaces, whose frames are lost.
Connect(k) ==
  /\ stage[k] = "unused"
  /\ serving' = k
  /\ stage' = [stage EXCEPT ![k] = "registered"]
  /\ wire' = {} /\ ahead' = {}
  /\ UNCHANGED <<termVars, unanswered, older, batch, holds, grant, cuts, touched, together,
                 astray>>

\* resend_pending: what it selects ...
ResendSelect(k) ==
  /\ stage[k] = "registered"
  /\ stage' = [stage EXCEPT ![k] = "selected"]
  /\ batch' = [batch EXCEPT ![k] = unanswered]
  /\ UNCHANGED <<termVars, unanswered, older, serving, wireVars, holds, grant, cuts, touched,
                 together, astray>>

Selected_Mutant(k) == [set |-> batch[k], order |-> {}]

\* ... and sends after its await, oldest first, on the connection that is
\* registered by then.  The connection accepts a part of it.
Selected(k) == [set |-> batch[k], order |-> older]

ResendSend(k) ==
  /\ stage[k] = "selected"
  /\ stage' = [stage EXCEPT ![k] = "resent"]
  /\ batch' = [batch EXCEPT ![k] = {}]
  /\ IF serving = NoLink
     THEN UNCHANGED <<wireVars, astray>>
     ELSE \E S \in SUBSET Selected(k).set :
            /\ PutOn(S, Selected(k).order)
            /\ astray' = astray \cup TokensIn(Selected(k).set \ S)
  /\ UNCHANGED <<termVars, unanswered, older, serving, holds, grant, cuts, touched, together>>

\* The connection ends, and the frames with it.
LoseLink ==
  /\ serving # NoLink
  /\ serving' = NoLink
  /\ wire' = {} /\ ahead' = {}
  /\ UNCHANGED <<termVars, unanswered, older, stage, batch, holds, grant, cuts, touched,
                 together, astray>>

\* Command c is over: no copy of it counts any more.
Over(c) ==
  /\ unanswered' = unanswered \ {c}
  /\ older' = {p \in older : p[1] # c /\ p[2] # c}
  /\ batch' = [k \in Links |-> batch[k] \ {c}]
  /\ wire' = wire \ {c}
  /\ ahead' = {p \in ahead : p[1] # c /\ p[2] # c}

\* The instance executes the first command on the wire.  A token past its end
\* is worth nothing.
InstanceTakes ==
  /\ \E c \in wire :
       /\ \A d \in wire : <<d, c>> \notin ahead
       /\ holds' = IF c[1] = "revoke" THEN holds \ {c[2]}
                   ELSE IF signed[c[2]] # "lapsed" THEN holds \cup {c[2]} ELSE holds
       /\ Over(c)
  /\ UNCHANGED <<termVars, serving, stage, grant, cuts, touched, together, astray>>

\* The oldest command has not been executed for 7 days (_CMD_TTL).
Expire ==
  /\ \E c \in unanswered :
       /\ \A d \in unanswered : <<d, c>> \notin older
       /\ astray' = astray \cup IF c[1] = "revoke" THEN {c[2]} ELSE {}
       /\ Over(c)
  /\ UNCHANGED <<termVars, serving, stage, holds, grant, cuts, touched, together>>

----------------------------------------------------------------------------
\* A run ends at one of its awaits: an error, or a restart.
Cut(g) ==
  /\ g \in Working /\ cuts < MaxCut
  /\ grant' = [grant EXCEPT ![g].pc = "cut"]
  /\ cuts' = cuts + 1
  /\ UNCHANGED <<termVars, unanswered, older, linkVars, wireVars, holds, touched, together,
                 astray>>

\* The clock: a token comes within the renewal threshold, expires, or expires
\* with the entitlement; or the entitlement ends without a token.
Ages(l) ==
  /\ \/ /\ signed[l] = "fresh"
        /\ signed' = [signed EXCEPT ![l] = "due"]
        /\ UNCHANGED <<holds, over>>
     \/ /\ signed[l] = "due"
        /\ signed' = [signed EXCEPT ![l] = "lapsed"]
        /\ holds' = holds \ {l}
        /\ over' = IF l \in last THEN over \cup {l} ELSE over
     \/ /\ signed[l] \in {"none", "lapsed"}
        /\ license[l] # "none" /\ l \in Termed \ over
        /\ over' = over \cup {l}
        /\ UNCHANGED <<signed, holds>>
  /\ UNCHANGED <<license, last, unanswered, older, linkVars, wireVars, grant, cuts, touched,
                 together, astray>>

LicensesNext ==
  \/ \E g \in Grants :
       \/ CreateReads(g) \/ InsertLicense(g) \/ SignToken(g)
       \/ RevokeLicenseReads(g) \/ RemoveLicenseReads(g) \/ CommitRevocation(g)
       \/ RenewReads(g) \/ RenewNext(g)
       \/ QueueCommand(g) \/ SendCommand(g) \/ Cut(g)
  \/ \E k \in Links : Connect(k) \/ ResendSelect(k) \/ ResendSend(k)
  \/ LoseLink \/ InstanceTakes \/ Expire
  \/ \E l \in Licenses : Ages(l)

LicensesSpec == LicensesInit /\ [][LicensesNext]_licenseVars

----------------------------------------------------------------------------
(* Properties. *)

\* The revocation of a license is over, and nothing about it is on its way.
Withdrawn(l) ==
  /\ license[l] = "revoked"
  /\ \A g \in Working : grant[g].cur # l /\ l \notin grant[g].todo
  /\ \A c \in unanswered : c[2] # l

\* A revoked license stays on the instance only when a run that issued its
\* token overlapped with the revocation, or was cut short (nothing but the row
\* selected at the start tells the renewal, licenses/service.py:84), or when
\* the dispatcher did not bring its commands in the order they were made: the
\* revocation went out on a connection that had yet to send what it held
\* (dispatcher.py:76), or the connection did not accept a token (dispatcher.py:63),
\* or the revocation expired before the instance was back (licenses/service.py:29).
HeldOnlyOverlapping ==
  \A l \in holds : Withdrawn(l) =>
    \/ l \in astray
    \/ \E g, h \in touched[l] :
         \/ g # h /\ {g, h} \in together
         \/ grant[g].pc = "cut"

\* Two active licenses for one feature come from creations that overlapped
\* (licenses/router.py:67).
OneActiveUnlessOverlapping ==
  \A l, m \in ActiveLic : l # m =>
    \E g \in touched[l], h \in touched[m] : {g, h} \in together

\* "Revoking stops the renewals" (licenses/service.py:7): no renewal makes a
\* command with a new token of a license after the command that revokes it.
RevokingStopsRenewals ==
  \A l \in Licenses, g, h \in Grants :
    <<<<"revoke", l, g>>, <<"install", l, h>>>> \in older => grant[h].kind # "renew"
=============================================================================
