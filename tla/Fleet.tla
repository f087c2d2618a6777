------------------------------- MODULE Fleet -------------------------------
(***************************************************************************)
(* Who may connect to what (server/src/devices.rs and grants.rs, through   *)
(* the handlers of server/src/api.rs): devices in device groups, users in  *)
(* user groups, grants between the two, the tokens that enroll devices,    *)
(* and the agents that enroll with them (agent/src/enroll.rs).             *)
(*                                                                         *)
(* Rows refer to each other by id, and SQLite gives a deleted last row's   *)
(* id again: every row and every reference also carries the serial number  *)
(* of the row that was meant, which the database does not have.  A handler *)
(* that checks a row and then writes a reference to it takes two steps;    *)
(* the schema's foreign keys are checked by the write.                     *)
(*                                                                         *)
(* Names, and the ids of devices and of tokens, are left out.              *)
(***************************************************************************)
EXTENDS Naturals, FiniteSets, FiniteSetsExt

CONSTANTS
    Machines,    \* agents that may enroll
    Managers,    \* administrators' requests under way at once
    Roles,       \* nearhand_core::grant::Role, lowest first, as numbers
    RowBound,    \* bound: rows of each table at once
    SerialBound, \* bound: rows ever inserted
    TokenUses    \* uses a token is made for

VARIABLES
    rows,       \* the tables "dgroup", "ugroup" and "user": id -> serial
    fleet,      \* the table `devices`, by the device's key
    etokens,    \* the table `enroll_tokens`
    members,    \* the table `user_group_members`
    rules,      \* the table `grants`
    chore,      \* administrators' requests under way
    serial,     \* rows inserted so far
    installed,  \* what each agent knows: its token waits, or an outcome
    fleetPast   \* what happened, for the properties

fleetVars == <<rows, fleet, etokens, members, rules, chore, serial, installed, fleetPast>>

ASSUME FleetAssumption == RowBound \in Nat /\ SerialBound \in Nat /\ TokenUses \in Nat

Tables == {"dgroup", "ugroup", "user"}
NoRef == [id |-> 0, meant |-> 0]
There(t, ref) == ref.id \in DOMAIN rows[t]
Meant(t, ref) == There(t, ref) /\ rows[t][ref.id] = ref.meant
RefTo(t, i) == [id |-> i, meant |-> rows[t][i]]
Refs(t) == {RefTo(t, i) : i \in DOMAIN rows[t]}
FreshRow(t) == IF DOMAIN rows[t] = {} THEN 1 ELSE Max(DOMAIN rows[t]) + 1

(* INSERT: a table with one row more; with DO UPDATE, another in its place. *)
With(table, key, row) ==
    [k \in DOMAIN table \cup {key} |-> IF k = key THEN row ELSE table[k]]

NoChore == [op |-> "none", dg |-> NoRef, ug |-> NoRef, user |-> NoRef, machine |-> "none"]

---------------------------------------------------------------------------
(* create_group, create_user_group, create_user: one INSERT. *)
CreateRow(t) ==
    /\ serial < SerialBound /\ Cardinality(DOMAIN rows[t]) < RowBound
    /\ serial' = serial + 1
    /\ rows' = [rows EXCEPT ![t] = With(@, FreshRow(t), serial + 1)]
    /\ UNCHANGED <<fleet, etokens, members, rules, chore, installed, fleetPast>>

(* A mutant: members and grants stay when a group goes. *)
Cascade_RulesStay(t, i) ==
    /\ fleet' = [k \in DOMAIN fleet |->
                    IF t = "dgroup" /\ fleet[k].id = i THEN NoRef ELSE fleet[k]]
    /\ etokens' = {e \in etokens : ~(t = "dgroup" /\ e.group.id = i)}
    /\ UNCHANGED <<members, rules>>

(* What a DELETE takes with it: ON DELETE SET NULL for a device's group,   *)
(* ON DELETE CASCADE for tokens, members and grants.                       *)
Cascade(t, i) ==
    /\ fleet' = [k \in DOMAIN fleet |->
                    IF t = "dgroup" /\ fleet[k].id = i THEN NoRef ELSE fleet[k]]
    /\ etokens' = {e \in etokens : ~(t = "dgroup" /\ e.group.id = i)}
    /\ members' = {m \in members : ~(t = "ugroup" /\ m.ug.id = i)
                                /\ ~(t = "user" /\ m.user.id = i)}
    /\ rules' = {r \in rules : ~(t = "ugroup" /\ r.ug.id = i)
                            /\ ~(t = "dgroup" /\ r.dg.id = i)}

(* delete_group, delete_user_group, delete_user *)
DeleteRow(t) ==
    /\ \E i \in DOMAIN rows[t] :
          /\ rows' = [rows EXCEPT ![t] = [j \in DOMAIN rows[t] \ {i} |-> rows[t][j]]]
          /\ Cascade(t, i)
    /\ UNCHANGED <<chore, serial, installed, fleetPast>>

---------------------------------------------------------------------------
(* Handlers that check the rows they are asked about ... *)

Checked(w, next) ==
    /\ chore[w].op = "none"
    /\ chore' = [chore EXCEPT ![w] = next]
    /\ UNCHANGED <<rows, fleet, etokens, members, rules, serial, installed, fleetPast>>

MoveCheck(w) == \E k \in DOMAIN fleet, g \in Refs("dgroup") :      \* update_device
    Checked(w, [NoChore EXCEPT !.op = "move", !.dg = g, !.machine = k])
TokenCheck(w) == \E g \in Refs("dgroup") :                         \* new_enroll_token
    /\ etokens = {} /\ \A v \in Managers : chore[v].op # "token"    \* bound: one token
    /\ Checked(w, [NoChore EXCEPT !.op = "token", !.dg = g])
MemberCheck(w) == \E g \in Refs("ugroup"), u \in Refs("user") :    \* add_member
    Checked(w, [NoChore EXCEPT !.op = "member", !.ug = g, !.user = u])
RuleCheck(w) == \E g \in Refs("ugroup"), d \in Refs("dgroup") :    \* set_grant
    Checked(w, [NoChore EXCEPT !.op = "rule", !.ug = g, !.dg = d])

(* ... and write what refers to them, unless a foreign key refuses. *)
Named(w) == {<<"dgroup", chore[w].dg>>, <<"ugroup", chore[w].ug>>, <<"user", chore[w].user>>}
KeysHold(w) == \A n \in Named(w) : n[2] = NoRef \/ There(n[1], n[2])
AsMeant(w) == \A n \in Named(w) : n[2] = NoRef \/ Meant(n[1], n[2])

Finish(w) ==
    /\ chore' = [chore EXCEPT ![w] = NoChore]
    /\ UNCHANGED <<rows, serial, installed>>
WroteAsMeant(w) == fleetPast' = [fleetPast EXCEPT !.raced = @ \/ ~AsMeant(w)]

WriteRefused(w) ==
    /\ chore[w].op # "none" /\ ~KeysHold(w)
    /\ Finish(w)
    /\ UNCHANGED <<fleet, etokens, members, rules, fleetPast>>

MoveWrite(w) ==
    /\ chore[w].op = "move" /\ KeysHold(w)
    /\ fleet' = [k \in DOMAIN fleet |-> IF k = chore[w].machine THEN chore[w].dg ELSE fleet[k]]
    /\ WroteAsMeant(w) /\ Finish(w)
    /\ UNCHANGED <<etokens, members, rules>>

(* A token for TokenUses devices; the group is optional. *)
NewToken(group) == [group |-> group, left |-> TokenUses, used |-> 0, expired |-> FALSE]
TokenWrite(w) ==
    /\ chore[w].op = "token" /\ KeysHold(w)
    /\ etokens' = {NewToken(chore[w].dg)}
    /\ WroteAsMeant(w) /\ Finish(w)
    /\ UNCHANGED <<fleet, members, rules>>

MemberWrite(w) ==
    /\ chore[w].op = "member" /\ KeysHold(w)
    /\ members' = IF \E m \in members : m.ug.id = chore[w].ug.id /\ m.user.id = chore[w].user.id
                  THEN members
                  ELSE members \cup {[ug |-> chore[w].ug, user |-> chore[w].user]}
    /\ WroteAsMeant(w) /\ Finish(w)
    /\ UNCHANGED <<fleet, etokens, rules>>

(* INSERT ... ON CONFLICT DO UPDATE SET role *)
RuleWrite(w) ==
    /\ chore[w].op = "rule" /\ KeysHold(w)
    /\ \E role \in Roles :
          LET same == {r \in rules : r.ug.id = chore[w].ug.id /\ r.dg.id = chore[w].dg.id}
          IN rules' = IF same = {}
                      THEN rules \cup {[ug |-> chore[w].ug, dg |-> chore[w].dg, role |-> role]}
                      ELSE (rules \ same) \cup {[r EXCEPT !.role = role] : r \in same}
    /\ WroteAsMeant(w) /\ Finish(w)
    /\ UNCHANGED <<fleet, etokens, members>>

(* One-statement handlers: a token without a group, a device taken out of  *)
(* its group, and what the other deletions leave.                          *)
FreeToken ==
    /\ etokens = {} /\ \A v \in Managers : chore[v].op # "token"
    /\ etokens' = {NewToken(NoRef)}
    /\ UNCHANGED <<rows, fleet, members, rules, chore, serial, installed, fleetPast>>
TakeOut(k) ==
    /\ k \in DOMAIN fleet
    /\ fleet' = [fleet EXCEPT ![k] = NoRef]
    /\ UNCHANGED <<rows, etokens, members, rules, chore, serial, installed, fleetPast>>
WithoutMember(m) == members \ {m}
WithoutRule(r) == rules \ {r}
WithoutToken(e) == etokens \ {e}
WithoutMachine(k) == [j \in DOMAIN fleet \ {k} |-> fleet[j]]
RemoveMember ==
    /\ \E m \in members : members' = WithoutMember(m)
    /\ UNCHANGED <<rows, fleet, etokens, rules, chore, serial, installed, fleetPast>>
DeleteRule ==
    /\ \E r \in rules : rules' = WithoutRule(r)
    /\ UNCHANGED <<rows, fleet, etokens, members, chore, serial, installed, fleetPast>>
DeleteToken ==
    /\ \E e \in etokens : etokens' = WithoutToken(e)
    /\ UNCHANGED <<rows, fleet, members, rules, chore, serial, installed, fleetPast>>
ForgetMachine(k) ==
    /\ k \in DOMAIN fleet
    /\ fleet' = WithoutMachine(k)
    /\ fleetPast' = [fleetPast EXCEPT !.forgotten = @ \cup {k}]
    /\ UNCHANGED <<rows, etokens, members, rules, chore, serial, installed>>

(* The handlers of several steps, and those of the groups. *)
CreateGroup == CreateRow("dgroup")
CreateUserGroup == CreateRow("ugroup")
DeleteGroup == DeleteRow("dgroup")
DeleteUserGroup == DeleteRow("ugroup")
UpdateDevice(w) == MoveCheck(w) \/ MoveWrite(w)
NewEnrollToken(w) == TokenCheck(w) \/ TokenWrite(w)
AddMember(w) == MemberCheck(w) \/ MemberWrite(w)
SetGrant(w) == RuleCheck(w) \/ RuleWrite(w)

(* A token's time passes; listing deletes what no longer enrolls. *)
TokenExpires ==
    /\ \E e \in etokens : ~e.expired /\ etokens' = {[e EXCEPT !.expired = TRUE]}
    /\ UNCHANGED <<rows, fleet, members, rules, chore, serial, installed, fleetPast>>
ListTokens ==
    /\ \E e \in etokens : e.expired \/ e.left = 0
    /\ etokens' = {e \in etokens : ~e.expired /\ e.left # 0}
    /\ UNCHANGED <<rows, fleet, members, rules, chore, serial, installed, fleetPast>>

---------------------------------------------------------------------------
(* An agent is installed with the token (setup), and asks until the server *)
(* answers (when_possible).  Devices::enroll is one transaction that       *)
(* begins with a write, so it runs alone.  The answer may be lost: the     *)
(* agent then asks again, and the server counts another use.               *)
Install(k) ==
    /\ etokens # {} /\ installed[k] \in {"none", "enrolled", "refused"}
    /\ installed' = [installed EXCEPT ![k] = "waiting"]
    /\ fleetPast' = [fleetPast EXCEPT !.untold = IF k \in DOMAIN fleet THEN @ \cup {k} ELSE @ \ {k}]
    /\ UNCHANGED <<rows, fleet, etokens, members, rules, chore, serial>>

Good(e) == ~e.expired /\ e.left > 0

Enrolled(k, e) ==
    LET old == IF k \in DOMAIN fleet THEN fleet[k] ELSE NoRef
        group == IF e.group # NoRef THEN e.group ELSE old
    IN fleet' = With(fleet, k, group)

EnrollMachine(k, answered) ==
    /\ installed[k] = "waiting"
    /\ \E e \in etokens :
          /\ Good(e)
          /\ etokens' = {[e EXCEPT !.left = @ - 1, !.used = @ + 1]}
          /\ Enrolled(k, e)
    /\ installed' = [installed EXCEPT ![k] = IF answered THEN "enrolled" ELSE @]
    /\ fleetPast' = [fleetPast EXCEPT !.untold = IF answered THEN @ ELSE @ \cup {k}]
    /\ UNCHANGED <<rows, members, rules, chore, serial>>

EnrollRefused(k, answered) ==
    /\ installed[k] = "waiting"
    /\ ~\E e \in etokens : Good(e)
    /\ installed' = [installed EXCEPT ![k] = IF answered THEN "refused" ELSE @]
    /\ UNCHANGED <<rows, fleet, etokens, members, rules, chore, serial, fleetPast>>

---------------------------------------------------------------------------
(* Grants::reachable: the roles the grants give `user` on the device, of   *)
(* which the highest counts; issue signs it.                               *)
RolesOn(user, k) ==
    {r.role : r \in {r \in rules : \E m \in members :
                        /\ m.user.id = user /\ m.ug.id = r.ug.id
                        /\ k \in DOMAIN fleet /\ fleet[k].id = r.dg.id}}
RoleOn(user, k) == IF RolesOn(user, k) = {} THEN 0 ELSE Max(RolesOn(user, k))

FleetInit ==
    /\ rows = [t \in Tables |-> << >>] /\ fleet = << >>
    /\ etokens = {} /\ members = {} /\ rules = {}
    /\ chore = [w \in Managers |-> NoChore] /\ serial = 0
    /\ installed = [k \in Machines |-> "none"]
    /\ fleetPast = [raced |-> FALSE, untold |-> {}, forgotten |-> {}]

FleetNext ==
    \/ CreateGroup \/ CreateUserGroup \/ CreateRow("user")
    \/ DeleteGroup \/ DeleteUserGroup \/ DeleteRow("user")
    \/ \E w \in Managers : \/ UpdateDevice(w) \/ NewEnrollToken(w) \/ AddMember(w)
                           \/ SetGrant(w) \/ WriteRefused(w)
    \/ FreeToken \/ RemoveMember \/ DeleteRule \/ DeleteToken \/ TokenExpires \/ ListTokens
    \/ \E k \in Machines : \/ ForgetMachine(k) \/ TakeOut(k) \/ Install(k)
                           \/ \E answered \in BOOLEAN : \/ EnrollMachine(k, answered)
                                                        \/ EnrollRefused(k, answered)

FleetSpec == FleetInit /\ [][FleetNext]_fleetVars

---------------------------------------------------------------------------
(* The schema's references hold: no row refers to one that is gone. *)
FleetTypeOK ==
    /\ \A k \in DOMAIN fleet : fleet[k] = NoRef \/ There("dgroup", fleet[k])
    /\ \A e \in etokens : /\ e.group = NoRef \/ There("dgroup", e.group)
                          /\ e.left \in 0..TokenUses
    /\ \A m \in members : There("ugroup", m.ug) /\ There("user", m.user)
    /\ \A r \in rules : There("ugroup", r.ug) /\ There("dgroup", r.dg) /\ r.role \in Roles
    /\ DOMAIN fleet \subseteq Machines /\ serial \in 0..SerialBound

(* Access is not inherited: when a deleted group's or user's id is given   *)
(* again, nothing that referred to the old one - a device's group, a       *)
(* token, a membership, a grant - gives the new one anything, as long as   *)
(* no handler wrote a reference to a row replaced since it was checked.    *)
NoInheritedAccess ==
    ~fleetPast.raced =>
        /\ \A k \in DOMAIN fleet : fleet[k] = NoRef \/ Meant("dgroup", fleet[k])
        /\ \A e \in etokens : e.group = NoRef \/ Meant("dgroup", e.group)
        /\ \A m \in members : Meant("ugroup", m.ug) /\ Meant("user", m.user)
        /\ \A r \in rules : Meant("ugroup", r.ug) /\ Meant("dgroup", r.dg)

(* A new row starts with nothing, also where a handler raced: no device is *)
(* in a new group and no user reaches a device the moment a row is made.   *)
NewRowsReachNothing ==
    [][\A t \in Tables : CreateRow(t) =>
         \A k \in Machines, u \in DOMAIN rows'["user"] :
            RoleOn(u, k)' = (IF u \in DOMAIN rows["user"] THEN RoleOn(u, k) ELSE 0)]_fleetVars

(* A token made for some devices enrolls no more than those, whatever      *)
(* agents ask at once or again because an answer was lost.                 *)
TokenUsedUp == \A e \in etokens : e.used + e.left = TokenUses

(* What an agent is told is true: one told it is enrolled is a device      *)
(* until it is forgotten; one told it was refused is none, unless it was   *)
(* enrolled before or the answer that said so was lost.                    *)
ToldTruth ==
    \A k \in Machines :
        /\ installed[k] = "enrolled" => k \in DOMAIN fleet \cup fleetPast.forgotten
        /\ installed[k] = "refused" /\ k \in DOMAIN fleet => k \in fleetPast.untold

(* What enrollment, groups and grants promise between them, whatever is    *)
(* deleted and made again meanwhile (server/src/devices.rs, grants.rs).    *)
FleetSafe == FleetTypeOK /\ NoInheritedAccess /\ TokenUsedUp /\ ToldTruth

====
