------------------------ MODULE Administration_proofs ------------------------
(***************************************************************************)
(* What is proved of the console's side: the accounts, the secrets vault,  *)
(* the indicator feeds, the registry's imports, the backfills, the content *)
(* packs, the data models, the desk and the query language.  Each part has *)
(* its own specification and shares no state with the others.              *)
(***************************************************************************)
EXTENDS Accounts, SecretsVault, IndicatorFeeds, HistoryBackfill, RegistryImport, ContentPacks,
        DataModels, MCDesk, Loql, FiniteSetTheorems, SequenceTheorems, TLAPS

-----------------------------------------------------------------------------
(***************************************************************************)
(* Accounts.                                                               *)
(*                                                                         *)
(* AnAdminRemains is not inductive: a removal is decided in one step and   *)
(* written in another.  What carries it is the claim a request has made    *)
(* good in between: until a removal overlaps it, there is an administrator *)
(* other than the one it is about to take away.                            *)
(***************************************************************************)
RoleNames == {"viewer", "analyst", "admin"}
AccountRow == [name : UserNames, role : RoleNames, enabled : BOOLEAN]

PendingShapes ==
    {NoRequest}
        \cup [at : {"session"}, user : DOMAIN users]
        \cup [at : {"me", "write"}, change : Changes]
        \cup [at : {"others"}, change : Changes, me : BOOLEAN]
        \cup [at : {"insert"}, row : AccountRow]

AccountTyped ==
    /\ users \in Seq(AccountRow)
    /\ pending \in [Requests -> PendingShapes]
    /\ sessions \subseteq DOMAIN users
    /\ begun \in 0..MaxRequests
    /\ overlapped \in BOOLEAN

\* A request is about a user there is, and only removals are checked.
PendingIsAboutUsers ==
    \A r \in Requests :
        /\ pending[r].at \in {"me", "others", "write"} => pending[r].change.user \in DOMAIN users
        /\ pending[r].at \in {"me", "others"} => Removes(pending[r].change)
        /\ pending[r].at = "insert" => users # <<>>

\* What a removal knows: after the first statement that the user was no administrator,
\* after the second that another was.
Claims(r) ==
    \/ pending[r].at = "others" /\ ~pending[r].me
    \/ pending[r].at = "write" /\ Removes(pending[r].change)

ClaimsHold ==
    overlapped \/ \A r \in Requests : Claims(r) => OtherAdmins(pending[r].change.user) # {}

AccountInv ==
    AccountTyped /\ PendingIsAboutUsers /\ ClaimsHold /\ AnAdminRemains /\ NamesAreUnique

(* The roles of main.py's ladder.                                          *)
LEMMA RolesAreNamed == {Roles[i] : i \in DOMAIN Roles} = RoleNames
BY DEF Roles, RoleNames

(* A change that is not a removal leaves an enabled administrator enabled  *)
(* and an administrator (set_user_role, set_user_enabled).                 *)
LEMMA ApplyKeepsRows ==
    ASSUME NEW row \in AccountRow, NEW c \in Changes
    PROVE  /\ Apply(row, c) \in AccountRow
           /\ Apply(row, c).name = row.name
           /\ ~Removes(c) /\ EnabledAdmin(row) => EnabledAdmin(Apply(row, c))
BY DEF AccountRow, Changes, Apply, Removes, EnabledAdmin, RoleNames

(* AccountInv gives what the run checks.                                   *)
LEMMA AccountInvSuffices == AccountInv => AccountsAreSafe
<1> SUFFICES ASSUME AccountInv PROVE AccountsAreSafe
  OBVIOUS
<1>1. \A u \in DOMAIN users : users[u] \in AccountRow
  BY DEF AccountInv, AccountTyped
<1>2. \A u \in DOMAIN users : users[u].role \in RoleNames /\ users[u].enabled \in BOOLEAN
  BY <1>1 DEF AccountRow
<1> QED
  BY <1>2, RolesAreNamed DEF AccountInv, AccountTyped, AccountsAreSafe, AccountTypeOK

LEMMA AccountInvInit == AccountInit => AccountInv
<1> SUFFICES ASSUME AccountInit PROVE AccountInv
  OBVIOUS
<1>1. users \in Seq(AccountRow) /\ users = <<>> /\ DOMAIN users = {}
  BY DEF AccountInit
<1>2. \A r \in Requests : pending[r] = NoRequest /\ pending[r].at = "idle"
  BY DEF AccountInit, NoRequest
<1>3. AccountTyped
  <2>1. NoRequest \in PendingShapes
    BY DEF PendingShapes
  <2>2. sessions = {} /\ overlapped = FALSE /\ begun \in 0..MaxRequests
    BY AccountsAssumption DEF AccountInit, AccountsAssumption
  <2> QED
    BY <1>1, <2>1, <2>2 DEF AccountInit, AccountTyped
<1>4. PendingIsAboutUsers /\ ClaimsHold
  BY <1>2 DEF PendingIsAboutUsers, ClaimsHold, Claims
<1> QED
  BY <1>1, <1>3, <1>4 DEF AccountInv, AnAdminRemains, NamesAreUnique

(* A step that leaves the users alone, and of the requests moves r alone,  *)
(* keeps the invariant when what r then waits for is well formed and what  *)
(* it claims is so.                                                        *)
LEMMA AccountInvByRequest ==
    ASSUME AccountInv, NEW r \in Requests, NEW p \in PendingShapes,
           pending' = [pending EXCEPT ![r] = p], UNCHANGED <<users, overlapped>>,
           sessions' \subseteq DOMAIN users, begun' \in 0..MaxRequests,
           p.at \in {"me", "others", "write"} => p.change.user \in DOMAIN users,
           p.at \in {"me", "others"} => Removes(p.change),
           p.at = "insert" => users # <<>>,
           \/ p.at = "others" /\ ~p.me
           \/ p.at = "write" /\ Removes(p.change)
           => overlapped \/ OtherAdmins(p.change.user) # {}
    PROVE  AccountInv'
<1>1. AccountTyped'
  BY DEF AccountInv, AccountTyped, PendingShapes
<1>2. \A s \in Requests : pending'[s] = IF s = r THEN p ELSE pending[s]
  BY DEF AccountInv, AccountTyped
<1>3. PendingIsAboutUsers'
  BY <1>2 DEF AccountInv, PendingIsAboutUsers
<1>4. ClaimsHold'
  BY <1>2 DEF AccountInv, ClaimsHold, Claims, OtherAdmins
<1>5. AnAdminRemains' /\ NamesAreUnique'
  BY DEF AccountInv, AnAdminRemains, NamesAreUnique
<1> QED
  BY <1>1, <1>3, <1>4, <1>5 DEF AccountInv
LEMMA AccountInvStep == AccountInv /\ [AccountNext]_accountVars => AccountInv'
<1> SUFFICES ASSUME AccountInv, [AccountNext]_accountVars PROVE AccountInv'
  OBVIOUS
<1> USE AccountsAssumption DEF AccountsAssumption
<1>t. AccountTyped /\ PendingIsAboutUsers /\ ClaimsHold
  BY DEF AccountInv
<1>u. /\ users \in Seq(AccountRow) /\ DOMAIN users = 1..Len(users) /\ Len(users) \in Nat
      /\ \A u \in DOMAIN users : users[u] \in AccountRow
  BY <1>t DEF AccountTyped
<1>p. \A r \in Requests : pending[r] \in PendingShapes
  BY <1>t DEF AccountTyped
<1>n. NoRequest \in PendingShapes /\ NoRequest.at = "idle"
  BY DEF PendingShapes, NoRequest
<1>b. begun < MaxRequests => begun + 1 \in 0..MaxRequests
  BY <1>t DEF AccountTyped
<1>1. ASSUME NEW name \in UserNames, Bootstrap(name) PROVE AccountInv'
  <2> DEFINE row == UserRow(name, "admin")
  <2>1. row \in AccountRow /\ EnabledAdmin(row)
    BY DEF UserRow, AccountRow, RoleNames, EnabledAdmin
  <2>2. users' = <<row>> /\ users' \in Seq(AccountRow) /\ DOMAIN users = {} /\ DOMAIN users' = {1} /\ users'[1] = row
    BY <1>1, <2>1 DEF Bootstrap
  <2>3. UNCHANGED <<sessions, pending, begun, overlapped>>
    BY <1>1 DEF Bootstrap
  <2>4. \A r \in Requests : pending[r].at \notin {"me", "others", "write", "insert"}
    BY <1>1, <2>2, <1>t DEF PendingIsAboutUsers, Bootstrap
  <2>5. AccountTyped'
    BY <2>2, <2>3, <1>t DEF AccountTyped, PendingShapes
  <2>6. PendingIsAboutUsers' /\ ClaimsHold'
    BY <2>3, <2>4 DEF PendingIsAboutUsers, ClaimsHold, Claims
  <2>7. AnAdminRemains' /\ NamesAreUnique'
    BY <2>1, <2>2 DEF AnAdminRemains, NamesAreUnique
  <2> QED
    BY <2>5, <2>6, <2>7 DEF AccountInv
<1>2. ASSUME NEW r \in Requests, NEW u \in 1..MaxUsers, LoginRead(r, u) PROVE AccountInv'
  <2> DEFINE p == [at |-> "session", user |-> u]
  <2>1. p \in PendingShapes
    BY <1>2 DEF LoginRead, PendingShapes
  <2> QED
    BY <1>2, <2>1, <1>b, <1>t, AccountInvByRequest DEF LoginRead, Begin, Continue, AccountTyped
<1>3. ASSUME NEW u \in 1..MaxUsers, SessionEnds(u) PROVE AccountInv'
  <2>1. UNCHANGED <<users, pending, begun, overlapped>> /\ sessions' \subseteq sessions
    BY <1>3 DEF SessionEnds
  <2>2. AccountTyped'
    BY <2>1, <1>t DEF AccountTyped, PendingShapes
  <2> QED
    BY <2>1, <2>2 DEF AccountInv, PendingIsAboutUsers, ClaimsHold, Claims, OtherAdmins, AnAdminRemains,
                      NamesAreUnique
<1>4. ASSUME NEW r \in Requests, NEW u \in DOMAIN users, NEW c \in Changes, ChangeUser(r, u, c)
      PROVE  AccountInv'
  <2> DEFINE p == [at |-> IF Removes(c) THEN "me" ELSE "write", change |-> c]
  <2>1. p \in PendingShapes
    BY DEF PendingShapes
  <2>2. c.user \in DOMAIN users /\ Begin(r, p) /\ UNCHANGED <<users, sessions, overlapped>>
    BY <1>4 DEF ChangeUser
  <2>3. (p.at = "me" => Removes(c)) /\ (p.at = "write" => ~Removes(c)) /\ p.at \in {"me", "write"} /\ p.change = c
    OBVIOUS
  <2> HIDE DEF p
  <2> QED
    BY <2>1, <2>2, <2>3, <1>b, <1>t, AccountInvByRequest DEF Begin, Continue, AccountTyped
<1>5. ASSUME NEW r \in Requests, NEW u \in DOMAIN users, NEW name \in UserNames,
             NEW role \in {"viewer", "admin"}, CreateRead(r, u, name, role)
      PROVE  AccountInv'
  <2> DEFINE p == [at |-> "insert", row |-> UserRow(name, role)]
  <2>1. p \in PendingShapes /\ p.at = "insert"
    BY DEF PendingShapes, AccountRow, UserRow, RoleNames
  <2>2. Begin(r, p) /\ UNCHANGED <<users, sessions, overlapped>> /\ users # <<>>
    BY <1>5, <1>u DEF CreateRead
  <2> HIDE DEF p
  <2> QED
    BY <2>1, <2>2, <1>b, <1>t, AccountInvByRequest DEF Begin, Continue, AccountTyped
<1>6. ASSUME NEW r \in Requests, LoginGrant(r) PROVE AccountInv'
  <2>1. pending[r].user \in DOMAIN users
    BY <1>6, <1>p DEF LoginGrant, PendingShapes, NoRequest
  <2> QED
    BY <1>6, <2>1, <1>n, <1>t, AccountInvByRequest DEF LoginGrant, Continue, AccountTyped
<1>7. ASSUME NEW r \in Requests, CheckMe(r) PROVE AccountInv'
  <2> DEFINE c == pending[r].change
             p == [at |-> "others", change |-> c, me |-> EnabledAdmin(users[c.user])]
  <2>1. c \in Changes /\ c.user \in DOMAIN users /\ Removes(c)
    BY <1>7, <1>p, <1>t DEF CheckMe, PendingShapes, NoRequest, PendingIsAboutUsers
  <2>2. p \in PendingShapes
    BY <2>1, <1>u DEF PendingShapes, EnabledAdmin, AccountRow
  <2>3. ~EnabledAdmin(users[c.user]) => overlapped \/ OtherAdmins(c.user) # {}
    BY <2>1 DEF AccountInv, AnAdminRemains, OtherAdmins
  <2>4. pending' = [pending EXCEPT ![r] = p] /\ UNCHANGED <<users, sessions, begun, overlapped>>
    BY <1>7 DEF CheckMe, Continue
  <2>5. p.at = "others" /\ p.change = c /\ p.me = EnabledAdmin(users[c.user])
    OBVIOUS
  <2> HIDE DEF p
  <2> QED
    BY <2>1, <2>2, <2>3, <2>4, <2>5, <1>t, AccountInvByRequest DEF AccountTyped
<1>8. ASSUME NEW r \in Requests, CheckOthers(r) PROVE AccountInv'
  <2> DEFINE c == pending[r].change
             p == [at |-> "write", change |-> c]
  <2>1. c \in Changes /\ c.user \in DOMAIN users /\ Removes(c) /\ pending[r].me \in BOOLEAN
    BY <1>8, <1>p, <1>t DEF CheckOthers, PendingShapes, NoRequest, PendingIsAboutUsers
  <2>2. p \in PendingShapes /\ p.at = "write" /\ p.change = c
    BY <2>1 DEF PendingShapes
  <2>3. UNCHANGED <<users, sessions, begun, overlapped>>
    BY <1>8 DEF CheckOthers
  <2>4. CASE pending[r].me /\ OtherAdmins(c.user) = {}
    BY <1>8, <2>4, <2>3, <1>n, <1>t, AccountInvByRequest DEF CheckOthers, Continue, AccountTyped
  <2>5. CASE ~(pending[r].me /\ OtherAdmins(c.user) = {})
    <3>1. overlapped \/ OtherAdmins(c.user) # {}
      BY <1>8, <2>5, <2>1, <1>t DEF ClaimsHold, Claims, CheckOthers
    <3>2. pending' = [pending EXCEPT ![r] = p]
      BY <1>8, <2>5 DEF CheckOthers, Continue
    <3> HIDE DEF p
    <3> QED
      BY <3>1, <3>2, <2>1, <2>2, <2>3, <1>t, AccountInvByRequest DEF AccountTyped
  <2> QED
    BY <2>4, <2>5
<1>9. ASSUME NEW r \in Requests, WriteChange(r) PROVE AccountInv'
  <2> DEFINE c == pending[r].change
  <2>1. pending[r].at = "write" /\ c \in Changes /\ c.user \in DOMAIN users
    BY <1>9, <1>p, <1>t DEF WriteChange, PendingShapes, NoRequest, PendingIsAboutUsers
  <2>2. users' = [users EXCEPT ![c.user] = Apply(users[c.user], c)] /\ UNCHANGED <<sessions, begun>>
    BY <1>9, Zenon DEF WriteChange
  <2>3. pending' = [pending EXCEPT ![r] = NoRequest]
    BY <1>9 DEF WriteChange, Continue
  <2>4. overlapped' = (\/ overlapped
                       \/ Removes(c) /\ \E s \in Requests \ {r} : MidRemoval(s))
    BY <1>9, Zenon DEF WriteChange
  <2> HIDE DEF c
  <2>5. /\ DOMAIN users' = DOMAIN users /\ users' \in Seq(AccountRow)
        /\ \A u \in DOMAIN users : users'[u] = IF u = c.user THEN Apply(users[u], c) ELSE users[u]
        /\ \A u \in DOMAIN users : users'[u].name = users[u].name
    <3>1. Apply(users[c.user], c) \in AccountRow /\ Apply(users[c.user], c).name = users[c.user].name
      BY <2>1, <1>u, ApplyKeepsRows
    <3> QED
      BY <3>1, <2>1, <2>2, <1>u
  <2>6. \A s \in Requests : pending'[s] = IF s = r THEN NoRequest ELSE pending[s]
    BY <2>3, <1>t DEF AccountTyped
  <2>7. AccountTyped'
    <3>1. PendingShapes' = PendingShapes
      BY <2>5 DEF PendingShapes
    <3>2. pending' \in [Requests -> PendingShapes]
      BY <2>3, <1>n, <1>t DEF AccountTyped
    <3>3. overlapped' \in BOOLEAN
      BY <2>4, <1>t DEF AccountTyped
    <3> QED
      BY <3>1, <3>2, <3>3, <2>2, <2>5, <1>t DEF AccountTyped
  <2>8. PendingIsAboutUsers'
    <3>1. users # <<>> /\ users' # <<>>
      BY <2>1, <2>5, <1>u
    <3> QED
      BY <3>1, <2>5, <2>6, <1>n, <1>t DEF PendingIsAboutUsers
  <2>9. CASE Removes(c)
    <3>1. ASSUME ~overlapped' PROVE ~overlapped /\ \A s \in Requests : s # r => ~MidRemoval(s)
      <4>1. ~(overlapped \/ \E s \in Requests \ {r} : MidRemoval(s))
        BY <3>1, <2>4, <2>9, Zenon
      <4> QED
        BY <4>1
    <3>2. \A s \in Requests : s # r /\ Claims(s) => MidRemoval(s)
      BY <1>t DEF Claims, MidRemoval, PendingIsAboutUsers
    <3>3. ClaimsHold'
      BY <3>1, <3>2, <2>6, <1>n DEF ClaimsHold, Claims
    <3>4. ASSUME ~overlapped' PROVE \E u \in DOMAIN users' : EnabledAdmin(users'[u])
      <4>1. OtherAdmins(c.user) # {}
        BY <3>4, <3>1, <2>1, <2>9, <1>t DEF ClaimsHold, Claims, c
      <4> QED
        BY <4>1, <2>5 DEF OtherAdmins
    <3> QED
      BY <3>3, <3>4, <2>7, <2>8, <2>5 DEF AccountInv, AnAdminRemains, NamesAreUnique
  <2>10. CASE ~Removes(c)
    <3>1. \A u \in DOMAIN users : EnabledAdmin(users[u]) => EnabledAdmin(users'[u])
      BY <2>10, <2>1, <2>5, <1>u, ApplyKeepsRows
    <3>2. overlapped' = overlapped
      <4>1. overlapped' <=> overlapped
        BY <2>4, <2>10, Zenon
      <4>2. overlapped' \in BOOLEAN
        BY <2>7 DEF AccountTyped
      <4> QED
        BY <4>1, <4>2, <1>t DEF AccountTyped
    <3>3. ASSUME NEW u PROVE OtherAdmins(u) \subseteq OtherAdmins(u)'
      BY <3>1, <2>5 DEF OtherAdmins
    <3>4. ClaimsHold'
      BY <3>2, <3>3, <2>6, <1>n, <1>t DEF ClaimsHold, Claims
    <3>5. AnAdminRemains' /\ NamesAreUnique'
      BY <3>1, <3>2, <2>1, <2>5 DEF AccountInv, AnAdminRemains, NamesAreUnique
    <3> QED
      BY <3>4, <3>5, <2>7, <2>8 DEF AccountInv
  <2> QED
    BY <2>9, <2>10
<1>10. ASSUME NEW r \in Requests, CreateInsert(r) PROVE AccountInv'
  <2> DEFINE row == pending[r].row
  <2>1. pending[r].at = "insert" /\ row \in AccountRow /\ users # <<>>
    BY <1>10, <1>p, <1>t DEF CreateInsert, PendingShapes, NoRequest, PendingIsAboutUsers
  <2>2. pending' = [pending EXCEPT ![r] = NoRequest] /\ UNCHANGED <<sessions, begun, overlapped>>
    BY <1>10 DEF CreateInsert, Continue
  <2>3. CASE ~Insertable(row)
    BY <1>10, <2>2, <2>3, <1>n, <1>t, AccountInvByRequest DEF CreateInsert, AccountTyped
  <2>4. CASE Insertable(row)
    <3> HIDE DEF row
    <3>1. users' = Append(users, row)
      BY <1>10, <2>4 DEF CreateInsert, row
    <3>2. /\ users' \in Seq(AccountRow) /\ DOMAIN users' = DOMAIN users \cup {Len(users) + 1}
          /\ \A u \in DOMAIN users : users'[u] = users[u]
          /\ users'[Len(users) + 1] = row /\ Len(users) + 1 \notin DOMAIN users
          /\ users' # <<>>
      BY <3>1, <2>1, <1>u
    <3>3. \A s \in Requests : pending'[s] = IF s = r THEN NoRequest ELSE pending[s]
      BY <2>2, <1>t DEF AccountTyped
    <3>4. \A s \in Requests : pending'[s] \in PendingShapes'
      BY <3>2, <3>3, <1>n, <1>p DEF PendingShapes
    <3>5. AccountTyped'
      BY <3>2, <3>4, <2>2, <1>t DEF AccountTyped
    <3>6. PendingIsAboutUsers'
      BY <3>2, <3>3, <1>n, <1>t DEF PendingIsAboutUsers
    <3>7. ASSUME NEW u PROVE OtherAdmins(u) \subseteq OtherAdmins(u)'
      BY <3>2 DEF OtherAdmins
    <3>8. ClaimsHold'
      BY <3>3, <3>7, <2>2, <1>n, <1>t DEF ClaimsHold, Claims
    <3>9. AnAdminRemains'
      BY <3>2, <2>1, <2>2 DEF AccountInv, AnAdminRemains
    <3>10. NamesAreUnique'
      BY <3>2, <2>4 DEF AccountInv, NamesAreUnique, Insertable, NameTaken
    <3> QED
      BY <3>5, <3>6, <3>8, <3>9, <3>10 DEF AccountInv
  <2> QED
    BY <2>3, <2>4
<1>11. CASE UNCHANGED accountVars
  BY <1>11 DEF accountVars, AccountInv, AccountTyped, PendingShapes, PendingIsAboutUsers, ClaimsHold, Claims,
               OtherAdmins, AnAdminRemains, NamesAreUnique
<1> QED
  BY <1>1, <1>2, <1>3, <1>4, <1>5, <1>6, <1>7, <1>8, <1>9, <1>10, <1>11 DEF AccountNext, RequestStep

(* Whatever sequence of concurrent promotions, demotions, toggles, creations*)
(* and logins the requests make, an enabled administrator is left unless two*)
(* removals overlapped, and a name has one row (main.py's /admin/users,     *)
(* db.is_last_admin, db.create_user).                                       *)
THEOREM AccountsKeepAnAdmin == AccountSpec => []AccountsAreSafe
BY AccountInvInit, AccountInvStep, AccountInvSuffices, PTL DEF AccountSpec

-----------------------------------------------------------------------------
(***************************************************************************)
(* The secrets vault.                                                      *)
(*                                                                         *)
(* The row and the cache of a slot change in separate steps, and a rotation*)
(* writes what it read before.  The invariant says what is in flight: what *)
(* a get is about to cache is what the row holds, and what a rotation is   *)
(* about to write back is what it would find, but for the slots the        *)
(* histories name.                                                         *)
(***************************************************************************)
Values == EnvValue..MaxVaultWrites
SealedRows == [value : Values, key : Keys]

TaskShapes ==
    {Resting}
        \cup [at : {"fill"}, slot : Slots, value : Values]
        \cup [at : {"put"}, slot : Slots, row : SealedRows, import : BOOLEAN]
        \cup [at : {"drop"}, slots : SUBSET Slots]

\* A rotation holds a value for each row it read.
Rotation(t) ==
    /\ t = [at |-> "reseal", key |-> t.key, read |-> t.read, values |-> t.values]
    /\ t.key \in Keys /\ t.read \subseteq Slots /\ t.values \in [t.read -> Values]

VaultTyped ==
    /\ rows \in [Slots -> SealedRows] /\ DOMAIN cache = Slots
    /\ DOMAIN task = VaultWorkers
    /\ \A w \in VaultWorkers : task[w] \in TaskShapes \/ Rotation(task[w])
    /\ procKey \in Keys /\ rotated \in Keys
    /\ writes \in 0..MaxVaultWrites /\ DOMAIN latest = Slots
    /\ lateReads \subseteq Slots /\ strays \subseteq Slots /\ overtaken \subseteq Slots

FillsAreFresh ==
    \A w \in Mid("fill") : task[w].slot \notin lateReads => task[w].value = rows[task[w].slot].value

RotationsAreFresh ==
    \A w \in Mid("reseal") : \A s \in task[w].read \ overtaken :
        Held(s) => task[w].values[s] = rows[s].value

VaultInv ==
    /\ VaultTyped /\ FillsAreFresh /\ RotationsAreFresh
    /\ CacheIsFresh /\ SealedUnderOneKey /\ LatestValueKept

LEMMA VaultInvSuffices == VaultInv => VaultIsCoherent
BY DEF VaultInv, VaultTyped, VaultIsCoherent, VaultTypeOK, SealedRows, Values

LEMMA VaultInvInit == VaultInit => VaultInv
<1> SUFFICES ASSUME VaultInit PROVE VaultInv
  OBVIOUS
<1> USE VaultAssumption DEF VaultAssumption
<1>1. NoRow \in SealedRows /\ NoRow.value = NoValue
  BY DEF NoRow, SealedRows, Values, EnvValue, NoValue
<1>2. VaultTyped
  BY <1>1 DEF VaultInit, VaultTyped, TaskShapes
<1>3. \A w \in VaultWorkers : task[w].at = "idle"
  BY DEF VaultInit, Resting
<1> QED
  BY <1>1, <1>2, <1>3
     DEF VaultInit, VaultInv, FillsAreFresh, RotationsAreFresh, Mid, CacheIsFresh, SealedUnderOneKey,
         LatestValueKept, Held

(* What a step needs to know of a worker in the middle of something.       *)
LEMMA TasksAreTyped ==
    ASSUME VaultTyped, NEW w \in VaultWorkers
    PROVE  /\ task[w].at = "fill" => task[w].slot \in Slots /\ task[w].value \in Values
           /\ task[w].at = "put" => task[w].slot \in Slots /\ task[w].row \in SealedRows
           /\ task[w].at = "drop" => task[w].slots \in SUBSET Slots
           /\ task[w].at = "reseal" => Rotation(task[w])
BY DEF VaultTyped, TaskShapes, Resting, Rotation

(* A step that changes neither rows nor cache keeps the invariant when the *)
(* one task it changes is in order, and drops nothing but what it restored.*)
LEMMA VaultInvByTask ==
    ASSUME VaultInv, NEW w \in VaultWorkers, NEW t, t \in TaskShapes \/ Rotation(t),
           task' = [task EXCEPT ![w] = t], writes' \in 0..MaxVaultWrites,
           UNCHANGED <<rows, cache, procKey, rotated, latest, lateReads, strays, overtaken>>,
           task[w].at # "drop",
           t.at = "fill" => t.value = rows[t.slot].value,
           t.at = "reseal" => \A s \in t.read : t.values[s] = rows[s].value
    PROVE  VaultInv'
<1>1. \A v \in VaultWorkers : task'[v] = IF v = w THEN t ELSE task[v]
  BY DEF VaultInv, VaultTyped
<1>2. VaultTyped'
  BY <1>1 DEF VaultInv, VaultTyped
<1>3. FillsAreFresh' /\ RotationsAreFresh'
  BY <1>1 DEF VaultInv, FillsAreFresh, RotationsAreFresh, Mid, Held
<1>4. CacheIsFresh'
  <2>1. ASSUME NEW s \in Slots, NEW v \in Mid("drop"), s \in task[v].slots
        PROVE  v \in Mid("drop")' /\ s \in task'[v].slots
    BY <2>1, <1>1 DEF Mid
  <2> QED
    BY <2>1 DEF VaultInv, CacheIsFresh
<1> QED
  BY <1>2, <1>3, <1>4 DEF VaultInv, SealedUnderOneKey, LatestValueKept, Held

LEMMA VaultInvStep == VaultInv /\ [VaultNext]_vaultVars => VaultInv'
<1> SUFFICES ASSUME VaultInv, [VaultNext]_vaultVars PROVE VaultInv'
  OBVIOUS
<1> USE VaultAssumption DEF VaultAssumption
<1>t. VaultTyped /\ FillsAreFresh /\ RotationsAreFresh /\ CacheIsFresh /\ SealedUnderOneKey /\ LatestValueKept
  BY DEF VaultInv
<1>r. \A s \in Slots : rows[s] \in SealedRows /\ rows[s].value \in Values
  BY <1>t DEF VaultTyped, SealedRows
<1>n. Resting \in TaskShapes /\ Resting.at = "idle"
  BY DEF TaskShapes, Resting
<1>1. ASSUME NEW w \in VaultWorkers, NEW s \in Slots, GetRead(w, s) PROVE VaultInv'
  <2> DEFINE t == [at |-> "fill", slot |-> s, value |-> rows[s].value]
  <2>1. t \in TaskShapes
    BY <1>r DEF TaskShapes
  <2> QED
    BY <1>1, <2>1, <1>t, <1>n, VaultInvByTask DEF GetRead, Do, history, VaultTyped
<1>2. ASSUME NEW w \in VaultWorkers, GetFill(w) PROVE VaultInv'
  <2> DEFINE x == task[w].slot
  <2>1. x \in Slots /\ (x \notin lateReads => task[w].value = rows[x].value)
    BY <1>2, <1>t, TasksAreTyped DEF GetFill, FillsAreFresh, Mid
  <2>2. /\ UNCHANGED <<rows, procKey, rotated, latest, writes, lateReads, strays, overtaken>>
        /\ \A s \in Slots : cache'[s] = IF s = x THEN task[w].value ELSE cache[s]
        /\ DOMAIN cache' = Slots
    BY <1>2, <1>t DEF GetFill, VaultTyped, history
  <2>3. \A v \in VaultWorkers : task'[v] = IF v = w THEN Resting ELSE task[v]
    BY <1>2, <1>t DEF GetFill, Do, VaultTyped
  <2>4. VaultTyped'
    BY <1>2, <2>2, <2>3, <1>t, <1>n DEF VaultTyped, GetFill, Do
  <2>5. FillsAreFresh' /\ RotationsAreFresh'
    BY <2>2, <2>3, <1>n, <1>t DEF FillsAreFresh, RotationsAreFresh, Mid, Held
  <2>6. CacheIsFresh'
    <3>1. Mid("drop")' = Mid("drop") /\ \A v \in Mid("drop") : task'[v] = task[v]
      BY <1>2, <2>3, <1>n DEF Mid, GetFill
    <3> QED
      BY <3>1, <2>1, <2>2, <1>t DEF CacheIsFresh
  <2> QED
    BY <2>2, <2>4, <2>5, <2>6, <1>t DEF VaultInv, SealedUnderOneKey, LatestValueKept, Held
<1>3. ASSUME NEW w \in VaultWorkers, NEW s \in Slots, SetSeal(w, s) PROVE VaultInv'
  <2> DEFINE t == [at |-> "put", slot |-> s, row |-> [value |-> writes + 1, key |-> procKey], import |-> FALSE]
  <2>1. t \in TaskShapes /\ t.at = "put" /\ writes + 1 \in 0..MaxVaultWrites
    BY <1>3, <1>t DEF SetSeal, VaultTyped, TaskShapes, SealedRows, Values, EnvValue
  <2>2. /\ task[w].at = "idle" /\ task' = [task EXCEPT ![w] = t] /\ writes' = writes + 1
        /\ UNCHANGED <<rows, cache, procKey, rotated, latest, lateReads, strays, overtaken>>
    BY <1>3, <1>n DEF SetSeal, Do
  <2> HIDE DEF t
  <2> QED
    BY <2>1, <2>2, VaultInvByTask
<1>4. ASSUME NEW w \in VaultWorkers, NEW s \in Slots, ImportList(w, s) PROVE VaultInv'
  <2> DEFINE t == [at |-> "put", slot |-> s, row |-> [value |-> EnvValue, key |-> procKey], import |-> TRUE]
  <2>1. t \in TaskShapes /\ t.at = "put" /\ writes + 1 \in 0..MaxVaultWrites
    BY <1>4, <1>t DEF ImportList, VaultTyped, TaskShapes, SealedRows, Values, EnvValue
  <2>2. /\ task[w].at = "idle" /\ task' = [task EXCEPT ![w] = t] /\ writes' = writes + 1
        /\ UNCHANGED <<rows, cache, procKey, rotated, latest, lateReads, strays, overtaken>>
    BY <1>4, <1>n DEF ImportList, Do
  <2> HIDE DEF t
  <2> QED
    BY <2>1, <2>2, VaultInvByTask
<1>5. ASSUME NEW w \in VaultWorkers, PutSecret(w) PROVE VaultInv'
  <2> DEFINE x == task[w].slot
             row == task[w].row
  <2>1. task[w].at = "put" /\ x \in Slots /\ row \in SealedRows
    BY <1>5, <1>t, TasksAreTyped DEF PutSecret
  <2>2. /\ rows' = [rows EXCEPT ![x] = row] /\ latest' = [latest EXCEPT ![x] = row.value]
        /\ strays' = (IF row.key = rotated THEN strays \ {x} ELSE strays \cup {x})
        /\ lateReads' = lateReads \cup {s \in {x} : Filling(s)}
        /\ task' = [task EXCEPT ![w] = [at |-> "drop", slots |-> {x}]]
        /\ UNCHANGED <<cache, procKey, rotated, writes>>
    BY <1>5 DEF PutSecret, NoteLateRead, Do
  <2>3. /\ overtaken \subseteq overtaken' /\ overtaken' \subseteq overtaken \cup {x}
        /\ (\E v \in Mid("reseal") : x \in task[v].read) => x \in overtaken'
    BY <1>5 DEF PutSecret
  <2> HIDE DEF x, row
  <2>4. \A v \in VaultWorkers : task'[v] = IF v = w THEN [at |-> "drop", slots |-> {x}] ELSE task[v]
    BY <2>2, <1>t DEF VaultTyped
  <2>5. \A s \in Slots : /\ rows'[s] = IF s = x THEN row ELSE rows[s]
                         /\ latest'[s] = IF s = x THEN row.value ELSE latest[s]
    BY <2>2, <1>t DEF VaultTyped
  <2>6. VaultTyped'
    <3>1. [at |-> "drop", slots |-> {x}] \in TaskShapes
      BY <2>1 DEF TaskShapes
    <3> QED
      BY <3>1, <2>1, <2>2, <2>3, <2>4, <1>t DEF VaultTyped
  <2>7. FillsAreFresh'
    <3>1. ASSUME NEW v \in Mid("fill")', task'[v].slot \notin lateReads'
          PROVE  task'[v].value = rows'[task'[v].slot].value
      <4>1. v \in Mid("fill") /\ task'[v] = task[v]
        BY <3>1, <2>4 DEF Mid
      <4>2. task[v].slot # x /\ task[v].slot \notin lateReads
        BY <3>1, <4>1, <2>2 DEF Filling
      <4>3. task[v].slot \in Slots
        BY <4>1, <1>t, TasksAreTyped DEF Mid
      <4> QED
        BY <4>1, <4>2, <4>3, <2>5, <1>t DEF FillsAreFresh
    <3> QED
      BY <3>1 DEF FillsAreFresh
  <2>8. RotationsAreFresh'
    <3>1. ASSUME NEW v \in Mid("reseal")', NEW s \in task'[v].read \ overtaken', Held(s)'
          PROVE  task'[v].values[s] = rows'[s].value
      <4>1. v \in Mid("reseal") /\ task'[v] = task[v]
        BY <2>4 DEF Mid
      <4>2. s # x /\ s \notin overtaken /\ s \in Slots
        BY <4>1, <2>3, <1>t, TasksAreTyped DEF Mid, Rotation
      <4> QED
        BY <3>1, <4>1, <4>2, <2>5, <1>t DEF RotationsAreFresh, Held
    <3> QED
      BY <3>1 DEF RotationsAreFresh
  <2>9. CacheIsFresh'
    <3>1. w \in Mid("drop")' /\ x \in task'[w].slots
      BY <2>4 DEF Mid
    <3>2. \A v \in Mid("drop") : v \in Mid("drop")' /\ task'[v] = task[v]
      BY <2>1, <2>4 DEF Mid
    <3> QED
      BY <3>1, <3>2, <2>2, <2>5, <1>t DEF CacheIsFresh
  <2>10. SealedUnderOneKey' /\ LatestValueKept'
    BY <2>2, <2>3, <2>5, <1>t DEF SealedUnderOneKey, LatestValueKept, Held
  <2> QED
    BY <2>6, <2>7, <2>8, <2>9, <2>10 DEF VaultInv
<1>6. ASSUME NEW w \in VaultWorkers, NEW x \in Slots, DeleteRow(w, x) PROVE VaultInv'
  <2>1. /\ rows' = [rows EXCEPT ![x] = NoRow] /\ latest' = [latest EXCEPT ![x] = NoValue]
        /\ strays' = strays \ {x}
        /\ lateReads' = lateReads \cup {s \in {x} : Filling(s)}
        /\ task' = [task EXCEPT ![w] = [at |-> "drop", slots |-> {x}]]
        /\ writes' = writes + 1 /\ writes < MaxVaultWrites /\ task[w].at = "idle"
        /\ UNCHANGED <<cache, procKey, rotated, overtaken>>
    BY <1>6, <1>n DEF DeleteRow, NoteLateRead, Do
  <2>2. NoRow \in SealedRows /\ NoRow.value = NoValue
    BY DEF NoRow, SealedRows, Values, EnvValue, NoValue
  <2>4. \A v \in VaultWorkers : task'[v] = IF v = w THEN [at |-> "drop", slots |-> {x}] ELSE task[v]
    BY <2>1, <1>t DEF VaultTyped
  <2>5. \A s \in Slots : /\ rows'[s] = IF s = x THEN NoRow ELSE rows[s]
                         /\ latest'[s] = IF s = x THEN NoValue ELSE latest[s]
    BY <2>1, <1>t DEF VaultTyped
  <2>6. VaultTyped'
    <3>1. [at |-> "drop", slots |-> {x}] \in TaskShapes
      BY DEF TaskShapes
    <3> QED
      BY <3>1, <2>1, <2>2, <2>4, <1>t DEF VaultTyped
  <2>7. FillsAreFresh'
    <3>1. ASSUME NEW v \in Mid("fill")', task'[v].slot \notin lateReads'
          PROVE  task'[v].value = rows'[task'[v].slot].value
      <4>1. v \in Mid("fill") /\ task'[v] = task[v]
        BY <3>1, <2>4 DEF Mid
      <4>2. task[v].slot # x /\ task[v].slot \notin lateReads
        BY <3>1, <4>1, <2>1 DEF Filling
      <4>3. task[v].slot \in Slots
        BY <4>1, <1>t, TasksAreTyped DEF Mid
      <4> QED
        BY <4>1, <4>2, <4>3, <2>5, <1>t DEF FillsAreFresh
    <3> QED
      BY <3>1 DEF FillsAreFresh
  <2>8. RotationsAreFresh'
    <3>1. ASSUME NEW v \in Mid("reseal")', NEW s \in task'[v].read \ overtaken', Held(s)'
          PROVE  task'[v].values[s] = rows'[s].value
      <4>1. v \in Mid("reseal") /\ task'[v] = task[v]
        BY <2>4 DEF Mid
      <4>2. s \in Slots /\ s \notin overtaken
        BY <4>1, <2>1, <1>t, TasksAreTyped DEF Mid, Rotation
      <4>3. s # x /\ Held(s)
        BY <3>1, <4>2, <2>5 DEF Held, NoRow
      <4> QED
        BY <4>1, <4>2, <4>3, <2>5, <1>t DEF RotationsAreFresh
    <3> QED
      BY <3>1 DEF RotationsAreFresh
  <2>9. CacheIsFresh'
    <3>1. w \in Mid("drop")' /\ x \in task'[w].slots
      BY <2>4 DEF Mid
    <3>2. \A v \in Mid("drop") : v \in Mid("drop")' /\ task'[v] = task[v]
      BY <2>1, <2>4 DEF Mid
    <3> QED
      BY <3>1, <3>2, <2>1, <2>5, <1>t DEF CacheIsFresh
  <2>10. SealedUnderOneKey' /\ LatestValueKept'
    BY <2>1, <2>2, <2>5, <1>t DEF SealedUnderOneKey, LatestValueKept, Held, NoRow
  <2> QED
    BY <2>6, <2>7, <2>8, <2>9, <2>10 DEF VaultInv
<1>7. ASSUME NEW w \in VaultWorkers, Invalidate(w) PROVE VaultInv'
  <2>1. /\ \A s \in Slots : cache'[s] = IF s \in task[w].slots THEN NoValue ELSE cache[s]
        /\ DOMAIN cache' = Slots /\ task[w].at = "drop" /\ task' = [task EXCEPT ![w] = Resting]
        /\ UNCHANGED <<rows, procKey, rotated, latest, writes, lateReads, strays, overtaken>>
    BY <1>7 DEF Invalidate, Do, history
  <2>2. \A v \in VaultWorkers : task'[v] = IF v = w THEN Resting ELSE task[v]
    BY <2>1, <1>t DEF VaultTyped
  <2>3. VaultTyped'
    BY <2>1, <2>2, <1>t, <1>n DEF VaultTyped
  <2>4. FillsAreFresh' /\ RotationsAreFresh'
    BY <2>1, <2>2, <1>n, <1>t DEF FillsAreFresh, RotationsAreFresh, Mid, Held
  <2>5. CacheIsFresh'
    <3>1. \A v \in Mid("drop") \ {w} : v \in Mid("drop")' /\ task'[v] = task[v]
      BY <2>2 DEF Mid
    <3> QED
      BY <3>1, <2>1, <1>t DEF CacheIsFresh
  <2> QED
    BY <2>1, <2>3, <2>4, <2>5, <1>t DEF VaultInv, SealedUnderOneKey, LatestValueKept, Held
<1>8. ASSUME NEW w \in VaultWorkers, RotateWrite(w) PROVE VaultInv'
  <2> DEFINE t == task[w]
  <2>1. t.at = "reseal" /\ Rotation(t) /\ t.key \in Keys /\ t.read \subseteq Slots /\ t.values \in [t.read -> Values]
    BY <1>8, <1>t, TasksAreTyped DEF RotateWrite, Rotation
  <2>2. /\ rows' = [s \in Slots |-> Resealed(s, t)] /\ rotated' = t.key
        /\ strays' = {s \in Slots \ t.read : Held(s)}
        /\ lateReads' = lateReads \cup {s \in {s \in t.read : rows'[s].value # rows[s].value} : Filling(s)}
        /\ task' = [task EXCEPT ![w] = [at |-> "drop", slots |-> Slots]]
        /\ UNCHANGED <<cache, procKey, latest, writes, overtaken>>
    BY <1>8 DEF RotateWrite, NoteLateRead, Do
  <2> HIDE DEF t
  <2>3. \A s \in Slots : rows'[s] = IF s \in t.read /\ Held(s) THEN [value |-> t.values[s], key |-> t.key] ELSE rows[s]
    BY <2>2 DEF Resealed
  <2>4. \A v \in VaultWorkers : task'[v] = IF v = w THEN [at |-> "drop", slots |-> Slots] ELSE task[v]
    BY <2>2, <1>t DEF VaultTyped
  <2>5. \A s \in Slots \ overtaken : rows'[s].value = rows[s].value
    <3>1. \A s \in t.read \ overtaken : Held(s) => t.values[s] = rows[s].value
      BY <2>1, <1>t DEF RotationsAreFresh, Mid, t
    <3>2. ASSUME NEW s \in Slots \ overtaken PROVE rows'[s].value = rows[s].value
      <4>1. CASE s \in t.read /\ Held(s)
        <5>1. t.values[s] = rows[s].value
          BY <4>1, <3>1, <3>2
        <5>2. rows'[s] = [value |-> t.values[s], key |-> t.key]
          BY <4>1, <2>3
        <5> QED
          BY <5>1, <5>2
      <4>2. CASE ~(s \in t.read /\ Held(s))
        BY <4>2, <2>3
      <4> QED
        BY <4>1, <4>2
    <3> QED
      BY <3>2
  <2>6. VaultTyped'
    <3>1. [at |-> "drop", slots |-> Slots] \in TaskShapes
      BY DEF TaskShapes
    <3>2. \A s \in Slots : rows'[s] \in SealedRows
      <4>1. \A s \in t.read : [value |-> t.values[s], key |-> t.key] \in SealedRows
        BY <2>1 DEF SealedRows
      <4> QED
        BY <4>1, <2>3, <1>r
    <3>3. rows' \in [Slots -> SealedRows]
      BY <3>2, <2>2
    <3> QED
      BY <3>1, <3>3, <2>1, <2>2, <2>4, <1>t DEF VaultTyped
  <2>7. FillsAreFresh'
    <3>1. ASSUME NEW v \in Mid("fill")', task'[v].slot \notin lateReads'
          PROVE  task'[v].value = rows'[task'[v].slot].value
      <4>1. v \in Mid("fill") /\ task'[v] = task[v]
        BY <3>1, <2>4 DEF Mid
      <4>2. task[v].slot \in Slots
        BY <4>1, <1>t, TasksAreTyped DEF Mid
      <4>3. task[v].slot \notin lateReads /\ rows'[task[v].slot].value = rows[task[v].slot].value
        BY <3>1, <4>1, <4>2, <2>2, <2>3 DEF Filling
      <4> QED
        BY <4>1, <4>2, <4>3, <1>t DEF FillsAreFresh
    <3> QED
      BY <3>1 DEF FillsAreFresh
  <2>8. RotationsAreFresh'
    <3>1. ASSUME NEW v \in Mid("reseal")', NEW s \in task'[v].read \ overtaken', Held(s)'
          PROVE  task'[v].values[s] = rows'[s].value
      <4>1. v \in Mid("reseal") /\ task'[v] = task[v]
        BY <2>4 DEF Mid
      <4>2. s \in Slots /\ s \notin overtaken
        BY <4>1, <2>2, <1>t, TasksAreTyped DEF Mid, Rotation
      <4>3. Held(s)
        BY <3>1, <4>2, <2>3 DEF Held
      <4> QED
        BY <4>1, <4>2, <4>3, <2>5, <1>t DEF RotationsAreFresh
    <3> QED
      BY <3>1 DEF RotationsAreFresh
  <2>9. CacheIsFresh'
    BY <2>4 DEF CacheIsFresh, Mid
  <2>10. SealedUnderOneKey' /\ LatestValueKept'
    BY <2>2, <2>3, <2>5, <1>t DEF SealedUnderOneKey, LatestValueKept, Held
  <2> QED
    BY <2>6, <2>7, <2>8, <2>9, <2>10 DEF VaultInv
<1>9. ASSUME NEW w \in VaultWorkers, NEW new \in Keys, RotateRead(w, new) PROVE VaultInv'
  <2> DEFINE read == {s \in Slots : Held(s)}
             t == [at |-> "reseal", key |-> new, read |-> read, values |-> [s \in read |-> rows[s].value]]
  <2>1. Rotation(t) /\ t.at = "reseal" /\ \A s \in t.read : t.values[s] = rows[s].value
    BY <1>r DEF Rotation
  <2>2. /\ task[w].at = "idle" /\ task' = [task EXCEPT ![w] = t]
        /\ UNCHANGED <<rows, cache, procKey, rotated, latest, writes, lateReads, strays, overtaken>>
    BY <1>9, <1>n DEF RotateRead, Do, history
  <2>3. writes' \in 0..MaxVaultWrites
    BY <2>2, <1>t DEF VaultTyped
  <2> HIDE DEF t
  <2> QED
    BY <2>1, <2>2, <2>3, VaultInvByTask
<1>10. ASSUME NEW key \in Keys, Restart(key) PROVE VaultInv'
  <2>1. /\ UNCHANGED <<rows, rotated, latest, writes, lateReads, strays, overtaken>>
        /\ task' = [w \in VaultWorkers |-> Resting] /\ cache' = [s \in Slots |-> NoValue] /\ procKey' = key
    BY <1>10 DEF Restart, history
  <2>2. VaultTyped'
    BY <2>1, <1>t, <1>n DEF VaultTyped
  <2> QED
    BY <2>1, <2>2, <1>t, <1>n
       DEF VaultInv, FillsAreFresh, RotationsAreFresh, Mid, CacheIsFresh, SealedUnderOneKey, LatestValueKept, Held
<1>11. CASE UNCHANGED vaultVars
  BY <1>11, <1>t DEF vaultVars, VaultInv, VaultTyped, FillsAreFresh, RotationsAreFresh, Mid, CacheIsFresh,
                     SealedUnderOneKey, LatestValueKept, Held
<1> QED
  BY <1>1, <1>2, <1>3, <1>4, <1>5, <1>6, <1>7, <1>8, <1>9, <1>10, <1>11 DEF VaultNext

(* Across concurrent gets, sets, deletions, imports, rotations and restarts,*)
(* the cache answers with what a row holds, every row is under the key the  *)
(* last rotation reported, and what was put last is there, but for the slots*)
(* the histories name (vault/store.py, vault/resolve.py).                   *)
THEOREM VaultKeepsSecrets == VaultSpec => []VaultIsCoherent
BY VaultInvInit, VaultInvStep, VaultInvSuffices, PTL DEF VaultSpec

-----------------------------------------------------------------------------
(***************************************************************************)
(* The indicator feeds.                                                    *)
(*                                                                         *)
(* A sync that is alone goes through the feeds in order; the invariant says*)
(* where it stands: what one of the feeds already done lists belongs to one*)
(* of them, or to an operator.  That needs every feed to be named once:    *)
(* THREATINTEL_FEEDS is split and not made distinct, and a source named    *)
(* twice in one pass may drop in the second what it took from another feed *)
(* in the first.                                                           *)
(***************************************************************************)
FeedsAreDistinct == \A i, j \in DOMAIN FeedOrder : FeedOrder[i] = FeedOrder[j] => i = j

Listing == [up : BOOLEAN, list : SUBSET Indicators]

SyncShapes ==
    {Off}
        \cup [at : {"fetch"}, next : 1..(Len(FeedOrder) + 1), clean : BOOLEAN]
        \cup [at : {"replace"}, next : DOMAIN FeedOrder, list : SUBSET Indicators, clean : BOOLEAN]

FeedTyped ==
    /\ owner \in [Indicators -> Feeds \cup {Manual, Nobody}]
    /\ offered \in [Feeds -> Listing]
    /\ sync \in [Syncers -> SyncShapes]
    /\ syncs \in 0..MaxSyncs
    /\ applied \in [Feeds -> SUBSET Indicators]
    /\ clean \in BOOLEAN /\ byHand \subseteq Indicators

\* What a feed owns, it listed.
OwnersListed == \A x \in Indicators : owner[x] \in Feeds => x \in applied[owner[x]]

\* A sync that counts itself clean is alone, and after one that was nothing runs.
CleanIsAlone ==
    /\ \A s \in Syncers : sync[s] # Off /\ sync[s].clean => \A t \in Syncers \ {s} : sync[t] = Off
    /\ clean => \A s \in Syncers : sync[s] = Off

FeedsBefore(n) == {FeedOrder[i] : i \in {j \in DOMAIN FeedOrder : j < n}}

\* What the feeds done in this sync list is theirs.
DoneIsTheirs ==
    \A s \in Syncers : sync[s] # Off /\ sync[s].clean =>
        \A f \in FeedsBefore(sync[s].next) : \A x \in applied[f] :
            owner[x] \in FeedsBefore(sync[s].next) \cup {Manual}

FeedInv == FeedTyped /\ OwnersListed /\ HandAddedStays
SyncInv == CleanIsAlone /\ DoneIsTheirs /\ FeedsAreStored

LEMMA FeedNames ==
    /\ Manual \notin Feeds /\ Nobody \notin Feeds /\ Manual # Nobody
    /\ \A i \in DOMAIN FeedOrder : FeedOrder[i] \in Feeds
    /\ Len(FeedOrder) \in Nat /\ DOMAIN FeedOrder = 1..Len(FeedOrder)
    /\ MaxSyncs \in Nat
<1>1. FeedOrder \in Seq(Feeds) /\ {Manual, Nobody} \cap Feeds = {} /\ MaxSyncs \in Nat
  BY FeedsAssumption DEF FeedsAssumption
<1>2. Manual # Nobody
  BY DEF Manual, Nobody
<1> QED
  BY <1>1, <1>2

LEMMA FeedInvInit == FeedInit => FeedInv /\ SyncInv
<1> SUFFICES ASSUME FeedInit PROVE FeedInv /\ SyncInv
  OBVIOUS
<1>1. Off \in SyncShapes
  BY DEF SyncShapes
<1>2. FeedTyped
  <2>1. offered \in [Feeds -> Listing]
    BY DEF FeedInit, Listing
  <2> QED
    <3>1. sync \in [Syncers -> SyncShapes] /\ owner \in [Indicators -> Feeds \cup {Manual, Nobody}]
      BY <1>1 DEF FeedInit
    <3>2. applied \in [Feeds -> SUBSET Indicators] /\ clean \in BOOLEAN /\ byHand \subseteq Indicators
      BY DEF FeedInit
    <3>3. syncs \in 0..MaxSyncs
      BY FeedNames DEF FeedInit
    <3> QED
      BY <2>1, <3>1, <3>2, <3>3 DEF FeedTyped
<1> QED
  BY <1>2, FeedNames
     DEF FeedInit, FeedInv, SyncInv, OwnersListed, HandAddedStays, CleanIsAlone, DoneIsTheirs, FeedsAreStored

(* The parts of the invariant that hold whatever overlaps and whatever is  *)
(* named twice.                                                            *)
LEMMA FeedInvStep == FeedInv /\ [FeedNext]_feedVars => FeedInv'
<1> SUFFICES ASSUME FeedInv, [FeedNext]_feedVars PROVE FeedInv'
  OBVIOUS
<1> USE FeedNames
<1>t. FeedTyped /\ OwnersListed /\ HandAddedStays
  BY DEF FeedInv
<1>s. \A s \in Syncers : sync[s] \in SyncShapes
  BY <1>t DEF FeedTyped
<1>n. Off \in SyncShapes /\ NotClean \in [Syncers -> SyncShapes]
  <2>1. Off \in SyncShapes
    BY DEF SyncShapes
  <2>2. ASSUME NEW s \in Syncers, sync[s] # Off PROVE [sync[s] EXCEPT !.clean = FALSE] \in SyncShapes
    <3>1. CASE sync[s] \in [at : {"fetch"}, next : 1..(Len(FeedOrder) + 1), clean : BOOLEAN]
      BY <3>1 DEF SyncShapes
    <3>2. CASE sync[s] \in [at : {"replace"}, next : DOMAIN FeedOrder, list : SUBSET Indicators, clean : BOOLEAN]
      BY <3>2 DEF SyncShapes
    <3> QED
      BY <2>2, <3>1, <3>2, <1>s DEF SyncShapes
  <2> QED
    BY <2>1, <2>2 DEF NotClean
<1>1. ASSUME NEW f \in Feeds, FeedChanges(f) PROVE FeedInv'
  <2>1. /\ offered' \in [Feeds -> Listing]
        /\ UNCHANGED <<owner, sync, syncs, applied, clean, byHand>>
    <3>1. PICK now \in [up : {TRUE}, list : SUBSET Indicators] \cup {Unreachable} :
               offered' = [offered EXCEPT ![f] = now]
      BY <1>1 DEF FeedChanges
    <3>2. now \in Listing
      <4>1. Unreachable \in Listing
        BY DEF Listing, Unreachable
      <4>2. [up : {TRUE}, list : SUBSET Indicators] \subseteq Listing
        BY DEF Listing
      <4> QED
        BY <3>1, <4>1, <4>2
    <3>3. offered' \in [Feeds -> Listing]
      BY <3>1, <3>2, <1>t DEF FeedTyped
    <3>4. UNCHANGED <<owner, sync, syncs, applied, clean, byHand>>
      BY <1>1 DEF FeedChanges
    <3> QED
      BY <3>3, <3>4
  <2> QED
    BY <2>1, <1>t DEF FeedInv, FeedTyped, OwnersListed, HandAddedStays
<1>2. ASSUME NEW s \in Syncers, SyncBegins(s) PROVE FeedInv'
  <2> DEFINE b == [at |-> "fetch", next |-> 1, clean |-> \A t \in Syncers : sync[t] = Off]
  <2>1. b \in SyncShapes
    BY DEF SyncShapes
  <2>2. sync' = [NotClean EXCEPT ![s] = b]
    BY <1>2 DEF SyncBegins
  <2> HIDE DEF b
  <2>3. /\ sync' \in [Syncers -> SyncShapes] /\ syncs' \in 0..MaxSyncs /\ clean' = FALSE
        /\ UNCHANGED <<owner, offered, applied, byHand>>
    <3>1. sync' \in [Syncers -> SyncShapes]
      BY <2>1, <2>2, <1>n
    <3> QED
      BY <1>2, <3>1, <1>t DEF SyncBegins, FeedTyped
  <2> QED
    BY <2>3, <1>t DEF FeedInv, FeedTyped, OwnersListed, HandAddedStays
<1>3. ASSUME NEW s \in Syncers, Fetch(s) PROVE FeedInv'
  <2> DEFINE f == FeedOrder[sync[s].next]
             p == IF offered[f].up
                    THEN [at |-> "replace", next |-> sync[s].next, list |-> offered[f].list, clean |-> sync[s].clean]
                    ELSE [at |-> "fetch", next |-> sync[s].next + 1, clean |-> FALSE]
  <2>1. sync[s].next \in DOMAIN FeedOrder /\ sync[s].clean \in BOOLEAN /\ f \in Feeds
    BY <1>3, <1>s DEF Fetch, Running, SyncShapes, Off
  <2>2. offered[f].list \in SUBSET Indicators
    BY <2>1, <1>t DEF FeedTyped, Listing
  <2>3. p \in SyncShapes
    BY <2>1, <2>2 DEF SyncShapes
  <2>4. sync' = [sync EXCEPT ![s] = p] /\ UNCHANGED <<owner, offered, syncs, applied, clean, byHand>>
    BY <1>3 DEF Fetch
  <2> HIDE DEF p
  <2> QED
    BY <2>3, <2>4, <1>t DEF FeedInv, FeedTyped, OwnersListed, HandAddedStays
<1>4. ASSUME NEW s \in Syncers, ReplaceSource(s) PROVE FeedInv'
  <2> DEFINE f == FeedOrder[sync[s].next]
             list == sync[s].list
             p == [at |-> "fetch", next |-> sync[s].next + 1, clean |-> sync[s].clean]
  <2>1. f \in Feeds /\ list \in SUBSET Indicators /\ p \in SyncShapes
    BY <1>4, <1>s DEF ReplaceSource, SyncShapes, Off
  <2>2. /\ owner' = [x \in Indicators |-> Owned(x, f, list)] /\ applied' = [applied EXCEPT ![f] = list]
        /\ byHand' = byHand \ list /\ sync' = [sync EXCEPT ![s] = p] /\ UNCHANGED <<offered, syncs, clean>>
    BY <1>4 DEF ReplaceSource
  <2> HIDE DEF f, list, p
  <2>3. FeedTyped'
    BY <2>1, <2>2, <1>t DEF FeedTyped, Owned
  <2>4. OwnersListed' /\ HandAddedStays'
    <3>1. \A x \in Indicators : owner'[x] = IF x \in list THEN f ELSE IF owner[x] = f THEN Nobody ELSE owner[x]
      BY <2>2 DEF Owned
    <3>2. \A g \in Feeds : applied'[g] = IF g = f THEN list ELSE applied[g]
      BY <2>2, <1>t DEF FeedTyped
    <3>3. OwnersListed'
      BY <3>1, <3>2, <2>1, <1>t DEF OwnersListed
    <3>4. HandAddedStays'
      BY <3>1, <2>1, <2>2, <1>t DEF HandAddedStays, FeedTyped
    <3> QED
      BY <3>3, <3>4
  <2> QED
    BY <2>3, <2>4 DEF FeedInv
<1>5. ASSUME NEW s \in Syncers, SyncEnds(s) PROVE FeedInv'
  <2>1. sync' = [sync EXCEPT ![s] = Off] /\ UNCHANGED <<owner, offered, syncs, applied, byHand>>
    BY <1>5 DEF SyncEnds
  <2>2. clean' \in BOOLEAN
    <3>1. sync[s].clean \in BOOLEAN
      BY <1>5, <1>s DEF SyncEnds, SyncShapes, Off
    <3> QED
      BY <1>5, <3>1 DEF SyncEnds
  <2> QED
    BY <2>1, <2>2, <1>n, <1>t DEF FeedInv, FeedTyped, OwnersListed, HandAddedStays
<1>6. ASSUME NEW x \in Indicators, AddIndicator(x) PROVE FeedInv'
  BY <1>6, <1>t DEF AddIndicator, FeedInv, FeedTyped, OwnersListed, HandAddedStays
<1>7. ASSUME NEW x \in Indicators, DeleteIndicator(x) PROVE FeedInv'
  <2>1. /\ owner' = [owner EXCEPT ![x] = Nobody] /\ byHand' = byHand \ {x} /\ clean' = FALSE
        /\ sync' = NotClean /\ UNCHANGED <<offered, syncs, applied>>
    BY <1>7 DEF DeleteIndicator
  <2>2. FeedTyped'
    BY <2>1, <1>n, <1>t DEF FeedTyped
  <2> QED
    BY <2>1, <2>2, <1>t DEF FeedInv, FeedTyped, OwnersListed, HandAddedStays
<1>8. CASE UNCHANGED feedVars
  BY <1>8, <1>t DEF feedVars, FeedInv, FeedTyped, OwnersListed, HandAddedStays
<1> QED
  BY <1>1, <1>2, <1>3, <1>4, <1>5, <1>6, <1>7, <1>8 DEF FeedNext

(* With every feed named once, where a clean sync stands carries over.     *)
LEMMA SyncInvStep ==
    FeedsAreDistinct /\ FeedInv /\ SyncInv /\ [FeedNext]_feedVars => SyncInv'
<1> SUFFICES ASSUME FeedsAreDistinct, FeedInv, SyncInv, [FeedNext]_feedVars PROVE SyncInv'
  OBVIOUS
<1> USE FeedNames
<1>t. FeedTyped /\ OwnersListed /\ CleanIsAlone /\ DoneIsTheirs /\ FeedsAreStored
  BY DEF FeedInv, SyncInv
<1>s. \A s \in Syncers : sync[s] \in SyncShapes
  BY <1>t DEF FeedTyped
<1>c. \A s \in Syncers : /\ NotClean[s] = Off <=> sync[s] = Off
                         /\ sync[s] # Off => ~NotClean[s].clean
  <2>1. ASSUME NEW s \in Syncers, sync[s] # Off
        PROVE  [sync[s] EXCEPT !.clean = FALSE] # Off /\ ~[sync[s] EXCEPT !.clean = FALSE].clean
    <3>1. CASE sync[s] \in [at : {"fetch"}, next : 1..(Len(FeedOrder) + 1), clean : BOOLEAN]
      BY <3>1 DEF Off
    <3>2. CASE sync[s] \in [at : {"replace"}, next : DOMAIN FeedOrder, list : SUBSET Indicators, clean : BOOLEAN]
      BY <3>2 DEF Off
    <3> QED
      BY <2>1, <3>1, <3>2, <1>s DEF SyncShapes
  <2> QED
    BY <2>1 DEF NotClean
<1>1. ASSUME NEW f \in Feeds, FeedChanges(f) PROVE SyncInv'
  <2>1. UNCHANGED <<owner, sync, syncs, applied, clean, byHand>>
    BY <1>1 DEF FeedChanges
  <2> QED
    BY <2>1, <1>t DEF SyncInv, CleanIsAlone, DoneIsTheirs, FeedsAreStored
<1>2. ASSUME NEW s \in Syncers, SyncBegins(s) PROVE SyncInv'
  <2> DEFINE alone == \A t \in Syncers : sync[t] = Off
             b == [at |-> "fetch", next |-> 1, clean |-> alone]
  <2>1. sync' = [NotClean EXCEPT ![s] = b] /\ clean' = FALSE /\ UNCHANGED <<owner, applied>>
    BY <1>2 DEF SyncBegins
  <2>2. b.next = 1 /\ b # Off /\ (b.clean <=> alone)
    BY DEF Off
  <2> HIDE DEF b
  <2>3. \A t \in Syncers : sync'[t] = IF t = s THEN b ELSE NotClean[t]
    BY <2>1 DEF NotClean
  <2>4. \A t \in Syncers : sync'[t] # Off /\ sync'[t].clean => t = s /\ alone
    BY <2>2, <2>3, <1>c
  <2>5. CleanIsAlone'
    BY <2>1, <2>3, <2>4, <1>c DEF CleanIsAlone
  <2>6. FeedsBefore(1) = {}
    BY DEF FeedsBefore
  <2>7. DoneIsTheirs'
    BY <2>2, <2>3, <2>4, <2>6 DEF DoneIsTheirs, FeedsBefore
  <2> QED
    BY <2>1, <2>5, <2>7 DEF SyncInv, FeedsAreStored
<1>3. ASSUME NEW s \in Syncers, Fetch(s) PROVE SyncInv'
  <2>1. sync[s] # Off /\ sync[s].next \in DOMAIN FeedOrder
    BY <1>3 DEF Fetch, Running, Off
  <2>2. /\ UNCHANGED <<owner, applied, clean>>
        /\ \A t \in Syncers \ {s} : sync'[t] = sync[t]
        /\ sync'[s] # Off
        /\ sync'[s].clean => sync[s].clean /\ sync'[s].next = sync[s].next
    BY <1>3, <1>t DEF Fetch, FeedTyped, Off
  <2>3. CleanIsAlone'
    BY <2>1, <2>2, <1>t DEF CleanIsAlone
  <2>4. DoneIsTheirs'
    BY <2>1, <2>2, <1>t DEF DoneIsTheirs, FeedsBefore
  <2> QED
    BY <2>2, <2>3, <2>4, <1>t DEF SyncInv, FeedsAreStored
<1>4. ASSUME NEW s \in Syncers, ReplaceSource(s) PROVE SyncInv'
  <2> DEFINE n == sync[s].next
             f == FeedOrder[n]
             list == sync[s].list
             p == [at |-> "fetch", next |-> n + 1, clean |-> sync[s].clean]
  <2>1. sync[s] # Off /\ n \in DOMAIN FeedOrder /\ f \in Feeds /\ list \in SUBSET Indicators
    BY <1>4, <1>s DEF ReplaceSource, SyncShapes, Off
  <2>2. /\ \A x \in Indicators : owner'[x] = IF x \in list THEN f ELSE IF owner[x] = f THEN Nobody ELSE owner[x]
        /\ \A g \in Feeds : applied'[g] = IF g = f THEN list ELSE applied[g]
        /\ \A t \in Syncers : sync'[t] = IF t = s THEN p ELSE sync[t]
        /\ UNCHANGED clean
    BY <1>4, <1>t DEF ReplaceSource, FeedTyped, Owned
  <2>3. p # Off /\ p.next = n + 1 /\ p.clean = sync[s].clean
    BY DEF Off
  <2> HIDE DEF p
  <2>4. ~clean
    BY <2>1, <1>t DEF CleanIsAlone
  <2>5. CleanIsAlone'
    BY <2>1, <2>2, <2>3, <2>4, <1>t DEF CleanIsAlone
  <2>6. FeedsBefore(n + 1) = FeedsBefore(n) \cup {f} /\ f \notin FeedsBefore(n) /\ FeedsBefore(n) \subseteq Feeds
    BY <2>1 DEF FeedsBefore, FeedsAreDistinct
  <2>7. ASSUME sync[s].clean, NEW g \in FeedsBefore(n + 1), NEW x \in applied'[g]
        PROVE  owner'[x] \in FeedsBefore(n + 1) \cup {Manual}
    <3>1. x \in Indicators /\ g \in Feeds
      BY <2>1, <2>2, <2>6, <2>7, <1>t DEF FeedTyped
    <3>2. CASE x \in list
      BY <3>1, <3>2, <2>2, <2>6
    <3>3. CASE x \notin list
      <4>1. g \in FeedsBefore(n) /\ x \in applied[g]
        BY <3>1, <3>3, <2>2, <2>6, <2>7
      <4>2. owner[x] \in FeedsBefore(n) \cup {Manual}
        BY <4>1, <2>1, <2>7, <1>t DEF DoneIsTheirs
      <4> QED
        BY <3>1, <3>3, <4>2, <2>1, <2>2, <2>6
    <3> QED
      BY <3>2, <3>3
  <2>8. ASSUME NEW t \in Syncers, sync'[t] # Off, sync'[t].clean PROVE t = s /\ sync[s].clean
    BY <2>8, <2>1, <2>2, <2>3, <1>t DEF CleanIsAlone
  <2>9. DoneIsTheirs'
    BY <2>2, <2>3, <2>7, <2>8 DEF DoneIsTheirs, FeedsBefore
  <2> QED
    BY <2>2, <2>4, <2>5, <2>9 DEF SyncInv, FeedsAreStored
<1>5. ASSUME NEW s \in Syncers, SyncEnds(s) PROVE SyncInv'
  <2>1. /\ sync' = [sync EXCEPT ![s] = Off] /\ UNCHANGED <<owner, applied>>
        /\ sync[s] # Off /\ sync[s].next = Len(FeedOrder) + 1
        /\ clean' => sync[s].clean /\ \A t \in Syncers \ {s} : sync[t] = Off
    <3>1. clean' <=> sync[s].clean /\ \A t \in Syncers \ {s} : sync[t] = Off
      BY <1>5, Zenon DEF SyncEnds
    <3> QED
      BY <1>5, <3>1 DEF SyncEnds, Off
  <2>2. \A t \in Syncers : sync'[t] = IF t = s THEN Off ELSE sync[t]
    BY <2>1, <1>t DEF FeedTyped
  <2>3. CleanIsAlone' /\ DoneIsTheirs'
    BY <2>1, <2>2, <1>t DEF CleanIsAlone, DoneIsTheirs, FeedsBefore
  <2>4. FeedsBefore(Len(FeedOrder) + 1) = Feeds
    BY DEF FeedsBefore, Feeds
  <2>5. FeedsAreStored'
    <3>1. ASSUME clean', NEW x \in Indicators
          PROVE  owner[x] # Nobody <=> (\E f \in Feeds : x \in applied[f]) \/ owner[x] = Manual
      <4>1. ASSUME NEW f \in Feeds, x \in applied[f] PROVE owner[x] \in Feeds \cup {Manual}
        BY <3>1, <4>1, <2>1, <2>4, <1>t DEF DoneIsTheirs
      <4>2. owner[x] \in Feeds => x \in applied[owner[x]]
        BY <1>t DEF OwnersListed
      <4>3. owner[x] \in Feeds \cup {Manual, Nobody}
        BY <1>t DEF FeedTyped
      <4> QED
        BY <4>1, <4>2, <4>3
    <3> QED
      BY <3>1, <2>1 DEF FeedsAreStored
  <2> QED
    BY <2>3, <2>5 DEF SyncInv
<1>6. ASSUME NEW x \in Indicators, AddIndicator(x) PROVE SyncInv'
  <2>1. /\ \A y \in Indicators : owner'[y] = IF y = x THEN Manual ELSE owner[y]
        /\ UNCHANGED <<sync, applied, clean>>
    BY <1>6, <1>t DEF AddIndicator, FeedTyped
  <2>2. \A f \in Feeds : applied[f] \subseteq Indicators
    BY <1>t DEF FeedTyped
  <2>3. DoneIsTheirs'
    BY <2>1, <2>2, <1>t DEF DoneIsTheirs, FeedsBefore, Feeds
  <2> QED
    BY <2>1, <2>3, <1>t DEF SyncInv, CleanIsAlone, FeedsAreStored
<1>7. ASSUME NEW x \in Indicators, DeleteIndicator(x) PROVE SyncInv'
  <2>1. clean' = FALSE /\ sync' = NotClean
    BY <1>7 DEF DeleteIndicator
  <2>2. \A s \in Syncers : sync'[s] # Off => ~sync'[s].clean
    BY <2>1, <1>c
  <2> QED
    BY <2>1, <2>2 DEF SyncInv, CleanIsAlone, DoneIsTheirs, FeedsAreStored
<1>8. CASE UNCHANGED feedVars
  BY <1>8, <1>t DEF feedVars, SyncInv, CleanIsAlone, DoneIsTheirs, FeedsAreStored
<1> QED
  BY <1>1, <1>2, <1>3, <1>4, <1>5, <1>6, <1>7, <1>8 DEF FeedNext

(* A feed removes no indicator an operator added, until a feed lists it,   *)
(* however often a feed is named (replace_source_iocs).                    *)
THEOREM HandAddedStaysAdded == FeedSpec => [](FeedTypeOK /\ HandAddedStays)
<1>1. FeedInv => FeedTypeOK /\ HandAddedStays
  BY DEF FeedInv, FeedTyped, FeedTypeOK
<1> QED
  BY <1>1, FeedInvInit, FeedInvStep, PTL DEF FeedSpec

(* With every feed named once, a sync that was alone and reached every feed *)
(* stores exactly what the feeds list and what operators added              *)
(* (runtime.sync_feeds over replace_source_iocs and upsert_iocs).           *)
THEOREM FeedsStoreWhatTheyList == FeedsAreDistinct /\ FeedSpec => []FeedsKeepTheirs
<1> SUFFICES ASSUME FeedsAreDistinct PROVE FeedSpec => []FeedsKeepTheirs
  OBVIOUS
<1>1. FeedInit => FeedInv /\ SyncInv
  BY FeedInvInit
<1>2. FeedInv /\ SyncInv /\ [FeedNext]_feedVars => (FeedInv /\ SyncInv)'
  BY FeedInvStep, SyncInvStep
<1>3. FeedInv /\ SyncInv => FeedsKeepTheirs
  BY DEF FeedInv, FeedTyped, SyncInv, FeedsKeepTheirs, FeedTypeOK
<1> QED
  BY <1>1, <1>2, <1>3, PTL DEF FeedSpec

-----------------------------------------------------------------------------
(***************************************************************************)
(* The indexes the write path reads.                                       *)
(*                                                                         *)
(* Nothing says of a single step that an index is current.  The invariant  *)
(* says who will make it so: as long as no older half went over a newer one*)
(* and no reload failed, a half that is behind has somebody on the way who *)
(* has read, or will yet read, what the tables hold now.                   *)
(***************************************************************************)
Versions == 0..table

StepShapes ==
    {Out} \cup [at : {"reload"}]
        \cup [at : {"reading"}, first : Versions]
        \cup [at : {"publish"}, read : [Halves -> Versions], left : (SUBSET Halves) \ {{}}]

IndexTyped ==
    /\ IndexTypeOK
    /\ step \in [Reloaders -> StepShapes]
    /\ reordered \in BOOLEAN /\ failed \in BOOLEAN

WillPublish(w, h) ==
    \/ step[w].at = "reload"
    \/ step[w].at = "reading" /\ (h = 1 => step[w].first = table)
    \/ step[w].at = "publish" /\ h \in step[w].left /\ step[w].read[h] = table

SomebodyWillPublish ==
    ~reordered /\ ~failed =>
        \A h \in Halves : live[h] = table \/ \E w \in Reloaders : WillPublish(w, h)

\* The registry's lock, and what its holder has read is no older than what is live.
InLock(w) == step[w].at \in {"reading", "publish"}

LockKeepsOrder ==
    kind = "registry" =>
        /\ \A v, w \in Reloaders : InLock(v) /\ InLock(w) => v = w
        /\ \A w \in Reloaders :
              /\ step[w].at = "reading" => live[1] <= step[w].first
              /\ step[w].at = "publish" => \A h \in Halves : live[h] <= step[w].read[h]

IndexInv == IndexTyped /\ SomebodyWillPublish /\ LockKeepsOrder /\ RegistryKeepsOrder

LEMMA IndexFacts ==
    /\ Halves = {1, 2} /\ MaxVersion \in Nat /\ MaxReadFailures \in Nat /\ MaxReloadRestarts \in Nat
    /\ Editors \subseteq Reloaders /\ Refresher \in Reloaders
BY LiveIndexAssumption DEF LiveIndexAssumption, Halves, Reloaders

(* With nobody on the way, nothing is behind.                              *)
LEMMA IndexInvSuffices == IndexInv => IndexTypeOK /\ QuietIndexIsCurrent /\ RegistryKeepsOrder
<1> SUFFICES ASSUME IndexInv, \A w \in Reloaders : step[w] = Out, ~reordered, ~failed PROVE live = Current
  BY DEF IndexInv, IndexTyped, QuietIndexIsCurrent
<1>1. \A w \in Reloaders, h \in Halves : ~WillPublish(w, h)
  BY DEF WillPublish, Out
<1>2. \A h \in Halves : live[h] = table
  BY <1>1 DEF IndexInv, SomebodyWillPublish
<1> QED
  BY <1>2 DEF IndexInv, IndexTyped, IndexTypeOK, Current, Both

LEMMA IndexInvInit == IndexInit => IndexInv
<1> SUFFICES ASSUME IndexInit PROVE IndexInv
  OBVIOUS
<1>1. \A w \in Reloaders : step[w].at = "out"
  BY DEF IndexInit, Out
<1>2. IndexTyped
  <2>1. live \in [Halves -> -1..table] /\ table \in 0..MaxVersion
    BY IndexFacts DEF IndexInit, Both
  <2>2. step \in [Reloaders -> StepShapes]
    BY DEF IndexInit, StepShapes
  <2>3. /\ kind \in Kinds /\ reordered \in BOOLEAN /\ failed \in BOOLEAN
        /\ readFailures \in 0..MaxReadFailures /\ reloads \in 0..MaxReloadRestarts
    <3>1. readFailures = 0 /\ reloads = 0 /\ reordered = FALSE /\ failed = FALSE /\ kind \in Kinds
      BY DEF IndexInit
    <3>2. 0 \in 0..MaxReadFailures /\ 0 \in 0..MaxReloadRestarts
      BY IndexFacts
    <3> QED
      BY <3>1, <3>2
  <2> QED
    BY <2>1, <2>2, <2>3 DEF IndexTyped, IndexTypeOK
<1> QED
  BY <1>1, <1>2 DEF IndexInit, IndexInv, SomebodyWillPublish, LockKeepsOrder, InLock, RegistryKeepsOrder, Both

(* A step of one reloader that leaves the index and the tables alone.      *)
LEMMA IndexInvByStep ==
    ASSUME IndexInv, NEW w \in Reloaders, NEW p \in StepShapes, step' = [step EXCEPT ![w] = p],
           UNCHANGED <<kind, table, live, readFailures, reloads, reordered, failed>>,
           \A h \in Halves :
               WillPublish(w, h) => \/ p.at = "reload"
                                    \/ p.at = "reading" /\ (h = 1 => p.first = table)
                                    \/ p.at = "publish" /\ h \in p.left /\ p.read[h] = table,
           kind = "registry" =>
               /\ p.at \in {"reading", "publish"} => \A v \in Reloaders \ {w} : ~InLock(v)
               /\ p.at = "reading" => live[1] <= p.first
               /\ p.at = "publish" => \A h \in Halves : live[h] <= p.read[h]
    PROVE  IndexInv'
<1>1. \A v \in Reloaders : step'[v] = IF v = w THEN p ELSE step[v]
  BY DEF IndexInv, IndexTyped
<1>2. IndexTyped'
  BY DEF IndexInv, IndexTyped, IndexTypeOK, StepShapes, Versions
<1>3. SomebodyWillPublish'
  <2>1. \A v \in Reloaders, h \in Halves : WillPublish(v, h) => WillPublish(v, h)'
    BY <1>1 DEF WillPublish
  <2> QED
    BY <2>1 DEF IndexInv, SomebodyWillPublish
<1>4. LockKeepsOrder'
  BY <1>1 DEF IndexInv, LockKeepsOrder, InLock
<1> QED
  BY <1>2, <1>3, <1>4 DEF IndexInv, RegistryKeepsOrder

LEMMA IndexInvStep == IndexInv /\ [IndexNext]_indexVars => IndexInv'
<1> SUFFICES ASSUME IndexInv, [IndexNext]_indexVars PROVE IndexInv'
  OBVIOUS
<1> USE IndexFacts
<1>t. IndexTyped /\ IndexTypeOK /\ SomebodyWillPublish /\ LockKeepsOrder /\ RegistryKeepsOrder
  BY DEF IndexInv, IndexTyped
<1>s. \A w \in Reloaders : step[w] \in StepShapes
  BY <1>t DEF IndexTyped
<1>n. table \in Nat /\ Out \in StepShapes /\ Out.at = "out"
  BY <1>t DEF IndexTypeOK, StepShapes, Out
<1>1. ASSUME NEW w \in Editors, Edit(w) PROVE IndexInv'
  <2> DEFINE p == [at |-> "reload"]
  <2>1. /\ table' = table + 1 /\ table < MaxVersion /\ step' = [step EXCEPT ![w] = p]
        /\ UNCHANGED <<kind, live, readFailures, reloads, reordered, failed>>
    BY <1>1 DEF Edit, StepTo
  <2>2. \A v \in Reloaders : step'[v] = IF v = w THEN p ELSE step[v]
    BY <2>1, <1>t DEF IndexTyped
  <2>3. Versions \subseteq Versions'
    BY <2>1, <1>n DEF Versions
  <2>4. \A v \in Reloaders : step'[v] \in StepShapes'
    <3>1. p \in StepShapes'
      BY DEF StepShapes
    <3>2. ASSUME NEW v \in Reloaders PROVE step[v] \in StepShapes'
      <4>1. [Halves -> Versions] \subseteq [Halves -> Versions']
        BY <2>3
      <4> QED
        BY <4>1, <2>3, <1>s DEF StepShapes
    <3> QED
      BY <3>1, <3>2, <2>2
  <2>5. IndexTyped'
    BY <2>1, <2>4, <1>t, <1>n DEF IndexTyped, IndexTypeOK
  <2>6. SomebodyWillPublish'
    BY <2>2 DEF SomebodyWillPublish, WillPublish
  <2>7. LockKeepsOrder' /\ RegistryKeepsOrder'
    BY <2>1, <2>2, <1>t DEF LockKeepsOrder, InLock, RegistryKeepsOrder
  <2> QED
    BY <2>5, <2>6, <2>7 DEF IndexInv
<1>2. CASE Refresh
  <2> DEFINE p == [at |-> "reload"]
  <2>1. p \in StepShapes /\ p.at = "reload"
    BY DEF StepShapes
  <2> QED
    BY <1>2, <2>1, IndexInvByStep DEF Refresh, StepTo
<1>3. ASSUME NEW w \in Reloaders, ReadFirst(w) PROVE IndexInv'
  <2>1. /\ step[w].at = "reload" /\ MayReload(w)
        /\ UNCHANGED <<kind, table, live, readFailures, reloads, reordered, failed>>
    BY <1>3 DEF ReadFirst
  <2>2. kind = "registry" => \A v \in Reloaders \ {w} : ~InLock(v)
    BY <2>1 DEF MayReload, LockHeld, InLock
  <2>3. \A h \in Halves : live[h] <= table /\ Current[h] = table
    BY <1>t, <1>n DEF IndexTypeOK, Current, Both
  <2>4. CASE kind = "registry"
    <3> DEFINE p == [at |-> "reading", first |-> table]
    <3>1. p \in StepShapes
      BY <1>n DEF StepShapes, Versions
    <3>2. step' = [step EXCEPT ![w] = p]
      BY <1>3, <2>4 DEF ReadFirst, StepTo
    <3> QED
      BY <3>1, <3>2, <2>1, <2>2, <2>3, IndexInvByStep
  <2>5. CASE kind # "registry"
    <3> DEFINE p == [at |-> "publish", read |-> Current, left |-> Halves]
    <3>1. p \in StepShapes
      BY <1>n DEF StepShapes, Versions, Current, Both
    <3>2. step' = [step EXCEPT ![w] = p]
      BY <1>3, <2>5 DEF ReadFirst, StepTo
    <3> QED
      BY <3>1, <3>2, <2>1, <2>3, <2>5, IndexInvByStep
  <2> QED
    BY <2>4, <2>5
<1>4. ASSUME NEW w \in Reloaders, ReadSecond(w) PROVE IndexInv'
  <2> DEFINE read == [h \in Halves |-> IF h = 1 THEN step[w].first ELSE table]
             p == [at |-> "publish", left |-> Halves, read |-> read]
  <2>1. /\ step[w].at = "reading" /\ step' = [step EXCEPT ![w] = p]
        /\ UNCHANGED <<kind, table, live, readFailures, reloads, reordered, failed>>
    BY <1>4 DEF ReadSecond, StepTo
  <2>2. step[w].first \in Versions
    BY <2>1, <1>s DEF StepShapes, Out
  <2>3. p \in StepShapes
    BY <2>2, <1>n DEF StepShapes, Versions
  <2>4. \A h \in Halves : WillPublish(w, h) => read[h] = table
    BY <2>1 DEF WillPublish
  <2>5. kind = "registry" => (\A v \in Reloaders \ {w} : ~InLock(v)) /\ \A h \in Halves : live[h] <= read[h]
    BY <2>1, <1>t, <1>n DEF LockKeepsOrder, InLock, IndexTypeOK
  <2> QED
    BY <2>1, <2>3, <2>4, <2>5, IndexInvByStep
<1>5. ASSUME NEW w \in Reloaders, Publish(w) PROVE IndexInv'
  <2> DEFINE s == step[w]
             pub == Published(w)
             now == [h \in Halves |-> IF h \in pub THEN s.read[h] ELSE live[h]]
             p == IF s.left = pub THEN Out ELSE [s EXCEPT !.left = s.left \ pub]
  <2>1. /\ s.at = "publish" /\ s.read \in [Halves -> Versions] /\ s.left \in (SUBSET Halves) \ {{}}
        /\ s \in [at : {"publish"}, read : [Halves -> Versions], left : (SUBSET Halves) \ {{}}]
    BY <1>5, <1>s DEF Publish, StepShapes, Out
  <2>2. pub \subseteq s.left /\ (kind # "rules" => pub = s.left)
    <3>1. CASE kind = "rules"
      <4>1. \E h \in s.left : \A k \in s.left : h <= k
        BY <2>1
      <4> QED
        BY <3>1, <4>1 DEF Published
    <3> QED
      BY <3>1 DEF Published
  <2>3. /\ live' = now /\ step' = [step EXCEPT ![w] = p]
        /\ UNCHANGED <<kind, table, readFailures, reloads>>
    BY <1>5 DEF Publish, StepTo
  <2>4. /\ reordered' <=> now # Current /\ (reordered \/ \E h \in pub : s.read[h] < live[h])
        /\ failed' <=> failed /\ now # Current
        /\ reordered' \in BOOLEAN /\ failed' \in BOOLEAN
    <3>1. reordered' = (now # Current /\ (reordered \/ \E h \in pub : s.read[h] < live[h]))
      BY <1>5, Zenon DEF Publish
    <3>2. failed' = (failed /\ now # Current)
      BY <1>5, Zenon DEF Publish
    <3> QED
      BY <3>1, <3>2, Zenon
  <2>5. /\ p \in StepShapes
        /\ \/ p = Out
           \/ p.at = "publish" /\ p.read = s.read /\ p.left = s.left \ pub
        /\ p = Out <=> s.left = pub
    <3>1. CASE s.left = pub
      <4>1. p = Out
        BY <3>1
      <4> HIDE DEF p
      <4> QED
        BY <3>1, <4>1, <1>n
    <3>2. CASE s.left # pub
      <4>1. s.left \ pub \in (SUBSET Halves) \ {{}}
        BY <3>2, <2>1, <2>2
      <4>2. p = [s EXCEPT !.left = s.left \ pub]
        BY <3>2
      <4> HIDE DEF p
      <4>3. p.at = "publish" /\ p.read = s.read /\ p.left = s.left \ pub
            /\ p \in [at : {"publish"}, read : [Halves -> Versions], left : (SUBSET Halves) \ {{}}]
        BY <4>1, <4>2, <2>1
      <4> QED
        BY <4>3, <3>2, <1>n DEF StepShapes
    <3> QED
      BY <3>1, <3>2
  <2>6. \A h \in Halves : now[h] = IF h \in pub THEN s.read[h] ELSE live[h]
    OBVIOUS
  <2>7. now \in [Halves -> -1..table]
    BY <2>1, <1>t, <1>n DEF Versions, IndexTypeOK
  <2> HIDE DEF s, pub, now, p
  <2>8. \A v \in Reloaders : step'[v] = IF v = w THEN p ELSE step[v]
    BY <2>3, <1>t DEF IndexTyped
  <2>9. IndexTyped'
    <3>1. StepShapes' = StepShapes
      BY <2>3 DEF StepShapes, Versions
    <3> QED
      BY <3>1, <2>3, <2>4, <2>5, <2>7, <1>t DEF IndexTyped, IndexTypeOK
  <2>10. SomebodyWillPublish'
    <3> SUFFICES ASSUME ~reordered', ~failed', NEW h \in Halves, now[h] # table
                 PROVE  \E v \in Reloaders : WillPublish(v, h)'
      BY <2>3 DEF SomebodyWillPublish
    <3>1. now # Current
      BY DEF Current, Both
    <3>2. ~reordered /\ ~failed /\ \A k \in pub : ~(s.read[k] < live[k])
      BY <3>1, <2>4
    <3>3. live[h] # table
      <4>1. h \in pub => s.read[h] \in 0..table /\ live[h] \in -1..table
        BY <2>1, <1>t DEF IndexTypeOK, Versions
      <4> QED
        BY <4>1, <3>2, <2>6, <1>n
    <3>4. PICK v \in Reloaders : WillPublish(v, h)
      BY <3>2, <3>3, <1>t DEF SomebodyWillPublish
    <3>5. CASE v # w
      BY <3>4, <3>5, <2>3, <2>8 DEF WillPublish
    <3>6. CASE v = w
      <4>1. h \in s.left /\ s.read[h] = table
        BY <3>4, <3>6, <2>1 DEF WillPublish, s
      <4>2. h \notin pub
        BY <4>1, <2>6
      <4> QED
        BY <4>1, <4>2, <2>3, <2>5, <2>8 DEF WillPublish
    <3> QED
      BY <3>5, <3>6
  <2>11. LockKeepsOrder' /\ RegistryKeepsOrder'
    <3>1. CASE kind = "registry"
      <4>1. p = Out /\ \A h \in pub : live[h] <= s.read[h]
        BY <3>1, <2>1, <2>2, <2>5, <1>t DEF LockKeepsOrder, s
      <4>2. \A v \in Reloaders \ {w} : ~InLock(v)
        BY <3>1, <2>1, <1>t DEF LockKeepsOrder, InLock, s
      <4>3. ~reordered'
        <5>1. \A h \in pub : s.read[h] \in 0..table /\ live[h] \in -1..table
          BY <2>1, <2>2, <1>t DEF IndexTypeOK, Versions
        <5> QED
          BY <4>1, <5>1, <3>1, <2>4, <1>t, <1>n DEF RegistryKeepsOrder
      <4>4. \A v \in Reloaders : ~InLock(v)'
        BY <4>1, <4>2, <2>8, <1>n DEF InLock
      <4> QED
        BY <4>3, <4>4, <2>3 DEF LockKeepsOrder, RegistryKeepsOrder, InLock
    <3> QED
      BY <3>1, <2>3 DEF LockKeepsOrder, RegistryKeepsOrder
  <2> QED
    BY <2>9, <2>10, <2>11 DEF IndexInv
<1>6. ASSUME NEW w \in Reloaders, ReadFails(w) PROVE IndexInv'
  <2>1. /\ step[w].at = "reload" /\ failed' = TRUE /\ step' = [step EXCEPT ![w] = Out]
        /\ live' = (IF kind = "parsers" THEN NoIndex ELSE live)
        /\ readFailures' = readFailures + 1 /\ readFailures < MaxReadFailures
        /\ UNCHANGED <<kind, table, reloads, reordered>>
    BY <1>6 DEF ReadFails, StepTo
  <2>2. \A v \in Reloaders : step'[v] = IF v = w THEN Out ELSE step[v]
    BY <2>1, <1>t DEF IndexTyped
  <2>3. NoIndex \in [Halves -> -1..table]
    BY <1>n DEF NoIndex, Both
  <2>4. IndexTyped'
    <3>1. StepShapes' = StepShapes
      BY <2>1 DEF StepShapes, Versions
    <3> QED
      BY <3>1, <2>1, <2>3, <1>t, <1>n DEF IndexTyped, IndexTypeOK
  <2>5. SomebodyWillPublish' /\ LockKeepsOrder' /\ RegistryKeepsOrder'
    BY <2>1, <2>2, <1>n, <1>t DEF SomebodyWillPublish, LockKeepsOrder, InLock, RegistryKeepsOrder
  <2> QED
    BY <2>4, <2>5 DEF IndexInv
<1>7. CASE ReloadRestart
  <2>1. /\ live' = Current /\ step' = [w \in Reloaders |-> Out] /\ reordered' = FALSE /\ failed' = FALSE
        /\ reloads' = reloads + 1 /\ reloads < MaxReloadRestarts /\ UNCHANGED <<kind, table, readFailures>>
    BY <1>7 DEF ReloadRestart
  <2>2. Current \in [Halves -> -1..table] /\ \A h \in Halves : Current[h] = table
    BY <1>n DEF Current, Both
  <2>3. IndexTyped'
    <3>1. StepShapes' = StepShapes
      BY <2>1 DEF StepShapes, Versions
    <3>2. step' \in [Reloaders -> StepShapes]
      BY <2>1, <1>n
    <3>3. reloads' \in 0..MaxReloadRestarts
      BY <2>1, <1>t DEF IndexTypeOK
    <3> QED
      BY <3>1, <3>2, <3>3, <2>1, <2>2, <1>t DEF IndexTyped, IndexTypeOK
  <2>4. SomebodyWillPublish' /\ LockKeepsOrder' /\ RegistryKeepsOrder'
    BY <2>1, <2>2, <1>n DEF SomebodyWillPublish, LockKeepsOrder, InLock, RegistryKeepsOrder
  <2> QED
    BY <2>3, <2>4 DEF IndexInv
<1>8. CASE UNCHANGED indexVars
  BY <1>8, <1>t DEF indexVars, IndexInv, IndexTyped, IndexTypeOK, StepShapes, Versions, SomebodyWillPublish,
                    WillPublish, LockKeepsOrder, InLock, RegistryKeepsOrder
<1> QED
  BY <1>1, <1>2, <1>3, <1>4, <1>5, <1>6, <1>7, <1>8 DEF IndexNext, ReloadStep

-----------------------------------------------------------------------------
(***************************************************************************)
(* The cases.                                                              *)
(*                                                                         *)
(* Two things are in flight while a request works: the severity an attach  *)
(* has read and will write back, and the signatures the scheduler read     *)
(* before it began to make cases.  The invariant says that the first is    *)
(* what the case still has, unless the case is one of those that raced, and*)
(* that the second covers every case of the scheduler's that stayed open.  *)
(*                                                                         *)
(* What a story is, a fold over the links of the alerts, is taken as the   *)
(* hypothesis StoriesAreOfAlerts: TLC evaluates it on the instance.        *)
(***************************************************************************)
CaseRows ==
    [status : CaseStatus, severity : Severities, source : {"manual", "killchain"},
     signature : SUBSET AlertIds, by : {"manual", "killchain", "analyst"}]

LoopShapes == [at : {"loop"}, existing : SUBSET (SUBSET AlertIds), todo : Seq(StoriesOf(AlertIds))]
SomeAlerts == (SUBSET AlertIds) \ {{}}

RequestShapes ==
    {Idle} \cup LoopShapes
        \cup [at : {"scan"}, existing : SUBSET (SUBSET AlertIds)]
        \cup [at : {"create"}, story : StoriesOf(AlertIds)]
        \cup [at : {"attach", "read"}, case : DOMAIN cases, alerts : SomeAlerts, then : {Idle} \cup LoopShapes]
        \cup [at : {"write"}, case : DOMAIN cases, alerts : SomeAlerts, then : {Idle} \cup LoopShapes,
              found : Severities]

CaseTyped ==
    /\ status \in [AlertIds -> {"absent", "open", "ack", "closed", "suppressed"}]
    /\ caseOf \in [AlertIds -> {NoCase} \cup DOMAIN cases]
    /\ cases \in Seq(CaseRows)
    /\ request \in [Workers -> RequestShapes]
    /\ raced \subseteq DOMAIN cases /\ reclosed \subseteq DOMAIN cases

\* A case that did not race has one writer, who knows its severity.
WritersKnow ==
    \A w \in Workers : At(w, "write") /\ request[w].case \notin raced =>
        /\ request[w].found = cases[request[w].case].severity
        /\ \A v \in Workers \ {w} : ~(At(v, "write") /\ request[v].case = request[w].case)

RowsAreMarked ==
    \A c \in DOMAIN cases :
        /\ cases[c].status = "closed" => c \in reclosed
        /\ cases[c].by = "killchain" => cases[c].source = "killchain"

\* The pass the scheduler is in the middle of.
PassOf(r) ==
    IF r.at \in {"scan", "loop"} THEN r
    ELSE IF r.at \in {"attach", "read", "write"} THEN r.then ELSE Idle

Covers(signatures) ==
    \A c \in DOMAIN cases \ reclosed : cases[c].by = "killchain" => cases[c].signature \in signatures

SchedulerKnows ==
    LET p == PassOf(request[Scheduler]) IN p.at \in {"scan", "loop"} => Covers(p.existing)

CaseInv ==
    /\ CaseTyped /\ WritersKnow /\ RowsAreMarked /\ SchedulerKnows
    /\ SeverityRollsUp /\ SchedulerNeverRepeats

LEMMA CaseFacts ==
    /\ \A a \in AlertIds : AlertFacts[a].level \in Severities
    /\ Scheduler \in Workers /\ Analysts \subseteq Workers
BY CaseDeskAssumption DEF CaseDeskAssumption, AlertIds, Workers

(* The highest of some severities is one of them and no lower than any.    *)
LEMMA HighestSeverity ==
    ASSUME NEW S \in SUBSET Severities, S # {}
    PROVE  Max(S) \in S /\ \A s \in S : s <= Max(S)
<1>1. \E x \in S : \A y \in S : x >= y
  <2>1. \A s \in S : s \in {0, 1, 2, 3, 4}
    BY DEF Severities
  <2>2. CASE 4 \in S
    BY <2>1, <2>2
  <2>3. CASE 4 \notin S /\ 3 \in S
    BY <2>1, <2>3
  <2>4. CASE 4 \notin S /\ 3 \notin S /\ 2 \in S
    BY <2>1, <2>4
  <2>5. CASE 4 \notin S /\ 3 \notin S /\ 2 \notin S /\ 1 \in S
    BY <2>1, <2>5
  <2>6. CASE 4 \notin S /\ 3 \notin S /\ 2 \notin S /\ 1 \notin S
    BY <2>1, <2>6
  <2> QED
    BY <2>2, <2>3, <2>4, <2>5, <2>6
<1> QED
  BY <1>1 DEF Max, Severities

LEMMA StoriesFit ==
    ASSUME StoriesAreOfAlerts PROVE Stories \in Seq(StoriesOf(AlertIds))
<1>1. UncasedAlerts \subseteq AlertIds
  BY DEF UncasedAlerts
<1>2. Stories \in Seq(StoriesOf(UncasedAlerts))
  BY <1>1 DEF StoriesAreOfAlerts, Stories
<1>3. StoriesOf(UncasedAlerts) \subseteq StoriesOf(AlertIds)
  <2>1. UNION {AlertFacts[a].entities : a \in UncasedAlerts} \subseteq UNION {AlertFacts[a].entities : a \in AlertIds}
    BY <1>1
  <2> QED
    BY <1>1, <2>1 DEF StoriesOf
<1> QED
  BY <1>2, <1>3

LEMMA CaseInvSuffices == CaseInv => CaseTypeOK /\ SeverityRollsUp /\ SchedulerNeverRepeats
<1> SUFFICES ASSUME CaseInv PROVE CaseTypeOK
  BY DEF CaseInv
<1>1. \A c \in DOMAIN cases : cases[c] \in CaseRows
  BY DEF CaseInv, CaseTyped
<1>2. \A c \in DOMAIN cases : cases[c].status \in CaseStatus
  BY <1>1 DEF CaseRows
<1> QED
  BY <1>2 DEF CaseInv, CaseTyped, CaseTypeOK

LEMMA CaseInvInit == CaseInit => CaseInv
<1> SUFFICES ASSUME CaseInit PROVE CaseInv
  OBVIOUS
<1>1. cases = <<>> /\ cases \in Seq(CaseRows) /\ DOMAIN cases = {}
  BY DEF CaseInit
<1>2. \A w \in Workers : request[w] = Idle /\ request[w].at = "idle"
  BY DEF CaseInit, Idle
<1>3. CaseTyped
  BY <1>1 DEF CaseInit, CaseTyped, RequestShapes
<1>4. \A a \in AlertIds : caseOf[a] = NoCase
  BY DEF CaseInit
<1>5. SchedulerKnows
  BY <1>1 DEF SchedulerKnows, Covers
<1> QED
  BY <1>1, <1>2, <1>3, <1>4, <1>5
     DEF CaseInv, WritersKnow, RowsAreMarked, SeverityRollsUp, SchedulerNeverRepeats, At

(* A step that moves one request and leaves the cases and the alerts in    *)
(* them alone.                                                             *)
LEMMA CaseInvByRequest ==
    ASSUME CaseInv, NEW w \in Workers, NEW p \in RequestShapes,
           request' = [request EXCEPT ![w] = p], UNCHANGED <<status, caseOf, cases, raced, reclosed>>,
           p.at # "write",
           w = Scheduler /\ PassOf(p).at \in {"scan", "loop"} => Covers(PassOf(p).existing)
    PROVE  CaseInv'
<1>1. \A v \in Workers : request'[v] = IF v = w THEN p ELSE request[v]
  BY DEF CaseInv, CaseTyped
<1>2. CaseTyped'
  BY DEF CaseInv, CaseTyped, RequestShapes
<1>3. WritersKnow'
  BY <1>1 DEF CaseInv, WritersKnow, At
<1>4. SchedulerKnows'
  <2>1. CASE w = Scheduler
    BY <1>1, <2>1, CaseFacts DEF SchedulerKnows, Covers, PassOf
  <2>2. CASE w # Scheduler
    BY <1>1, <2>2, CaseFacts DEF CaseInv, SchedulerKnows, Covers, PassOf
  <2> QED
    BY <2>1, <2>2
<1> QED
  BY <1>2, <1>3, <1>4 DEF CaseInv, RowsAreMarked, SeverityRollsUp, SchedulerNeverRepeats

(* A new case, and the attach that follows it, in one step.                *)
LEMMA CaseInvByCreate ==
    ASSUME CaseInv, NEW w \in Workers, NEW row \in CaseRows, NEW ids \in SomeAlerts,
           NEW rest \in {Idle} \cup LoopShapes, CreateCase(w, row, ids, rest),
           UNCHANGED <<status, caseOf, raced, reclosed>>,
           row.status # "closed", row.by = "killchain" => row.source = "killchain",
           ~At(w, "write"),
           row.by = "killchain" => w = Scheduler /\ \A c \in DOMAIN cases \ reclosed :
                                       cases[c].by = "killchain" => cases[c].signature # row.signature,
           w = Scheduler /\ rest.at = "loop" => (Covers(rest.existing) /\ row.signature \in rest.existing),
           row.by = "killchain" => rest.at = "loop"
    PROVE  CaseInv'
<1> DEFINE n == Len(cases) + 1
           p == [at |-> "attach", case |-> n, alerts |-> ids, then |-> rest]
<1>t. CaseTyped /\ WritersKnow /\ RowsAreMarked /\ SchedulerKnows /\ SeverityRollsUp /\ SchedulerNeverRepeats
  BY DEF CaseInv
<1>1. /\ cases' = Append(cases, row) /\ request' = [request EXCEPT ![w] = p]
  BY DEF CreateCase, Become
<1>2. /\ cases' \in Seq(CaseRows) /\ DOMAIN cases = 1..Len(cases) /\ Len(cases) \in Nat
      /\ DOMAIN cases' = DOMAIN cases \cup {n} /\ n \notin DOMAIN cases
      /\ \A c \in DOMAIN cases : cases'[c] = cases[c] /\ c < n
      /\ cases'[n] = row /\ NoCase # n /\ n \in Nat
  BY <1>1, <1>t DEF CaseTyped, NoCase
<1>3. \A v \in Workers : request'[v] = IF v = w THEN p ELSE request[v]
  BY <1>1, <1>t DEF CaseTyped
<1>4. p.at = "attach" /\ PassOf(p) = rest /\ p \in RequestShapes'
  BY <1>2 DEF PassOf, RequestShapes
<1> HIDE DEF n, p
<1>5. CaseTyped'
  <2>1. RequestShapes \subseteq RequestShapes'
    BY <1>2 DEF RequestShapes
  <2>2. \A v \in Workers : request'[v] \in RequestShapes'
    BY <1>3, <1>4, <2>1, <1>t DEF CaseTyped
  <2> QED
    BY <1>1, <1>2, <2>2, <1>t DEF CaseTyped
<1>6. \A v \in Workers : request[v].at = "write" => request[v].case \in DOMAIN cases
  BY <1>t DEF CaseTyped, RequestShapes, Idle, LoopShapes
<1>7. WritersKnow'
  BY <1>2, <1>3, <1>4, <1>6, <1>t DEF WritersKnow, At
<1>8. RowsAreMarked' /\ SeverityRollsUp'
  BY <1>2, <1>t DEF RowsAreMarked, SeverityRollsUp, CaseTyped
<1>9. SchedulerKnows'
  <2>1. CASE w = Scheduler
    <3>1. PassOf(request'[Scheduler]) = rest
      BY <2>1, <1>3, <1>4, CaseFacts
    <3>2. rest.at \in {"scan", "loop"} => rest.at = "loop"
      BY DEF LoopShapes, Idle
    <3>3. rest.at = "loop" => Covers(rest.existing)'
      BY <2>1, <1>2 DEF Covers
    <3> QED
      BY <3>1, <3>2, <3>3 DEF SchedulerKnows
  <2>2. CASE w # Scheduler
    <3>1. request'[Scheduler] = request[Scheduler] /\ row.by # "killchain"
      BY <2>2, <1>3, CaseFacts
    <3> QED
      BY <3>1, <1>2, <1>t DEF SchedulerKnows, Covers
  <2> QED
    BY <2>1, <2>2
<1>10. SchedulerNeverRepeats'
  <2> SUFFICES ASSUME NEW c \in DOMAIN cases', NEW d \in DOMAIN cases', c < d,
                      cases'[c].by = "killchain", cases'[d].by = "killchain",
                      cases'[c].signature = cases'[d].signature
               PROVE  c \in reclosed
    BY DEF SchedulerNeverRepeats
  <2>1. c \in DOMAIN cases
    <3>1. d \in Nat /\ c \in Nat /\ d <= n
      BY <1>2
    <3>2. c # n
      BY <3>1, <1>2
    <3> QED
      BY <3>2, <1>2
  <2>2. CASE d \in DOMAIN cases
    BY <2>1, <2>2, <1>2, <1>t DEF SchedulerNeverRepeats
  <2>3. CASE d = n
    BY <2>1, <2>3, <1>2
  <2> QED
    BY <2>2, <2>3, <1>2
<1> QED
  BY <1>5, <1>7, <1>8, <1>9, <1>10 DEF CaseInv

LEMMA CaseInvStep == StoriesAreOfAlerts /\ CaseInv /\ [CaseNext]_caseVars => CaseInv'
<1> SUFFICES ASSUME StoriesAreOfAlerts, CaseInv, [CaseNext]_caseVars PROVE CaseInv'
  OBVIOUS
<1> USE CaseFacts
<1>t. CaseTyped /\ WritersKnow /\ RowsAreMarked /\ SchedulerKnows /\ SeverityRollsUp /\ SchedulerNeverRepeats
  BY DEF CaseInv
<1>r. \A w \in Workers : request[w] \in RequestShapes
  BY <1>t DEF CaseTyped
<1>c. DOMAIN cases = 1..Len(cases) /\ \A c \in DOMAIN cases : cases[c] \in CaseRows
  BY <1>t DEF CaseTyped
<1>i. Idle \in RequestShapes /\ Idle.at = "idle" /\ PassOf(Idle) = Idle
  BY DEF RequestShapes, Idle, PassOf
<1>1. ASSUME NEW a \in AlertIds, AlertRaised(a) PROVE CaseInv'
  <2>1. UNCHANGED <<caseOf, cases, request, raced, reclosed>>
    BY <1>1 DEF AlertRaised
  <2>2. CaseTyped'
    BY <1>1, <2>1, <1>t DEF CaseTyped, AlertRaised, RequestShapes
  <2> QED
    BY <2>1, <2>2, <1>t DEF CaseInv, WritersKnow, At, RowsAreMarked, SchedulerKnows, Covers, SeverityRollsUp,
                            SchedulerNeverRepeats
<1>2. ASSUME NEW a \in AlertIds, RemoveAlert(a) PROVE CaseInv'
  <2>1. /\ caseOf' = [caseOf EXCEPT ![a] = NoCase]
        /\ UNCHANGED <<status, cases, request, raced, reclosed>>
    BY <1>2 DEF RemoveAlert
  <2>2. CaseTyped'
    BY <2>1, <1>t DEF CaseTyped, RequestShapes
  <2> QED
    BY <2>1, <2>2, <1>t DEF CaseInv, CaseTyped, WritersKnow, At, RowsAreMarked, SchedulerKnows, Covers,
                            SeverityRollsUp, SchedulerNeverRepeats
<1>3. ASSUME NEW a \in AlertIds, NEW s \in {"ack", "closed", "open"}, SetAlertStatus(a, s) PROVE CaseInv'
  <2>1. /\ status' = [status EXCEPT ![a] = s]
        /\ UNCHANGED <<caseOf, cases, request, raced, reclosed>>
    BY <1>3 DEF SetAlertStatus
  <2>2. CaseTyped'
    BY <2>1, <1>t DEF CaseTyped, RequestShapes
  <2> QED
    BY <2>1, <2>2, <1>t DEF CaseInv, WritersKnow, At, RowsAreMarked, SchedulerKnows, Covers, SeverityRollsUp,
                            SchedulerNeverRepeats
<1>4. ASSUME NEW w \in Analysts, CreateFromStory(w) PROVE CaseInv'
  <2>1. PICK i \in DOMAIN Stories : Become(w, [at |-> "create", story |-> Stories[i]])
    BY <1>4 DEF CreateFromStory
  <2> DEFINE p == [at |-> "create", story |-> Stories[i]]
  <2>2. p \in RequestShapes /\ p.at = "create" /\ PassOf(p) = Idle
    BY StoriesFit DEF RequestShapes, PassOf
  <2>3. request' = [request EXCEPT ![w] = p] /\ UNCHANGED <<status, caseOf, cases, raced, reclosed>>
    BY <1>4, <2>1 DEF CreateFromStory, Become
  <2> HIDE DEF p
  <2> QED
    BY <2>2, <2>3, <1>i, CaseInvByRequest
<1>5. ASSUME NEW w \in Analysts, NEW a \in AlertIds, SeedCase(w, a) PROVE CaseInv'
  <2> DEFINE row == CaseRow("manual", AlertFacts[a].level, NoAlerts)
  <2>1. /\ row \in CaseRows /\ row.status = "open" /\ row.by = "manual"
    BY DEF CaseRow, CaseRows, NoAlerts, CaseStatus
  <2>2. CreateCase(w, row, {a}, Idle) /\ UNCHANGED <<status, caseOf, raced, reclosed>> /\ ~At(w, "write")
    BY <1>5 DEF SeedCase, At
  <2>3. {a} \in SomeAlerts
    BY DEF SomeAlerts
  <2> HIDE DEF row
  <2> QED
    BY <2>1, <2>2, <2>3, <1>i, CaseInvByCreate
<1>6. ASSUME NEW w \in Analysts, NEW c \in CaseIds, NEW ids \in SUBSET AlertIds, AttachToCase(w, c, ids)
      PROVE  CaseInv'
  <2> DEFINE p == [at |-> "attach", case |-> c, alerts |-> ids, then |-> Idle]
  <2>1. p \in RequestShapes /\ p.at = "attach" /\ PassOf(p) = Idle
    BY <1>6 DEF AttachToCase, RequestShapes, SomeAlerts, PassOf
  <2>2. request' = [request EXCEPT ![w] = p] /\ UNCHANGED <<status, caseOf, cases, raced, reclosed>>
    BY <1>6 DEF AttachToCase, Become
  <2> HIDE DEF p
  <2> QED
    BY <2>1, <2>2, <1>i, CaseInvByRequest
<1>7. ASSUME NEW w \in Analysts, CreateStoryCase(w) PROVE CaseInv'
  <2> DEFINE s == request[w].story
             row == [CaseRow("killchain", s.severity, s.signature) EXCEPT !.by = "analyst"]
  <2>1. s \in StoriesOf(AlertIds) /\ s.severity \in Severities /\ s.signature \in SomeAlerts
    <3>1. s \in StoriesOf(AlertIds)
      BY <1>7, <1>r DEF CreateStoryCase, At, RequestShapes, LoopShapes, Idle
    <3> QED
      BY <3>1 DEF StoriesOf, SomeAlerts
  <2> HIDE DEF s
  <2>2. row \in CaseRows /\ row.status = "open" /\ row.by = "analyst"
    BY <2>1 DEF CaseRow, CaseRows, CaseStatus, SomeAlerts
  <2>3. CreateCase(w, row, s.signature, Idle) /\ UNCHANGED <<status, caseOf, raced, reclosed>> /\ ~At(w, "write")
    BY <1>7 DEF CreateStoryCase, At, s
  <2> HIDE DEF row
  <2> QED
    BY <2>1, <2>2, <2>3, <1>i, CaseInvByCreate
<1>8. ASSUME NEW w \in Workers, Attach(w) PROVE CaseInv'
  <2> DEFINE p == [request[w] EXCEPT !.at = "read"]
  <2>1. request[w] \in [at : {"attach", "read"}, case : DOMAIN cases, alerts : SomeAlerts, then : {Idle} \cup LoopShapes]
        /\ request[w].at = "attach"
    BY <1>8, <1>r DEF Attach, At, RequestShapes, LoopShapes, Idle
  <2>2. p \in RequestShapes /\ p.at = "read" /\ PassOf(p) = request[w].then
    BY <2>1 DEF RequestShapes, PassOf
  <2>3. request' = [request EXCEPT ![w] = p] /\ UNCHANGED <<status, caseOf, cases, raced, reclosed>>
    BY <1>8 DEF Attach, Become
  <2>4. w = Scheduler /\ request[w].then.at \in {"scan", "loop"} => Covers(request[w].then.existing)
    BY <2>1, <1>t DEF SchedulerKnows, PassOf
  <2> HIDE DEF p
  <2> QED
    BY <2>2, <2>3, <2>4, CaseInvByRequest
<1>9. ASSUME NEW w \in Workers, EscalateRead(w) PROVE CaseInv'
  <2> DEFINE r == request[w]
             others == {v \in Workers \ {w} : At(v, "write") /\ request[v].case = r.case}
             p == [at |-> "write", case |-> r.case, alerts |-> r.alerts, then |-> r.then,
                   found |-> cases[r.case].severity]
  <2>1. /\ r.at = "read" /\ r.case \in DOMAIN cases /\ r.alerts \in SomeAlerts
        /\ r.then \in {Idle} \cup LoopShapes
    BY <1>9, <1>r DEF EscalateRead, At, RequestShapes, LoopShapes, Idle
  <2>2. /\ request' = [request EXCEPT ![w] = p]
        /\ raced' = IF others = {} THEN raced ELSE raced \cup {r.case}
        /\ UNCHANGED <<status, caseOf, cases, reclosed>>
    BY <1>9 DEF EscalateRead, Become
  <2>3. p \in RequestShapes
    BY <2>1, <1>c DEF RequestShapes, CaseRows
  <2>4. p.at = "write" /\ p.case = r.case /\ p.then = r.then /\ p.found = cases[r.case].severity
    OBVIOUS
  <2> HIDE DEF p, others
  <2>5. \A v \in Workers : request'[v] = IF v = w THEN p ELSE request[v]
    BY <2>2, <1>t DEF CaseTyped
  <2>6. raced \subseteq raced' /\ raced' \subseteq DOMAIN cases
        /\ \A v \in Workers \ {w} : At(v, "write") /\ request[v].case = r.case => r.case \in raced'
    BY <2>1, <2>2, <1>t DEF others, CaseTyped
  <2>7. CaseTyped'
    <3>1. RequestShapes' = RequestShapes
      BY <2>2 DEF RequestShapes
    <3> QED
      BY <3>1, <2>2, <2>3, <2>6, <1>t DEF CaseTyped
  <2>8. WritersKnow'
    BY <2>2, <2>4, <2>5, <2>6, <1>t DEF WritersKnow, At
  <2>9. SchedulerKnows'
    BY <2>1, <2>2, <2>4, <2>5, <1>t DEF SchedulerKnows, Covers, PassOf
  <2>10. RowsAreMarked' /\ SeverityRollsUp' /\ SchedulerNeverRepeats'
    BY <2>2, <2>6, <1>t DEF RowsAreMarked, SeverityRollsUp, SchedulerNeverRepeats
  <2> QED
    BY <2>7, <2>8, <2>9, <2>10 DEF CaseInv
<1>10. ASSUME NEW w \in Workers, EscalateWrite(w) PROVE CaseInv'
  <2> DEFINE r == request[w]
             x == r.case
             levels == {AlertFacts[a].level : a \in r.alerts}
             top == Max({r.found} \cup levels)
  <2>1. /\ r.at = "write" /\ x \in DOMAIN cases /\ r.alerts \in SomeAlerts
        /\ r.then \in {Idle} \cup LoopShapes /\ r.found \in Severities
    BY <1>10, <1>r DEF EscalateWrite, At, RequestShapes, LoopShapes, Idle
  <2>2. /\ cases' = [cases EXCEPT ![x].severity = top]
        /\ caseOf' = [a \in AlertIds |-> IF a \in r.alerts THEN x ELSE caseOf[a]]
        /\ request' = [request EXCEPT ![w] = r.then]
        /\ UNCHANGED <<status, raced, reclosed>>
    BY <1>10 DEF EscalateWrite, Become
  <2>3. top \in Severities /\ r.found <= top /\ \A a \in r.alerts : AlertFacts[a].level <= top
    <3>1. {r.found} \cup levels \in SUBSET Severities
      BY <2>1 DEF SomeAlerts
    <3>2. top \in {r.found} \cup levels /\ \A s \in {r.found} \cup levels : s <= top
      BY <3>1, HighestSeverity
    <3> QED
      BY <3>1, <3>2
  <2> HIDE DEF top, levels
  <2>4. /\ DOMAIN cases' = DOMAIN cases /\ cases' \in Seq(CaseRows)
        /\ \A c \in DOMAIN cases : cases'[c] = IF c = x THEN [cases[c] EXCEPT !.severity = top] ELSE cases[c]
    <3>1. [cases[x] EXCEPT !.severity = top] \in CaseRows
      BY <2>1, <2>3, <1>c DEF CaseRows
    <3> QED
      BY <3>1, <2>1, <2>2, <1>t DEF CaseTyped
  <2>5. \A c \in DOMAIN cases : /\ cases'[c].status = cases[c].status /\ cases'[c].by = cases[c].by
                                /\ cases'[c].source = cases[c].source /\ cases'[c].signature = cases[c].signature
                                /\ cases'[c].severity = IF c = x THEN top ELSE cases[c].severity
    BY <2>4, <1>c DEF CaseRows
  <2>6. \A v \in Workers : request'[v] = IF v = w THEN r.then ELSE request[v]
    BY <2>2, <1>t DEF CaseTyped
  <2>7. r.then \in RequestShapes /\ r.then.at # "write" /\ PassOf(r.then) = r.then
    BY <2>1, <1>i DEF RequestShapes, LoopShapes, PassOf, Idle
  <2>8. CaseTyped'
    <3>1. RequestShapes' = RequestShapes
      BY <2>4 DEF RequestShapes
    <3>2. caseOf' \in [AlertIds -> {NoCase} \cup DOMAIN cases]
      BY <2>1, <2>2, <1>t DEF CaseTyped
    <3>3. request' \in [Workers -> RequestShapes]
      BY <2>2, <2>7, <1>t DEF CaseTyped
    <3> QED
      BY <3>1, <3>2, <3>3, <2>2, <2>4, <1>t DEF CaseTyped
  <2>9. x \notin raced => /\ r.found = cases[x].severity
                          /\ \A v \in Workers \ {w} : ~(At(v, "write") /\ request[v].case = x)
    BY <2>1, <1>t DEF WritersKnow, At
  <2>10. WritersKnow'
    <3> SUFFICES ASSUME NEW v \in Workers, At(v, "write")', request'[v].case \notin raced
                 PROVE  /\ request'[v].found = cases'[request'[v].case].severity
                        /\ \A u \in Workers \ {v} : ~(At(u, "write") /\ request[u].case = request[v].case)'
      BY <2>2 DEF WritersKnow
    <3>1. v # w /\ request'[v] = request[v] /\ At(v, "write")
      BY <2>6, <2>7 DEF At
    <3>2. request[v].case # x /\ request[v].case \in DOMAIN cases
      BY <3>1, <2>9, <1>r DEF RequestShapes, LoopShapes, Idle, At
    <3>3. request[v].found = cases[request[v].case].severity
          /\ \A u \in Workers \ {v} : ~(At(u, "write") /\ request[u].case = request[v].case)
      BY <3>1, <1>t DEF WritersKnow
    <3> QED
      BY <3>1, <3>2, <3>3, <2>5, <2>6, <2>7 DEF At
  <2>11. SchedulerKnows'
    <3>1. PassOf(request'[Scheduler]) = PassOf(request[Scheduler])
      <4>1. CASE w = Scheduler
        BY <4>1, <2>1, <2>6, <2>7 DEF PassOf
      <4>2. CASE w # Scheduler
        BY <4>2, <2>6
      <4> QED
        BY <4>1, <4>2
    <3> QED
      BY <3>1, <2>2, <2>4, <2>5, <1>t DEF SchedulerKnows, Covers
  <2>12. RowsAreMarked' /\ SchedulerNeverRepeats'
    BY <2>2, <2>4, <2>5, <1>t DEF RowsAreMarked, SchedulerNeverRepeats
  <2>13. SeverityRollsUp'
    <3> SUFFICES ASSUME NEW a \in AlertIds, caseOf'[a] # NoCase, caseOf'[a] \notin raced
                 PROVE  AlertFacts[a].level <= cases'[caseOf'[a]].severity
      BY <2>2 DEF SeverityRollsUp
    <3>1. caseOf'[a] = (IF a \in r.alerts THEN x ELSE caseOf[a]) /\ caseOf[a] \in {NoCase} \cup DOMAIN cases
      BY <2>2, <1>t DEF CaseTyped
    <3>2. CASE a \in r.alerts
      BY <3>1, <3>2, <2>1, <2>3, <2>5
    <3>3. CASE a \notin r.alerts
      <4>1. AlertFacts[a].level <= cases[caseOf[a]].severity
        BY <3>1, <3>3, <1>t DEF SeverityRollsUp
      <4>2. CASE caseOf[a] = x
        <5>1. cases[x].severity <= top
          BY <4>2, <3>1, <3>3, <2>3, <2>9
        <5>2. AlertFacts[a].level \in Nat /\ cases[x].severity \in Nat /\ top \in Nat
          BY <2>1, <2>3, <1>c DEF Severities, CaseRows
        <5> QED
          BY <4>1, <4>2, <5>1, <5>2, <3>1, <3>3, <2>1, <2>5
      <4>3. CASE caseOf[a] # x
        BY <4>1, <4>3, <3>1, <3>3, <2>5
      <4> QED
        BY <4>2, <4>3
    <3> QED
      BY <3>2, <3>3
  <2> QED
    BY <2>8, <2>10, <2>11, <2>12, <2>13 DEF CaseInv
<1>11. ASSUME NEW x \in CaseIds, NEW st \in CaseStatus, NEW sev \in {f.level : f \in ToSet(AlertFacts)},
              UpdateCase(x, st, sev)
       PROVE  CaseInv'
  <2>1. /\ x \in DOMAIN cases /\ cases' = [cases EXCEPT ![x].status = st, ![x].severity = sev]
        /\ reclosed' = (IF st = "closed" THEN reclosed \cup {x} ELSE reclosed)
        /\ raced' = (IF sev = cases[x].severity THEN raced ELSE raced \cup {x})
        /\ UNCHANGED <<status, caseOf, request>>
    BY <1>11 DEF UpdateCase
  <2>2. sev \in Severities
    BY DEF ToSet, AlertIds
  <2> DEFINE row == [cases[x] EXCEPT !.status = st, !.severity = sev]
  <2>3. /\ row \in CaseRows /\ row.status = st /\ row.severity = sev /\ row.by = cases[x].by
        /\ row.source = cases[x].source /\ row.signature = cases[x].signature
    BY <2>1, <2>2, <1>c DEF CaseRows
  <2>4. cases' = [cases EXCEPT ![x] = row]
    BY <2>1
  <2> HIDE DEF row
  <2>5. /\ DOMAIN cases' = DOMAIN cases /\ cases' \in Seq(CaseRows)
        /\ \A c \in DOMAIN cases : cases'[c] = IF c = x THEN row ELSE cases[c]
    <3>1. cases \in Seq(CaseRows) /\ x \in DOMAIN cases /\ row \in CaseRows
      BY <2>1, <2>3, <1>t DEF CaseTyped
    <3>2. DOMAIN cases' = DOMAIN cases /\ \A c \in DOMAIN cases : cases'[c] = IF c = x THEN row ELSE cases[c]
      BY <2>4
    <3>3. Len(cases) \in Nat /\ cases \in [1..Len(cases) -> CaseRows] /\ DOMAIN cases = 1..Len(cases)
      BY <3>1
    <3>4. cases' \in [1..Len(cases) -> CaseRows]
      BY <2>4, <3>1, <3>3
    <3> QED
      BY <3>2, <3>3, <3>4
  <2>6. reclosed \subseteq reclosed' /\ reclosed' \subseteq DOMAIN cases /\ (st = "closed" => x \in reclosed')
        /\ raced \subseteq raced' /\ raced' \subseteq DOMAIN cases /\ (x \notin raced' => sev = cases[x].severity)
    BY <2>1, <1>t DEF CaseTyped
  <2>7. CaseTyped'
    <3>1. RequestShapes' = RequestShapes
      BY <2>5 DEF RequestShapes
    <3> QED
      BY <3>1, <2>1, <2>5, <2>6, <1>t DEF CaseTyped
  <2>8. \A c \in DOMAIN cases : /\ cases'[c].by = cases[c].by /\ cases'[c].source = cases[c].source
                                /\ cases'[c].signature = cases[c].signature
                                /\ c \notin raced' => cases'[c].severity = cases[c].severity
                                /\ cases'[c].status = IF c = x THEN st ELSE cases[c].status
    BY <2>3, <2>5, <2>6
  <2>9. WritersKnow'
    <3>1. \A v \in Workers : At(v, "write") => request[v].case \in DOMAIN cases
      BY <1>r DEF RequestShapes, LoopShapes, Idle, At
    <3> QED
      BY <3>1, <2>1, <2>6, <2>8, <1>t DEF WritersKnow, At
  <2>10. RowsAreMarked' /\ SchedulerKnows' /\ SchedulerNeverRepeats'
    BY <2>1, <2>5, <2>6, <2>8, <1>t DEF RowsAreMarked, SchedulerKnows, Covers, SchedulerNeverRepeats
  <2>11. SeverityRollsUp'
    BY <2>1, <2>6, <2>8, <1>t DEF SeverityRollsUp, CaseTyped
  <2> QED
    BY <2>7, <2>9, <2>10, <2>11 DEF CaseInv
<1>12. CASE AutoCreateRead
  <2> DEFINE p == [at |-> "scan", existing |-> OpenSignatures]
  <2>1. OpenSignatures \in SUBSET (SUBSET AlertIds)
    BY <1>c DEF OpenSignatures, CaseRows
  <2>2. p \in RequestShapes /\ p.at = "scan" /\ PassOf(p) = p /\ p.existing = OpenSignatures
    BY <2>1 DEF RequestShapes, PassOf
  <2>3. Covers(OpenSignatures)
    BY <1>t DEF Covers, OpenSignatures, RowsAreMarked
  <2>4. request' = [request EXCEPT ![Scheduler] = p] /\ UNCHANGED <<status, caseOf, cases, raced, reclosed>>
    BY <1>12 DEF AutoCreateRead, Become
  <2> HIDE DEF p
  <2> QED
    BY <2>2, <2>3, <2>4, CaseInvByRequest
<1>13. CASE AutoCreateScan
  <2> DEFINE r == request[Scheduler]
             p == [at |-> "loop", existing |-> r.existing, todo |-> Stories]
  <2>1. r.at = "scan" /\ r.existing \in SUBSET (SUBSET AlertIds)
    BY <1>13, <1>r DEF AutoCreateScan, At, RequestShapes, LoopShapes, Idle
  <2>2. p \in RequestShapes /\ p.at = "loop" /\ PassOf(p) = p /\ p.existing = r.existing
    BY <2>1, StoriesFit DEF RequestShapes, LoopShapes, PassOf
  <2>3. Covers(r.existing)
    BY <2>1, <1>t DEF SchedulerKnows, PassOf
  <2>4. request' = [request EXCEPT ![Scheduler] = p] /\ UNCHANGED <<status, caseOf, cases, raced, reclosed>>
    BY <1>13 DEF AutoCreateScan, Become
  <2> HIDE DEF p
  <2> QED
    BY <2>2, <2>3, <2>4, CaseInvByRequest
<1>l. At(Scheduler, "loop") => request[Scheduler] \in LoopShapes /\ Covers(request[Scheduler].existing)
  <2>1. At(Scheduler, "loop") => request[Scheduler] \in LoopShapes
    BY <1>r DEF At, RequestShapes, Idle
  <2> QED
    BY <2>1, <1>t DEF At, SchedulerKnows, PassOf
<1>14. CASE AutoCreateSkip
  <2> DEFINE r == request[Scheduler]
             p == [r EXCEPT !.todo = Tail(r.todo)]
  <2>1. r \in LoopShapes /\ Covers(r.existing) /\ r.todo \in Seq(StoriesOf(AlertIds)) /\ r.todo # <<>>
    BY <1>14, <1>l DEF AutoCreateSkip, LoopShapes
  <2>2. Tail(r.todo) \in Seq(StoriesOf(AlertIds))
    BY <2>1
  <2>3. p \in RequestShapes /\ p.at = "loop" /\ PassOf(p) = p /\ p.existing = r.existing
    BY <2>1, <2>2 DEF RequestShapes, LoopShapes, PassOf
  <2>4. request' = [request EXCEPT ![Scheduler] = p] /\ UNCHANGED <<status, caseOf, cases, raced, reclosed>>
    BY <1>14 DEF AutoCreateSkip, Become
  <2> HIDE DEF p
  <2> QED
    BY <2>1, <2>3, <2>4, CaseInvByRequest
<1>15. CASE AutoCreateCase
  <2> DEFINE r == request[Scheduler]
             s == Head(r.todo)
             row == CaseRow("killchain", s.severity, s.signature)
             rest == [at |-> "loop", existing |-> r.existing \cup {s.signature}, todo |-> Tail(r.todo)]
  <2>1. /\ r \in LoopShapes /\ Covers(r.existing) /\ r.todo \in Seq(StoriesOf(AlertIds)) /\ r.todo # <<>>
        /\ r.existing \in SUBSET (SUBSET AlertIds) /\ ~At(Scheduler, "write")
    BY <1>15, <1>l DEF AutoCreateCase, LoopShapes, At
  <2>2. s \in StoriesOf(AlertIds) /\ Tail(r.todo) \in Seq(StoriesOf(AlertIds))
    BY <2>1
  <2>3. CreateCase(Scheduler, row, s.signature, rest) /\ s.signature \notin r.existing
        /\ UNCHANGED <<status, caseOf, raced, reclosed>>
    BY <1>15 DEF AutoCreateCase
  <2> HIDE DEF r, s
  <2>4. s.severity \in Severities /\ s.signature \in SomeAlerts
    BY <2>2 DEF StoriesOf, SomeAlerts
  <2>5. row \in CaseRows /\ row.status = "open" /\ row.by = "killchain" /\ row.source = "killchain"
        /\ row.signature = s.signature
    BY <2>4 DEF CaseRow, CaseRows, CaseStatus, SomeAlerts
  <2>6. rest \in LoopShapes /\ rest.at = "loop" /\ rest.existing = r.existing \cup {s.signature}
    BY <2>1, <2>2, <2>4 DEF LoopShapes, SomeAlerts
  <2> HIDE DEF row, rest
  <2>7. Covers(rest.existing) /\ \A c \in DOMAIN cases \ reclosed :
                                    cases[c].by = "killchain" => cases[c].signature # row.signature
    BY <2>1, <2>3, <2>5, <2>6 DEF Covers
  <2> QED
    BY <2>1, <2>3, <2>4, <2>5, <2>6, <2>7, CaseInvByCreate
<1>16. CASE AutoCreateDone
  BY <1>16, <1>i, CaseInvByRequest DEF AutoCreateDone, Become
<1>17. CASE CaseCrash
  <2>1. request' = [w \in Workers |-> Idle] /\ UNCHANGED <<status, caseOf, cases, raced, reclosed>>
    BY <1>17 DEF CaseCrash
  <2>2. CaseTyped'
    <3>1. RequestShapes' = RequestShapes
      BY <2>1 DEF RequestShapes
    <3> QED
      BY <3>1, <2>1, <1>i, <1>t DEF CaseTyped
  <2> QED
    BY <2>1, <2>2, <1>i, <1>t DEF CaseInv, WritersKnow, At, RowsAreMarked, SchedulerKnows, Covers, SeverityRollsUp,
                                  SchedulerNeverRepeats
<1>18. CASE UNCHANGED caseVars
  BY <1>18, <1>t DEF caseVars, CaseInv, CaseTyped, RequestShapes, WritersKnow, At, RowsAreMarked, SchedulerKnows,
                     Covers, SeverityRollsUp, SchedulerNeverRepeats
<1> QED
  BY <1>1, <1>2, <1>3, <1>4, <1>5, <1>6, <1>7, <1>8, <1>9, <1>10, <1>11, <1>12, <1>13, <1>14, <1>15, <1>16,
     <1>17, <1>18 DEF CaseNext, AnalystStep, RequestProgress, SchedulerStep

(* Whatever the requests, the scheduler, crashes and reloads do: a case is *)
(* as severe as each alert in it unless it raced, the scheduler makes no   *)
(* second case of a story whose first stayed open, and an index nobody is  *)
(* reloading is what the tables hold, but for the overlaps each part names *)
(* (db.add_alerts_to_case, killchain_runtime.auto_create, the reloads).    *)
THEOREM DeskStaysConsistent == StoriesAreOfAlerts /\ DeskSpec => []DeskIsConsistent
<1> SUFFICES ASSUME StoriesAreOfAlerts PROVE DeskSpec => []DeskIsConsistent
  OBVIOUS
<1> DEFINE Inv == CaseInv /\ IndexInv
<1>1. DeskInit => Inv
  BY CaseInvInit, IndexInvInit DEF DeskInit
<1>2. ASSUME Inv, [DeskNext]_<<desk, caseVars, indexVars>> PROVE Inv'
  <2>1. [CaseNext]_caseVars /\ [IndexNext]_indexVars
    BY <1>2 DEF DeskNext
  <2> QED
    BY <1>2, <2>1, CaseInvStep, IndexInvStep
<1>3. Inv => DeskIsConsistent
  BY CaseInvSuffices, IndexInvSuffices DEF DeskIsConsistent, DeskTypeOK
<1> QED
  BY <1>1, <1>2, <1>3, PTL DEF DeskSpec

-----------------------------------------------------------------------------
(***************************************************************************)
(* RegistryImport.  An import keeps to the assets whose rows it has        *)
(* locked: the aliases it drops belong to them, those it inserts are free, *)
(* and no two imports lock one row or insert one alias.                    *)
(***************************************************************************)
AliasMaps == UNION {[D -> AssetIds] : D \in SUBSET Aliases}
Declarations == UNION {[D -> SUBSET Aliases] : D \in SUBSET AssetIds}
TxnShapes ==
    [at : {"none", "row", "alias", "insert"}, todo : Seq(Entries),
     rows : SUBSET AssetIds, gone : SUBSET AssetIds, dropped : SUBSET Aliases,
     put : AliasMaps, wanted : SUBSET Aliases, alias : Aliases \cup {NoOne},
     declared : Declarations]

OnEntry(t) == t.at \in {"alias", "insert"}
EntryOf(t) == Head(t.todo)

\* What a transaction has written is of the rows it has locked, given the committed aliases.
KeepsToRows(t, owners) ==
    /\ t.gone \subseteq t.rows
    /\ \A i \in DOMAIN t.todo : t.todo[i].id \notin t.gone
    /\ t.at = "none" => t = NoTxn
    /\ OnEntry(t) => /\ t.todo # <<>> /\ EntryOf(t).id \in t.rows
                     /\ t.wanted \subseteq EntryOf(t).aliases
    /\ t.at = "insert" => t.alias \in t.wanted
    /\ \A x \in DOMAIN t.put : t.put[x] \in t.rows \ t.gone /\ (x \in t.dropped \/ owners[x] = NoOne)
    /\ \A x \in t.dropped :
          /\ owners[x] \in t.rows
          /\ \/ owners[x] \in t.gone \cup DOMAIN t.declared
             \/ OnEntry(t) /\ EntryOf(t).declares /\ owners[x] = EntryOf(t).id
    /\ \A x \in Aliases : owners[x] \in t.gone => x \in t.dropped
    /\ OnEntry(t) /\ EntryOf(t).declares => \A x \in Aliases : owners[x] = EntryOf(t).id => x \in t.dropped

\* It has inserted what it declared, an alias in `excused` aside.
KeepsItsWord(t, excused) ==
    /\ OnEntry(t) => \A x \in EntryOf(t).aliases \ (t.wanted \cup excused) :
                        x \in DOMAIN t.put /\ t.put[x] = EntryOf(t).id
    /\ \A a \in DOMAIN t.declared :
          /\ a \in t.rows \ t.gone
          /\ \A x \in t.declared[a] \ excused : x \in DOMAIN t.put /\ t.put[x] = a

SeenIn(t, owners, x) == IF x \in DOMAIN t.put THEN t.put[x]
                       ELSE IF x \in t.dropped THEN NoOne ELSE owners[x]
\* The alias it is about to insert is still nobody else's.
StillFree(t, owners, excused) ==
    t.at = "insert" /\ t.alias \notin excused => SeenIn(t, owners, t.alias) \in {NoOne, EntryOf(t).id}

ApartFrom(t, u) == t.rows \cap u.rows = {} /\ DOMAIN t.put \cap DOMAIN u.put = {}
AloneOn(t, u, excused) ==
    t.at = "insert" /\ t.alias \notin excused =>
        t.alias \notin DOMAIN u.put /\ ~(u.at = "insert" /\ u.alias = t.alias)

ImportInv ==
    /\ ImportTypeOK /\ AliasesResolve /\ AcceptedAliasesResolve
    /\ accepted \in [AssetIds -> SUBSET Aliases] /\ contested \subseteq Aliases
    /\ txn \in [Importers -> TxnShapes]
    /\ \A w \in Importers : /\ KeepsToRows(txn[w], holder) /\ KeepsItsWord(txn[w], contested)
                            /\ StillFree(txn[w], holder, contested)
    /\ \A w, v \in Importers : w # v => ApartFrom(txn[w], txn[v]) /\ AloneOn(txn[w], txn[v], contested)

(* A step of one import's transaction keeps the invariant when what it     *)
(* leaves is in order by itself and beside every other one.                *)
LEMMA ImportInvByTxn ==
  ASSUME ImportInv, NEW w \in Importers, NEW t \in TxnShapes,
         txn' = [txn EXCEPT ![w] = t], UNCHANGED <<assets, holder, accepted>>,
         imports' \in 0..MaxImports, contested \subseteq contested', contested' \subseteq Aliases,
         KeepsToRows(t, holder), KeepsItsWord(t, contested'), StillFree(t, holder, contested'),
         \A v \in Importers \ {w} : /\ ApartFrom(t, txn[v])
                                    /\ AloneOn(t, txn[v], contested') /\ AloneOn(txn[v], t, contested')
  PROVE  ImportInv'
<1>1. /\ txn' \in [Importers -> TxnShapes] /\ txn'[w] = t
      /\ \A v \in Importers \ {w} : txn'[v] = txn[v]
  BY DEF ImportInv
<1>2. ImportTypeOK' /\ AliasesResolve'
  BY DEF ImportInv, ImportTypeOK, AliasesResolve
<1>3. AcceptedAliasesResolve'
  BY DEF ImportInv, AcceptedAliasesResolve
<1>4. \A v \in Importers : /\ KeepsToRows(txn'[v], holder) /\ KeepsItsWord(txn'[v], contested')
                           /\ StillFree(txn'[v], holder, contested')
  <2> SUFFICES ASSUME NEW v \in Importers \ {w}
               PROVE  /\ KeepsToRows(txn[v], holder) /\ KeepsItsWord(txn[v], contested')
                      /\ StillFree(txn[v], holder, contested')
    BY <1>1
  <2>1. KeepsToRows(txn[v], holder) /\ KeepsItsWord(txn[v], contested) /\ StillFree(txn[v], holder, contested)
    BY DEF ImportInv
  <2>2. KeepsItsWord(txn[v], contested')
    BY <2>1 DEF KeepsItsWord
  <2>3. StillFree(txn[v], holder, contested')
    BY <2>1 DEF StillFree
  <2> QED
    BY <2>1, <2>2, <2>3
<1>5. \A u, v \in Importers : u # v => ApartFrom(txn'[u], txn'[v]) /\ AloneOn(txn'[u], txn'[v], contested')
  <2> SUFFICES ASSUME NEW u \in Importers, NEW v \in Importers, u # v
               PROVE  ApartFrom(txn'[u], txn'[v]) /\ AloneOn(txn'[u], txn'[v], contested')
    OBVIOUS
  <2>1. CASE u = w
    BY <2>1, <1>1
  <2>2. CASE v = w
    <3>1. ApartFrom(t, txn[u]) /\ AloneOn(txn[u], t, contested')
      BY <2>2
    <3> QED
      BY <3>1, <2>2, <1>1 DEF ApartFrom
  <2>3. CASE u # w /\ v # w
    <3>1. ApartFrom(txn[u], txn[v]) /\ AloneOn(txn[u], txn[v], contested)
      BY DEF ImportInv
    <3>2. AloneOn(txn[u], txn[v], contested')
      BY <3>1 DEF AloneOn
    <3> QED
      BY <3>1, <3>2, <2>3, <1>1
  <2> QED
    BY <2>1, <2>2, <2>3
<1> QED
  BY <1>1, <1>2, <1>3, <1>4, <1>5 DEF ImportInv

(* The aliases change under an open import by another's commit or by the   *)
(* deletion of an asset: only such as are neither before nor after of a    *)
(* row it has locked, and freed where it inserts.                          *)
LEMMA OtherAliasesMove ==
  ASSUME NEW t \in TxnShapes, NEW owners \in [Aliases -> AssetIds \cup {NoOne}],
         NEW next \in [Aliases -> AssetIds \cup {NoOne}], NEW excused, NoOne \notin AssetIds,
         KeepsToRows(t, owners), StillFree(t, owners, excused),
         \A x \in Aliases : \/ next[x] = owners[x]
                            \/ /\ next[x] \notin t.rows /\ owners[x] \notin t.rows
                               /\ x \in DOMAIN t.put => next[x] = NoOne
                               /\ t.at = "insert" /\ t.alias = x /\ x \notin excused => next[x] = NoOne
  PROVE  KeepsToRows(t, next) /\ StillFree(t, next, excused)
<1>1. /\ t.gone \subseteq t.rows /\ t.rows \subseteq AssetIds /\ t.dropped \subseteq Aliases
      /\ DOMAIN t.put \subseteq Aliases /\ t.wanted \subseteq Aliases
  BY DEF TxnShapes, KeepsToRows, AliasMaps
<1>2. \A x \in t.dropped : next[x] = owners[x]
  BY <1>1 DEF KeepsToRows
<1>3. \A x \in Aliases : next[x] \in t.rows => next[x] = owners[x]
  OBVIOUS
<1>4. \A x \in DOMAIN t.put : x \in t.dropped \/ next[x] = NoOne
  BY <1>1, <1>2 DEF KeepsToRows
<1>5. KeepsToRows(t, next)
  BY <1>1, <1>2, <1>3, <1>4 DEF KeepsToRows
<1>6. StillFree(t, next, excused)
  <2> SUFFICES ASSUME t.at = "insert", t.alias \notin excused
               PROVE  SeenIn(t, next, t.alias) \in {NoOne, EntryOf(t).id}
    BY DEF StillFree
  <2>1. t.alias \in Aliases /\ SeenIn(t, owners, t.alias) \in {NoOne, EntryOf(t).id}
    BY <1>1 DEF KeepsToRows, StillFree
  <2> QED
    BY <2>1 DEF SeenIn
<1> QED
  BY <1>5, <1>6

(* No transaction at all is in order, whoever holds the aliases.           *)
LEMMA NoTxnFits ==
  ASSUME NEW owners \in [Aliases -> AssetIds \cup {NoOne}], NEW excused
  PROVE  /\ NoTxn \in TxnShapes
         /\ KeepsToRows(NoTxn, owners) /\ KeepsItsWord(NoTxn, excused) /\ StillFree(NoTxn, owners, excused)
         /\ \A u \in TxnShapes : /\ ApartFrom(NoTxn, u) /\ AloneOn(NoTxn, u, excused)
                                 /\ ApartFrom(u, NoTxn) /\ AloneOn(u, NoTxn, excused)
<1>1. NoTxn \in TxnShapes
  <2> DEFINE none == [x \in {} |-> NoOne]
             nothing == [a \in {} |-> {}]
  <2>1. none \in AliasMaps
    <3>1. none \in [{} -> AssetIds]
      OBVIOUS
    <3> QED
      BY <3>1 DEF AliasMaps
  <2>2. nothing \in Declarations
    <3>1. nothing \in [{} -> SUBSET Aliases]
      OBVIOUS
    <3> QED
      BY <3>1 DEF Declarations
  <2>3. NoTxn = [at |-> "none", todo |-> <<>>, rows |-> {}, gone |-> {}, dropped |-> {}, put |-> none,
                 wanted |-> {}, alias |-> NoOne, declared |-> nothing]
    BY DEF NoTxn
  <2> HIDE DEF none, nothing
  <2> QED
    BY <2>1, <2>2, <2>3 DEF TxnShapes
<1>2. KeepsToRows(NoTxn, owners)
  BY ImportAssumption DEF KeepsToRows, NoTxn, OnEntry
<1>3. KeepsItsWord(NoTxn, excused) /\ StillFree(NoTxn, owners, excused)
  BY DEF KeepsItsWord, StillFree, NoTxn, OnEntry
<1>4. \A u \in TxnShapes : /\ ApartFrom(NoTxn, u) /\ AloneOn(NoTxn, u, excused)
                          /\ ApartFrom(u, NoTxn) /\ AloneOn(u, NoTxn, excused)
  BY DEF ApartFrom, AloneOn, NoTxn
<1> QED
  BY <1>1, <1>2, <1>3, <1>4

LEMMA ImportInvInit == ImportInit => ImportInv
<1> SUFFICES ASSUME ImportInit PROVE ImportInv
  OBVIOUS
<1>1. /\ assets = {} /\ holder = [x \in Aliases |-> NoOne] /\ txn = [w \in Importers |-> NoTxn]
      /\ imports = 0 /\ accepted = [a \in AssetIds |-> {}] /\ contested = {}
  BY DEF ImportInit
<1>2. holder \in [Aliases -> AssetIds \cup {NoOne}]
  BY <1>1
<1>3. ImportTypeOK /\ AliasesResolve /\ AcceptedAliasesResolve
  BY <1>1, ImportAssumption DEF ImportTypeOK, AliasesResolve, AcceptedAliasesResolve
<1> QED
  BY <1>1, <1>2, <1>3, NoTxnFits DEF ImportInv

LEMMA AssignedAlias ==
  ASSUME NEW f \in AliasMaps, NEW x \in Aliases, NEW a \in AssetIds
  PROVE  /\ Assign(f, x, a) \in AliasMaps /\ DOMAIN Assign(f, x, a) = DOMAIN f \cup {x}
         /\ Assign(f, x, a)[x] = a /\ \A y \in DOMAIN f \ {x} : Assign(f, x, a)[y] = f[y]
<1>1. PICK D \in SUBSET Aliases : f \in [D -> AssetIds]
  BY DEF AliasMaps
<1>2. Assign(f, x, a) \in [D \cup {x} -> AssetIds] /\ D \cup {x} \in SUBSET Aliases
  BY <1>1 DEF Assign
<1> QED
  BY <1>1, <1>2 DEF Assign, AliasMaps

LEMMA AssignedList ==
  ASSUME NEW f \in Declarations, NEW a \in AssetIds, NEW L \in SUBSET Aliases
  PROVE  /\ Assign(f, a, L) \in Declarations /\ DOMAIN Assign(f, a, L) = DOMAIN f \cup {a}
         /\ Assign(f, a, L)[a] = L /\ \A b \in DOMAIN f \ {a} : Assign(f, a, L)[b] = f[b]
<1>1. PICK D \in SUBSET AssetIds : f \in [D -> SUBSET Aliases]
  BY DEF Declarations
<1>2. Assign(f, a, L) \in [D \cup {a} -> SUBSET Aliases] /\ D \cup {a} \in SUBSET AssetIds
  BY <1>1 DEF Assign
<1> QED
  BY <1>1, <1>2 DEF Assign, Declarations

LEMMA EntriesOfTxn ==
  ASSUME NEW t \in TxnShapes, t.todo # <<>>
  PROVE  /\ EntryOf(t) \in Entries /\ EntryOf(t).id \in AssetIds /\ EntryOf(t).aliases \subseteq Aliases
         /\ EntryOf(t).declares \in BOOLEAN /\ (~EntryOf(t).declares => EntryOf(t).aliases = {})
         /\ 1 \in DOMAIN t.todo /\ EntryOf(t) = t.todo[1] /\ Tail(t.todo) \in Seq(Entries)
         /\ \A i \in DOMAIN Tail(t.todo) : i + 1 \in DOMAIN t.todo /\ Tail(t.todo)[i] = t.todo[i + 1]
<1>1. t.todo \in Seq(Entries)
  BY DEF TxnShapes
<1>2. 1 \in DOMAIN t.todo /\ EntryOf(t) = t.todo[1] /\ t.todo[1] \in Entries /\ Tail(t.todo) \in Seq(Entries)
  BY <1>1 DEF EntryOf
<1>3. \A i \in DOMAIN Tail(t.todo) : i + 1 \in DOMAIN t.todo /\ Tail(t.todo)[i] = t.todo[i + 1]
  BY <1>1
<1>4. \A e \in Entries : e.id \in AssetIds /\ e.aliases \subseteq Aliases /\ e.declares \in BOOLEAN
                         /\ (~e.declares => e.aliases = {})
  BY DEF Entries
<1> QED
  BY <1>2, <1>3, <1>4

(* What the aliases are after w has committed, and after an asset went:    *)
(* the steps that move the committed aliases keep the invariant when no    *)
(* other import's rows are concerned.                                      *)
LEMMA ImportInvByTable ==
  ASSUME ImportInv, NEW ended \in SUBSET Importers,
         txn' = [w \in Importers |-> IF w \in ended THEN NoTxn ELSE txn[w]],
         UNCHANGED <<imports, contested>>, assets' \subseteq AssetIds,
         holder' \in [Aliases -> AssetIds \cup {NoOne}], accepted' \in [AssetIds -> SUBSET Aliases],
         AliasesResolve', AcceptedAliasesResolve',
         \A v \in Importers \ ended : \A x \in Aliases :
            \/ holder'[x] = holder[x]
            \/ /\ holder'[x] \notin txn[v].rows /\ holder[x] \notin txn[v].rows
               /\ x \in DOMAIN txn[v].put => holder'[x] = NoOne
               /\ txn[v].at = "insert" /\ txn[v].alias = x /\ x \notin contested => holder'[x] = NoOne
  PROVE  ImportInv'
<1>1. /\ \A w \in Importers : txn[w] \in TxnShapes /\ txn'[w] \in {NoTxn, txn[w]}
      /\ holder \in [Aliases -> AssetIds \cup {NoOne}]
  BY DEF ImportInv, ImportTypeOK
<1>2. NoTxn \in TxnShapes
  BY <1>1, NoTxnFits
<1>3. ImportTypeOK' /\ txn' \in [Importers -> TxnShapes]
  BY <1>1, <1>2 DEF ImportInv, ImportTypeOK
<1>4. ASSUME NEW v \in Importers
      PROVE  /\ KeepsToRows(txn'[v], holder') /\ KeepsItsWord(txn'[v], contested)
             /\ StillFree(txn'[v], holder', contested)
  <2>1. CASE v \in ended
    <3>1. txn'[v] = NoTxn
      BY <2>1
    <3> QED
      BY <3>1, NoTxnFits
  <2>2. CASE v \notin ended
    <3>1. txn'[v] = txn[v]
      BY <2>2
    <3>2. KeepsToRows(txn[v], holder) /\ KeepsItsWord(txn[v], contested) /\ StillFree(txn[v], holder, contested)
      BY DEF ImportInv
    <3>3. \A x \in Aliases :
            \/ holder'[x] = holder[x]
            \/ /\ holder'[x] \notin txn[v].rows /\ holder[x] \notin txn[v].rows
               /\ x \in DOMAIN txn[v].put => holder'[x] = NoOne
               /\ txn[v].at = "insert" /\ txn[v].alias = x /\ x \notin contested => holder'[x] = NoOne
      BY <2>2
    <3>4. KeepsToRows(txn[v], holder') /\ StillFree(txn[v], holder', contested)
      BY <1>1, <3>2, <3>3, OtherAliasesMove, ImportAssumption
    <3> QED
      BY <3>1, <3>2, <3>4
  <2> QED
    BY <2>1, <2>2
<1>5. ASSUME NEW u \in Importers, NEW v \in Importers, u # v
      PROVE  ApartFrom(txn'[u], txn'[v]) /\ AloneOn(txn'[u], txn'[v], contested)
  <2>1. ApartFrom(txn[u], txn[v]) /\ AloneOn(txn[u], txn[v], contested)
    BY <1>5 DEF ImportInv
  <2> QED
    BY <2>1, <1>1, NoTxnFits
<1> QED
  BY <1>3, <1>4, <1>5 DEF ImportInv

LEMMA ImportInvStep == ImportInv /\ [ImportNext]_importVars => ImportInv'
<1> SUFFICES ASSUME ImportInv, [ImportNext]_importVars PROVE ImportInv'
  OBVIOUS
<1>a. /\ NoOne \notin AssetIds /\ MaxImports \in Nat /\ Files \subseteq Seq(Entries)
  BY ImportAssumption
<1>t. /\ holder \in [Aliases -> AssetIds \cup {NoOne}] /\ assets \subseteq AssetIds
      /\ imports \in 0..MaxImports /\ txn \in [Importers -> TxnShapes]
      /\ accepted \in [AssetIds -> SUBSET Aliases] /\ contested \subseteq Aliases
  BY DEF ImportInv, ImportTypeOK
<1>k. \A w \in Importers : /\ txn[w] \in TxnShapes
                           /\ KeepsToRows(txn[w], holder) /\ KeepsItsWord(txn[w], contested)
                           /\ StillFree(txn[w], holder, contested)
  BY <1>t DEF ImportInv
<1>o. \A w, v \in Importers : w # v => ApartFrom(txn[w], txn[v]) /\ AloneOn(txn[w], txn[v], contested)
  BY DEF ImportInv
<1>s. \A w \in Importers, x \in Aliases : Seen(w, x) = SeenIn(txn[w], holder, x)
  BY DEF Seen, SeenIn
<1>1. ASSUME NEW w \in Importers, NEW csv \in Files, NEW replace \in BOOLEAN, BeginImport(w, csv, replace)
      PROVE  ImportInv'
  <2> DEFINE gone == IF replace /\ csv # <<>>
                       THEN assets \ {csv[i].id : i \in DOMAIN csv} ELSE {}
             t == [NoTxn EXCEPT !.at = "row", !.todo = csv, !.rows = gone,
                                !.gone = gone, !.dropped = HeldBy(gone)]
  <2>1. /\ txn' = [txn EXCEPT ![w] = t] /\ imports' = imports + 1 /\ imports < MaxImports
        /\ UNCHANGED <<assets, holder, accepted, contested>>
        /\ \A a \in gone : ~LockedRow(w, a)
    BY <1>1 DEF BeginImport, Update
  <2>2. gone \subseteq AssetIds /\ HeldBy(gone) \subseteq Aliases /\ csv \in Seq(Entries)
        /\ \A i \in DOMAIN csv : csv[i].id \notin gone
    BY <1>a, <1>t DEF HeldBy
  <2>3. NoTxn \in TxnShapes
    BY <1>t, NoTxnFits
  <2> HIDE DEF gone
  <2>4. t \in TxnShapes /\ t.at = "row" /\ t.todo = csv /\ t.rows = gone /\ t.gone = gone /\ t.dropped = HeldBy(gone)
        /\ DOMAIN t.put = {} /\ DOMAIN t.declared = {}
    <3>1. t \in TxnShapes
      BY <2>2, <2>3 DEF TxnShapes
    <3> QED
      BY <3>1 DEF NoTxn
  <2> HIDE DEF t
  <2>5. KeepsToRows(t, holder)
    BY <2>2, <2>4 DEF KeepsToRows, OnEntry, HeldBy
  <2>6. KeepsItsWord(t, contested') /\ StillFree(t, holder, contested')
    BY <2>4 DEF KeepsItsWord, StillFree, OnEntry
  <2>7. ASSUME NEW v \in Importers \ {w}
        PROVE  ApartFrom(t, txn[v]) /\ AloneOn(t, txn[v], contested') /\ AloneOn(txn[v], t, contested')
    <3>1. gone \cap txn[v].rows = {}
      BY <2>1 DEF LockedRow
    <3>2. AloneOn(txn[v], txn[w], contested)
      BY <1>o
    <3> QED
      BY <3>1, <3>2, <2>1, <2>4 DEF ApartFrom, AloneOn
  <2>8. imports' \in 0..MaxImports
    BY <2>1, <1>t, <1>a
  <2> QED
    BY <2>1, <2>4, <2>5, <2>6, <2>7, <2>8, <1>t, ImportInvByTxn
<1>2. ASSUME NEW w \in Importers, UpsertRow(w) PROVE ImportInv'
  <2> DEFINE r == txn[w]
             e == EntryOf(r)
             t == [r EXCEPT !.at = "alias", !.rows = @ \cup {e.id}, !.wanted = e.aliases,
                            !.dropped = IF e.declares THEN @ \cup HeldBy({e.id}) ELSE @]
  <2>1. /\ txn' = [txn EXCEPT ![w] = t] /\ r.at = "row" /\ r.todo # <<>> /\ ~LockedRow(w, e.id)
        /\ UNCHANGED <<assets, holder, imports, accepted, contested>>
    BY <1>2 DEF UpsertRow, Update, Entry, EntryOf
  <2>2. r \in TxnShapes /\ KeepsToRows(r, holder) /\ KeepsItsWord(r, contested)
    BY <1>k
  <2>3. /\ e.id \in AssetIds /\ e.aliases \subseteq Aliases /\ e.declares \in BOOLEAN /\ e.id \notin r.gone
        /\ HeldBy({e.id}) = {x \in Aliases : holder[x] = e.id}
    <3>1. /\ e.id \in AssetIds /\ e.aliases \subseteq Aliases /\ e.declares \in BOOLEAN
          /\ 1 \in DOMAIN r.todo /\ e = r.todo[1]
      BY <2>1, <2>2, EntriesOfTxn
    <3>2. e.id \notin r.gone
      BY <2>2, <3>1 DEF KeepsToRows
    <3>3. HeldBy({e.id}) = {x \in Aliases : holder[x] = e.id}
      BY DEF HeldBy
    <3> QED
      BY <3>1, <3>2, <3>3
  <2>4. /\ t \in TxnShapes /\ t.at = "alias" /\ t.rows = r.rows \cup {e.id} /\ t.wanted = e.aliases
        /\ t.dropped = (IF e.declares THEN r.dropped \cup HeldBy({e.id}) ELSE r.dropped)
        /\ t.todo = r.todo /\ t.gone = r.gone /\ t.put = r.put /\ t.declared = r.declared /\ EntryOf(t) = e
    <3>1. /\ r.rows \cup {e.id} \in SUBSET AssetIds /\ e.aliases \in SUBSET Aliases
          /\ (IF e.declares THEN r.dropped \cup HeldBy({e.id}) ELSE r.dropped) \in SUBSET Aliases
      BY <2>2, <2>3 DEF TxnShapes
    <3> HIDE DEF e
    <3> QED
      BY <2>2, <3>1 DEF TxnShapes, EntryOf, e
  <2> HIDE DEF t, e, r
  <2>5. KeepsToRows(t, holder)
    BY <2>1, <2>2, <2>3, <2>4 DEF KeepsToRows, OnEntry
  <2>6. KeepsItsWord(t, contested') /\ StillFree(t, holder, contested')
    BY <2>1, <2>2, <2>4 DEF KeepsItsWord, StillFree, OnEntry
  <2>7. ASSUME NEW v \in Importers \ {w}
        PROVE  ApartFrom(t, txn[v]) /\ AloneOn(t, txn[v], contested') /\ AloneOn(txn[v], t, contested')
    <3>1. e.id \notin txn[v].rows
      BY <2>1 DEF LockedRow
    <3>2. ApartFrom(r, txn[v]) /\ AloneOn(txn[v], r, contested)
      BY <1>o DEF r
    <3> QED
      BY <3>1, <3>2, <2>1, <2>4 DEF ApartFrom, AloneOn
  <2> QED
    BY <2>1, <2>4, <2>5, <2>6, <2>7, <1>t, ImportInvByTxn
<1>3. ASSUME NEW w \in Importers, RefuseFile(w) \/ AbortImport(w) PROVE ImportInv'
  <2>1. txn' = [txn EXCEPT ![w] = NoTxn] /\ UNCHANGED <<assets, holder, imports, accepted, contested>>
    BY <1>3 DEF RefuseFile, AbortImport, Update
  <2>2. NoTxn \in TxnShapes /\ KeepsToRows(NoTxn, holder) /\ KeepsItsWord(NoTxn, contested')
        /\ StillFree(NoTxn, holder, contested')
        /\ \A v \in Importers \ {w} : /\ ApartFrom(NoTxn, txn[v]) /\ AloneOn(NoTxn, txn[v], contested')
                                      /\ AloneOn(txn[v], NoTxn, contested')
    BY <2>1, <1>t, NoTxnFits
  <2> QED
    BY <2>1, <2>2, <1>t, ImportInvByTxn
<1>4. ASSUME NEW w \in Importers, CheckAlias(w) PROVE ImportInv'
  <2> DEFINE r == txn[w]
  <2>1. /\ r.at = "alias" /\ UNCHANGED <<assets, holder, imports, accepted>>
        /\ \E x \in r.wanted : /\ ~AliasTaken(w, x) /\ txn' = [txn EXCEPT ![w] = [r EXCEPT !.at = "insert", !.alias = x]]
                               /\ contested' = IF \E v \in Importers \ {w} :
                                                     \/ x \in DOMAIN txn[v].put
                                                     \/ txn[v].at = "insert" /\ txn[v].alias = x
                                               THEN contested \cup {x} ELSE contested
    BY <1>4 DEF CheckAlias, Update
  <2>2. PICK x \in r.wanted : /\ ~AliasTaken(w, x) /\ txn' = [txn EXCEPT ![w] = [r EXCEPT !.at = "insert", !.alias = x]]
                              /\ contested' = IF \E v \in Importers \ {w} :
                                                     \/ x \in DOMAIN txn[v].put
                                                     \/ txn[v].at = "insert" /\ txn[v].alias = x
                                               THEN contested \cup {x} ELSE contested
    BY <2>1
  <2> DEFINE t == [r EXCEPT !.at = "insert", !.alias = x]
  <2>3. r \in TxnShapes /\ KeepsToRows(r, holder) /\ KeepsItsWord(r, contested) /\ x \in r.wanted /\ r.wanted \subseteq Aliases
    BY <1>k, <2>2 DEF TxnShapes
  <2>4. /\ t \in TxnShapes /\ t.at = "insert" /\ t.alias = x /\ t.rows = r.rows /\ t.wanted = r.wanted
        /\ t.dropped = r.dropped /\ t.todo = r.todo /\ t.gone = r.gone /\ t.put = r.put /\ t.declared = r.declared
        /\ EntryOf(t) = EntryOf(r) /\ \A y : SeenIn(t, holder, y) = SeenIn(r, holder, y)
    BY <2>3 DEF TxnShapes, EntryOf, SeenIn
  <2>5. Seen(w, x) = SeenIn(r, holder, x) /\ SeenIn(r, holder, x) \in {NoOne, EntryOf(r).id}
    BY <2>2, <2>3, <1>s DEF AliasTaken, Entry, EntryOf
  <2>6. txn' = [txn EXCEPT ![w] = t] /\ contested \subseteq contested' /\ contested' \subseteq Aliases
    BY <2>2, <2>3, <1>t
  <2>7. x \notin contested' => \A v \in Importers \ {w} : x \notin DOMAIN txn[v].put
                                                          /\ ~(txn[v].at = "insert" /\ txn[v].alias = x)
    BY <2>2
  <2> HIDE DEF t, r
  <2>8. KeepsToRows(t, holder)
    BY <2>1, <2>3, <2>4 DEF KeepsToRows, OnEntry
  <2>9. KeepsItsWord(t, contested') /\ StillFree(t, holder, contested')
    BY <2>1, <2>3, <2>4, <2>5, <2>6 DEF KeepsItsWord, StillFree, OnEntry
  <2>10. ASSUME NEW v \in Importers \ {w}
         PROVE  ApartFrom(t, txn[v]) /\ AloneOn(t, txn[v], contested') /\ AloneOn(txn[v], t, contested')
    <3>1. ApartFrom(r, txn[v]) /\ AloneOn(txn[v], r, contested)
      BY <1>o DEF r
    <3> QED
      BY <3>1, <2>4, <2>6, <2>7 DEF ApartFrom, AloneOn
  <2> QED
    BY <2>1, <2>4, <2>6, <2>8, <2>9, <2>10, <1>t, ImportInvByTxn
<1>5. ASSUME NEW w \in Importers, InsertAlias(w) PROVE ImportInv'
  <2> DEFINE r == txn[w]
             x == r.alias
             e == EntryOf(r)
             p == IF Writable(w, x) THEN Assign(r.put, x, e.id) ELSE r.put
             t == [r EXCEPT !.at = "alias", !.wanted = @ \ {x}, !.alias = NoOne, !.put = p]
  <2>1. /\ txn' = [txn EXCEPT ![w] = t] /\ r.at = "insert" /\ ~LockedAlias(w, x)
        /\ UNCHANGED <<assets, holder, imports, accepted, contested>>
    BY <1>5 DEF InsertAlias, Update, Entry, EntryOf
  <2>2. r \in TxnShapes /\ KeepsToRows(r, holder) /\ KeepsItsWord(r, contested) /\ StillFree(r, holder, contested)
    BY <1>k
  <2>3. x \in r.wanted /\ r.wanted \subseteq e.aliases /\ r.wanted \subseteq Aliases /\ r.todo # <<>> /\ e.id \in r.rows
    BY <2>1, <2>2 DEF KeepsToRows, OnEntry, TxnShapes
  <2>4. /\ e.id \in AssetIds /\ e.declares /\ e.id \notin r.gone
    <3>1. /\ e.id \in AssetIds /\ (~e.declares => e.aliases = {})
          /\ e.declares \in BOOLEAN /\ 1 \in DOMAIN r.todo /\ e = r.todo[1]
      BY <2>2, <2>3, EntriesOfTxn
    <3> QED
      BY <2>2, <2>3, <3>1 DEF KeepsToRows
  <2>5. Seen(w, x) = SeenIn(r, holder, x) /\ (x \notin contested => SeenIn(r, holder, x) \in {NoOne, e.id})
    BY <2>1, <2>2, <2>3, <1>s DEF StillFree
  <2>6. r.put \in AliasMaps /\ DOMAIN r.put \subseteq Aliases /\ r.rows \subseteq AssetIds
    BY <2>2 DEF TxnShapes, AliasMaps
  <2>7. CASE Writable(w, x)
    <3>1. SeenIn(r, holder, x) = NoOne
      BY <2>7, <2>3, <1>s DEF Writable
    <3>2. x \notin DOMAIN r.put /\ (x \in r.dropped \/ holder[x] = NoOne)
      BY <3>1, <2>2, <2>6, <1>a DEF SeenIn, KeepsToRows
    <3>3. /\ p \in AliasMaps /\ DOMAIN p = DOMAIN r.put \cup {x} /\ p[x] = e.id
          /\ \A y \in DOMAIN r.put : p[y] = r.put[y]
      <4>1. x \in Aliases /\ p = Assign(r.put, x, e.id)
        BY <2>3, <2>7
      <4> HIDE DEF p, x, e, r
      <4>2. /\ Assign(r.put, x, e.id) \in AliasMaps /\ DOMAIN Assign(r.put, x, e.id) = DOMAIN r.put \cup {x}
            /\ Assign(r.put, x, e.id)[x] = e.id
            /\ \A y \in DOMAIN r.put \ {x} : Assign(r.put, x, e.id)[y] = r.put[y]
        BY <4>1, <2>4, <2>6, AssignedAlias
      <4> QED
        BY <4>1, <4>2, <3>2
    <3> HIDE DEF p, e
    <3>4. /\ t \in TxnShapes /\ t.at = "alias" /\ t.rows = r.rows /\ t.wanted = r.wanted \ {x}
          /\ t.dropped = r.dropped /\ t.todo = r.todo /\ t.gone = r.gone /\ t.put = p
          /\ t.declared = r.declared /\ EntryOf(t) = e
      BY <2>2, <3>3 DEF TxnShapes, EntryOf, e
    <3>5. \A v \in Importers \ {w} : x \notin DOMAIN txn[v].put
      BY <2>1 DEF LockedAlias
    <3>6. \A v \in Importers \ {w} : ApartFrom(r, txn[v]) /\ AloneOn(txn[v], r, contested)
      BY <1>o
    <3> HIDE DEF t, r
    <3>7. EntryOf(r) = e /\ x = r.alias
      BY DEF e
    <3> HIDE DEF x
    <3>8. KeepsToRows(t, holder)
      BY <2>1, <2>2, <2>3, <2>4, <3>2, <3>3, <3>4, <3>7 DEF KeepsToRows, OnEntry
    <3>9. KeepsItsWord(t, contested')
      BY <2>1, <2>2, <2>3, <3>2, <3>3, <3>4, <3>7 DEF KeepsItsWord, OnEntry
    <3>10. StillFree(t, holder, contested')
      BY <3>4 DEF StillFree
    <3>11. \A v \in Importers \ {w} :
              ApartFrom(t, txn[v]) /\ AloneOn(t, txn[v], contested') /\ AloneOn(txn[v], t, contested')
      BY <2>1, <3>3, <3>4, <3>5, <3>6, <3>7 DEF ApartFrom, AloneOn
    <3> QED
      BY <2>1, <3>4, <3>8, <3>9, <3>10, <3>11, <1>t, ImportInvByTxn
  <2>8. CASE ~Writable(w, x)
    <3>1. SeenIn(r, holder, x) # NoOne /\ p = r.put
      BY <2>8, <2>3, <1>s DEF Writable
    <3>2. x \notin contested => x \in DOMAIN r.put /\ r.put[x] = e.id
      BY <3>1, <2>1, <2>2, <2>3, <2>4, <2>5 DEF SeenIn, KeepsToRows, OnEntry
    <3> HIDE DEF p, e
    <3>4. /\ t \in TxnShapes /\ t.at = "alias" /\ t.rows = r.rows /\ t.wanted = r.wanted \ {x}
          /\ t.dropped = r.dropped /\ t.todo = r.todo /\ t.gone = r.gone /\ t.put = r.put
          /\ t.declared = r.declared /\ EntryOf(t) = e
      BY <2>2, <3>1 DEF TxnShapes, EntryOf, e
    <3>6. \A v \in Importers \ {w} : ApartFrom(r, txn[v]) /\ AloneOn(txn[v], r, contested)
      BY <1>o
    <3> HIDE DEF t, r
    <3>7. EntryOf(r) = e /\ x = r.alias
      BY DEF e
    <3> HIDE DEF x
    <3>8. KeepsToRows(t, holder)
      BY <2>1, <2>2, <2>3, <3>4, <3>7 DEF KeepsToRows, OnEntry
    <3>9. KeepsItsWord(t, contested')
      BY <2>1, <2>2, <2>3, <3>2, <3>4, <3>7 DEF KeepsItsWord, OnEntry
    <3>10. StillFree(t, holder, contested')
      BY <3>4 DEF StillFree
    <3>11. \A v \in Importers \ {w} :
              ApartFrom(t, txn[v]) /\ AloneOn(t, txn[v], contested') /\ AloneOn(txn[v], t, contested')
      BY <2>1, <3>4, <3>6, <3>7 DEF ApartFrom, AloneOn
    <3> QED
      BY <2>1, <3>4, <3>8, <3>9, <3>10, <3>11, <1>t, ImportInvByTxn
  <2> QED
    BY <2>7, <2>8
<1>6. ASSUME NEW w \in Importers, NextEntry(w) PROVE ImportInv'
  <2> DEFINE r == txn[w]
             e == EntryOf(r)
             d == IF e.declares THEN Assign(r.declared, e.id, e.aliases) ELSE r.declared
             t == [r EXCEPT !.at = "row", !.todo = Tail(@), !.declared = d]
  <2>1. /\ txn' = [txn EXCEPT ![w] = t] /\ r.at = "alias" /\ r.wanted = {}
        /\ UNCHANGED <<assets, holder, imports, accepted, contested>>
    BY <1>6 DEF NextEntry, Update, Entry, EntryOf
  <2>2. r \in TxnShapes /\ KeepsToRows(r, holder) /\ KeepsItsWord(r, contested)
    BY <1>k
  <2>3. r.todo # <<>> /\ e.id \in r.rows
    BY <2>1, <2>2 DEF KeepsToRows, OnEntry
  <2>4. /\ e.id \in AssetIds /\ e.aliases \subseteq Aliases /\ e.declares \in BOOLEAN /\ e.id \notin r.gone
        /\ Tail(r.todo) \in Seq(Entries) /\ \A i \in DOMAIN Tail(r.todo) : Tail(r.todo)[i].id \notin r.gone
    <3>1. /\ e.id \in AssetIds /\ e.aliases \subseteq Aliases /\ e.declares \in BOOLEAN
          /\ 1 \in DOMAIN r.todo /\ e = r.todo[1] /\ Tail(r.todo) \in Seq(Entries)
          /\ \A i \in DOMAIN Tail(r.todo) : i + 1 \in DOMAIN r.todo /\ Tail(r.todo)[i] = r.todo[i + 1]
      BY <2>2, <2>3, EntriesOfTxn
    <3> QED
      BY <2>2, <3>1 DEF KeepsToRows
  <2>5. r.declared \in Declarations /\ r.rows \subseteq AssetIds
    BY <2>2 DEF TxnShapes
  <2>6. /\ d \in Declarations /\ DOMAIN d = (IF e.declares THEN DOMAIN r.declared \cup {e.id} ELSE DOMAIN r.declared)
        /\ \A a \in DOMAIN d : d[a] = IF e.declares /\ a = e.id THEN e.aliases ELSE r.declared[a]
    <3>1. CASE e.declares
      <4>1. d = Assign(r.declared, e.id, e.aliases)
        BY <3>1
      <4> HIDE DEF d, e, r
      <4>2. /\ Assign(r.declared, e.id, e.aliases) \in Declarations
            /\ DOMAIN Assign(r.declared, e.id, e.aliases) = DOMAIN r.declared \cup {e.id}
            /\ Assign(r.declared, e.id, e.aliases)[e.id] = e.aliases
            /\ \A b \in DOMAIN r.declared \ {e.id} : Assign(r.declared, e.id, e.aliases)[b] = r.declared[b]
        <5>1. e.aliases \in SUBSET Aliases /\ e.id \in AssetIds /\ r.declared \in Declarations
          BY <2>4, <2>5
        <5> QED
          BY <5>1, AssignedList
      <4> QED
        BY <4>1, <4>2, <3>1
    <3>2. CASE ~e.declares
      BY <3>2, <2>5
    <3> QED
      BY <3>1, <3>2
  <2> HIDE DEF d, e
  <2>7. /\ t \in TxnShapes /\ t.at = "row" /\ t.rows = r.rows /\ t.wanted = r.wanted
        /\ t.dropped = r.dropped /\ t.todo = Tail(r.todo) /\ t.gone = r.gone /\ t.put = r.put /\ t.declared = d
    BY <2>2, <2>4, <2>6 DEF TxnShapes
  <2>8. \A v \in Importers \ {w} : ApartFrom(r, txn[v]) /\ AloneOn(txn[v], r, contested)
    BY <1>o
  <2> HIDE DEF t, r
  <2>9. EntryOf(r) = e
    BY DEF e
  <2>10. KeepsToRows(t, holder)
    BY <2>1, <2>2, <2>3, <2>4, <2>6, <2>7, <2>9 DEF KeepsToRows, OnEntry
  <2>11. KeepsItsWord(t, contested') /\ StillFree(t, holder, contested')
    BY <2>1, <2>2, <2>3, <2>4, <2>6, <2>7, <2>9 DEF KeepsItsWord, StillFree, OnEntry
  <2>12. \A v \in Importers \ {w} :
            ApartFrom(t, txn[v]) /\ AloneOn(t, txn[v], contested') /\ AloneOn(txn[v], t, contested')
    BY <2>1, <2>7, <2>8 DEF ApartFrom, AloneOn
  <2> QED
    BY <2>1, <2>7, <2>10, <2>11, <2>12, <1>t, ImportInvByTxn
<1>7. ASSUME NEW w \in Importers, CommitImport(w) PROVE ImportInv'
  <2> DEFINE t == txn[w]
  <2>1. /\ t.at = "row" /\ assets' = (assets \ t.gone) \cup (t.rows \ t.gone)
        /\ holder' = [x \in Aliases |-> SeenIn(t, holder, x)]
        /\ accepted' = [a \in AssetIds |-> IF a \in DOMAIN t.declared THEN t.declared[a]
                                            ELSE IF a \in t.gone THEN {} ELSE accepted[a]]
        /\ txn' = [txn EXCEPT ![w] = NoTxn] /\ UNCHANGED <<imports, contested>>
    <3>1. holder' = [x \in Aliases |-> Seen(w, x)]
      BY <1>7 DEF CommitImport
    <3> QED
      BY <1>7, <1>s, <3>1 DEF CommitImport, Update
  <2>2. t \in TxnShapes /\ KeepsToRows(t, holder) /\ KeepsItsWord(t, contested)
    BY <1>k
  <2>3. \A v \in Importers \ {w} : /\ ApartFrom(t, txn[v]) /\ ApartFrom(txn[v], t)
                                    /\ KeepsToRows(txn[v], holder) /\ AloneOn(txn[v], t, contested)
                                    /\ txn[v] \in TxnShapes
    BY <1>o, <1>k
  <2>4. /\ t.rows \subseteq AssetIds /\ t.gone \subseteq t.rows /\ DOMAIN t.put \subseteq Aliases
        /\ t.dropped \subseteq Aliases /\ \A x \in DOMAIN t.put : t.put[x] \in t.rows \ t.gone
        /\ \A a \in DOMAIN t.declared : t.declared[a] \in SUBSET Aliases
    BY <2>2 DEF KeepsToRows, TxnShapes, AliasMaps, Declarations
  <2> HIDE DEF t
  <2>5. \A x \in Aliases : holder'[x] = IF x \in DOMAIN t.put THEN t.put[x]
                                        ELSE IF x \in t.dropped THEN NoOne ELSE holder[x]
    BY <2>1 DEF SeenIn
  <2>6. /\ holder' \in [Aliases -> AssetIds \cup {NoOne}] /\ assets' \subseteq AssetIds
        /\ accepted' \in [AssetIds -> SUBSET Aliases]
    <3>1. \A x \in Aliases : SeenIn(t, holder, x) \in AssetIds \cup {NoOne}
      BY <2>4, <1>t DEF SeenIn
    <3>2. \A a \in AssetIds : accepted'[a] \in SUBSET Aliases
      BY <2>1, <2>4, <1>t
    <3> QED
      BY <2>1, <2>4, <3>1, <3>2, <1>t
  <2>7. AliasesResolve'
    <3>1. \A x \in Aliases : holder[x] \in assets \cup {NoOne} /\ (holder[x] \in t.gone => x \in t.dropped)
      BY <2>2 DEF ImportInv, AliasesResolve, KeepsToRows
    <3> QED
      BY <2>1, <2>4, <2>5, <3>1 DEF AliasesResolve
  <2>8. AcceptedAliasesResolve'
    <3> SUFFICES ASSUME NEW a \in AssetIds, NEW x \in accepted'[a] \ contested PROVE holder'[x] = a
      BY <2>1 DEF AcceptedAliasesResolve
    <3>1. x \in Aliases
      BY <2>6
    <3>2. CASE a \in DOMAIN t.declared
      <4>1. accepted'[a] = t.declared[a]
        BY <3>2, <2>1
      <4>2. x \in DOMAIN t.put /\ t.put[x] = a
        BY <4>1, <3>2, <2>2 DEF KeepsItsWord
      <4> QED
        BY <4>2, <3>1, <2>5
    <3>3. CASE a \notin DOMAIN t.declared
      <4>1. a \notin t.gone /\ accepted'[a] = accepted[a]
        BY <3>3, <2>1
      <4>2. holder[x] = a
        BY <4>1 DEF ImportInv, AcceptedAliasesResolve
      <4>3. x \notin t.dropped
        BY <4>1, <4>2, <3>3, <2>1, <2>2 DEF KeepsToRows, OnEntry
      <4>4. x \notin DOMAIN t.put
        BY <4>2, <4>3, <2>2, <1>a DEF KeepsToRows
      <4> QED
        BY <4>2, <4>3, <4>4, <3>1, <2>5
    <3> QED
      BY <3>2, <3>3
  <2>9. ASSUME NEW v \in Importers \ {w}, NEW x \in Aliases
        PROVE  \/ holder'[x] = holder[x]
               \/ /\ holder'[x] \notin txn[v].rows /\ holder[x] \notin txn[v].rows
                  /\ x \in DOMAIN txn[v].put => holder'[x] = NoOne
                  /\ txn[v].at = "insert" /\ txn[v].alias = x /\ x \notin contested => holder'[x] = NoOne
    <3>1. NoOne \notin txn[v].rows /\ txn[v].rows \cap t.rows = {} /\ DOMAIN txn[v].put \cap DOMAIN t.put = {}
      BY <2>3, <1>a DEF TxnShapes, ApartFrom
    <3>2. CASE x \in DOMAIN t.put
      <4>1. holder'[x] = t.put[x] /\ t.put[x] \in t.rows /\ (holder[x] \in t.rows \/ holder[x] = NoOne)
        BY <3>2, <2>2, <2>4, <2>5 DEF KeepsToRows
      <4>2. x \notin DOMAIN txn[v].put
            /\ ~(txn[v].at = "insert" /\ txn[v].alias = x /\ x \notin contested)
        BY <3>1, <3>2, <2>3 DEF AloneOn
      <4> QED
        BY <4>1, <4>2, <3>1
    <3>3. CASE x \notin DOMAIN t.put /\ x \in t.dropped
      <4>1. holder'[x] = NoOne /\ holder[x] \in t.rows
        BY <3>3, <2>2, <2>5 DEF KeepsToRows
      <4> QED
        BY <4>1, <3>1
    <3>4. CASE x \notin DOMAIN t.put /\ x \notin t.dropped
      BY <3>4, <2>5
    <3> QED
      BY <3>2, <3>3, <3>4
  <2>10. txn' = [v \in Importers |-> IF v \in {w} THEN NoTxn ELSE txn[v]] /\ {w} \in SUBSET Importers
    BY <2>1, <1>t
  <2> QED
    BY <2>1, <2>6, <2>7, <2>8, <2>9, <2>10, ImportInvByTable
<1>8. ASSUME NEW a \in AssetIds, DeleteAsset(a) PROVE ImportInv'
  <2>1. /\ \A w \in Importers : a \notin txn[w].rows
        /\ assets' = assets \ {a} /\ accepted' = [accepted EXCEPT ![a] = {}]
        /\ holder' = [x \in Aliases |-> IF holder[x] = a THEN NoOne ELSE holder[x]]
        /\ UNCHANGED <<txn, imports, contested>>
    BY <1>8 DEF DeleteAsset
  <2>2. /\ holder' \in [Aliases -> AssetIds \cup {NoOne}] /\ assets' \subseteq AssetIds
        /\ accepted' \in [AssetIds -> SUBSET Aliases]
    BY <2>1, <1>t
  <2>3. AliasesResolve'
    BY <2>1 DEF ImportInv, AliasesResolve
  <2>4. AcceptedAliasesResolve'
    BY <2>1, <1>t DEF ImportInv, AcceptedAliasesResolve
  <2>5. \A v \in Importers \ {}, x \in Aliases :
            \/ holder'[x] = holder[x]
            \/ holder'[x] = NoOne /\ holder'[x] \notin txn[v].rows /\ holder[x] \notin txn[v].rows
    BY <2>1, <1>k, <1>a DEF TxnShapes
  <2>6. txn' = [v \in Importers |-> IF v \in {} THEN NoTxn ELSE txn[v]] /\ {} \in SUBSET Importers
    BY <2>1, <1>t
  <2>7. UNCHANGED <<imports, contested>>
    BY <2>1
  <2> QED
    BY <2>2, <2>3, <2>4, <2>5, <2>6, <2>7, ImportInvByTable
<1>9. CASE UNCHANGED importVars
  BY <1>9 DEF importVars, ImportInv, ImportTypeOK, AliasesResolve, AcceptedAliasesResolve
<1> QED
  BY <1>1, <1>2, <1>3, <1>4, <1>5, <1>6, <1>7, <1>8, <1>9 DEF ImportNext

(* Whatever imports run side by side and wherever one is refused, breaks   *)
(* off or commits, no alias resolves to an asset that is gone, and what an *)
(* accepted file declared is what resolves, but for an alias two imports   *)
(* were inserting at the same time (db.apply_asset_import).                *)
THEOREM RegistryStaysResolved == ImportSpec => []RegistryResolves
<1>1. ImportInv => RegistryResolves
  BY DEF ImportInv, RegistryResolves
<1> QED
  BY <1>1, ImportInvInit, ImportInvStep, PTL DEF ImportSpec

-----------------------------------------------------------------------------
(***************************************************************************)
(* DataModels, the caches.  While a worker loads the registry it holds the *)
(* engine's lock, so the handle is absent until it answers; a gate in hand *)
(* of the present generation is of the present handle; and both walls      *)
(* stand no further than their length behind the last edit that mattered.  *)
(***************************************************************************)
Registries == Revisions \cup {NoRegistry}
WorkerShapes == [at : {"rest", "resolve", "loading", "bind"}, rule : BoundRules \cup {NoRegistry},
                 stamp : Nat, since : Nat, reg : Registries]

\* The moment that a failure still remembered can last have been true of the file.
LastUnsound == IF file \in Revisions THEN soundSince ELSE clock

GateTyped ==
    /\ cached \in Registries /\ resolved \in Registries /\ generation \in Nat
    /\ clock \in Nat /\ soundSince \in 0..clock /\ failedUntil \in Int /\ retryAt \in Int
    /\ worker \in [GateWorkers -> WorkerShapes]
    /\ \A w \in GateWorkers : worker[w].since <= clock /\ worker[w].stamp <= generation

LoaderHoldsLock ==
    \A w \in GateWorkers : worker[w].at = "loading" => engineLock = w /\ resolved = NoRegistry

BinderIsCurrent ==
    \A w \in GateWorkers : worker[w].at = "bind" /\ worker[w].stamp = generation =>
        worker[w].reg = resolved /\ resolved \in Revisions

WallsStandNear ==
    /\ failedUntil <= LastUnsound + Wall
    /\ retryAt <= LastUnsound + 2 * Wall

GateInv ==
    /\ GateTyped /\ LoaderHoldsLock /\ BinderIsCurrent /\ WallsStandNear
    /\ GatesAreCurrent /\ EngineFollowsReload /\ RecoversWithinTwoWalls

LEMMA GateInvInit == GateInit => GateInv
<1> SUFFICES ASSUME GateInit PROVE GateInv
  OBVIOUS
<1>1. AtRest \in WorkerShapes /\ AtRest.at = "rest" /\ AtRest.since = 0 /\ AtRest.stamp = 0
  BY DEF AtRest, WorkerShapes, Registries
<1>2. \A w \in GateWorkers : worker[w] = AtRest
  BY DEF GateInit
<1>3. GateTyped
  BY <1>1, <1>2 DEF GateInit, GateTyped, Registries
<1>4. LoaderHoldsLock /\ BinderIsCurrent
  BY <1>1, <1>2 DEF LoaderHoldsLock, BinderIsCurrent
<1>5. WallsStandNear
  BY <1>3, GateAssumption DEF GateInit, WallsStandNear, LastUnsound, GateTyped
<1>6. GatesAreCurrent /\ EngineFollowsReload
  BY DEF GateInit, GatesAreCurrent, EngineFollowsReload
<1>7. RecoversWithinTwoWalls
  BY DEF GateInit, RecoversWithinTwoWalls
<1> QED
  BY <1>3, <1>4, <1>5, <1>6, <1>7 DEF GateInv

(* A step of one worker that leaves the registry, the file and the handle  *)
(* alone keeps the invariant if what it leaves the worker with is in order.*)
LEMMA GateInvByWorker ==
  ASSUME GateInv, NEW w \in GateWorkers, NEW p \in WorkerShapes, worker' = [worker EXCEPT ![w] = p],
         UNCHANGED <<file, soundSince, cached, failedUntil, resolved, retryAt, generation, operator, clock>>,
         p.since <= clock, p.stamp <= generation,
         engineLock' = engineLock \/ engineLock = NoRegistry,
         p.at = "loading" => engineLock' = w /\ resolved = NoRegistry,
         p.at = "bind" /\ p.stamp = generation => p.reg = resolved /\ resolved \in Revisions,
         GatesAreCurrent', RecoversWithinTwoWalls'
  PROVE  GateInv'
<1>1. worker' \in [GateWorkers -> WorkerShapes] /\ worker'[w] = p
      /\ \A v \in GateWorkers \ {w} : worker'[v] = worker[v]
  BY DEF GateInv, GateTyped
<1>2. GateTyped'
  BY <1>1 DEF GateInv, GateTyped
<1>3. LoaderHoldsLock'
  BY <1>1, GateAssumption DEF GateInv, LoaderHoldsLock
<1>4. BinderIsCurrent'
  BY <1>1 DEF GateInv, BinderIsCurrent
<1>5. WallsStandNear' /\ EngineFollowsReload'
  BY DEF GateInv, WallsStandNear, LastUnsound, EngineFollowsReload
<1> QED
  BY <1>2, <1>3, <1>4, <1>5 DEF GateInv

LEMMA GateInvStep == GateInv /\ [GateNext]_gateVars => GateInv'
<1> SUFFICES ASSUME GateInv, [GateNext]_gateVars PROVE GateInv'
  OBVIOUS
<1>i. GateTyped /\ LoaderHoldsLock /\ BinderIsCurrent /\ WallsStandNear
      /\ GatesAreCurrent /\ EngineFollowsReload /\ RecoversWithinTwoWalls
  BY DEF GateInv
<1>c. /\ NoRegistry \notin Revisions \cup GateWorkers /\ Broken \notin Revisions
      /\ Wall \in Nat /\ LoadTicks \in Nat
  BY GateAssumption
<1>t. /\ cached \in Registries /\ resolved \in Registries /\ generation \in Nat
      /\ clock \in Nat /\ soundSince \in Nat /\ soundSince <= clock /\ failedUntil \in Int /\ retryAt \in Int
      /\ worker \in [GateWorkers -> WorkerShapes]
      /\ \A w \in GateWorkers : worker[w].since <= clock /\ worker[w].stamp <= generation
  BY <1>i DEF GateTyped
<1>w. \A w \in GateWorkers : /\ worker[w] \in WorkerShapes /\ worker[w].since \in Nat /\ worker[w].stamp \in Nat
                             /\ worker[w].reg \in Registries /\ worker[w].rule \in BoundRules \cup {NoRegistry}
  BY <1>t DEF WorkerShapes
<1>r. /\ AtRest \in WorkerShapes /\ AtRest.at = "rest" /\ AtRest.since = 0 /\ AtRest.stamp = 0
  BY DEF AtRest, WorkerShapes, Registries
<1>z. AtRest.since <= clock /\ AtRest.stamp <= generation
  BY <1>r, <1>t
<1>n. /\ file \in Revisions => failedUntil <= soundSince + Wall /\ retryAt <= soundSince + 2 * Wall
      /\ failedUntil <= clock + Wall /\ retryAt <= clock + 2 * Wall
  BY <1>i, <1>t, <1>c DEF WallsStandNear, LastUnsound
<1>g. /\ GetRegistry.reg \in Registries /\ GetRegistry.until \in Int
      /\ cached # NoRegistry => GetRegistry.reg = cached /\ GetRegistry.until = failedUntil
      /\ GetRegistry.reg = NoRegistry => GetRegistry.until <= clock + Wall
      /\ GetRegistry.reg = NoRegistry /\ file \in Revisions => clock < failedUntil
      /\ GetRegistry.until \in {0, failedUntil} \/ (file \notin Revisions /\ GetRegistry.until = clock + Wall)
  BY <1>t, <1>c, <1>n DEF GetRegistry, Registries
<1>1. ASSUME NEW w \in GateWorkers, ReadGate(w) PROVE GateInv'
  <2>1. PICK r \in BoundRules :
           /\ worker' = [worker EXCEPT ![w] = [worker[w] EXCEPT !.at = "resolve", !.rule = r, !.stamp = generation]]
           /\ UNCHANGED <<file, soundSince, fileEdits, clock, operator, registryReloads, cached, failedUntil,
                          resolved, retryAt, generation, gates, engineLock, refusedLate>>
    BY <1>1 DEF ReadGate, Step, KeepsFile, KeepsRegistry
  <2> DEFINE p == [worker[w] EXCEPT !.at = "resolve", !.rule = r, !.stamp = generation]
  <2>2. p \in WorkerShapes /\ p.at = "resolve" /\ p.since = worker[w].since /\ p.stamp = generation
    BY <2>1, <1>w, <1>t DEF WorkerShapes
  <2>3. worker' = [worker EXCEPT ![w] = p]
    BY <2>1
  <2>4. GatesAreCurrent' /\ RecoversWithinTwoWalls'
    BY <2>1, <1>i DEF GatesAreCurrent, RecoversWithinTwoWalls
  <2> HIDE DEF p
  <2>5. p.since <= clock /\ p.stamp <= generation
    BY <2>2, <1>t
  <2> QED
    BY <2>1, <2>2, <2>3, <2>4, <2>5, GateInvByWorker
<1>2. ASSUME NEW w \in GateWorkers, UseHandle(w) PROVE GateInv'
  <2> DEFINE p == [worker[w] EXCEPT !.at = "bind", !.reg = resolved]
  <2>1. /\ worker' = [worker EXCEPT ![w] = p] /\ resolved # NoRegistry
        /\ UNCHANGED <<file, soundSince, fileEdits, clock, operator, registryReloads, cached, failedUntil,
                       resolved, retryAt, generation, gates, engineLock, refusedLate>>
    BY <1>2 DEF UseHandle, Step, KeepsFile, KeepsRegistry
  <2>2. p \in WorkerShapes /\ p.at = "bind" /\ p.since = worker[w].since /\ p.stamp = worker[w].stamp /\ p.reg = resolved
    BY <1>w, <1>t DEF WorkerShapes
  <2>3. GatesAreCurrent' /\ RecoversWithinTwoWalls'
    BY <2>1, <1>i DEF GatesAreCurrent, RecoversWithinTwoWalls
  <2>4. resolved \in Revisions
    BY <2>1, <1>t DEF Registries
  <2> HIDE DEF p
  <2> QED
    BY <2>1, <2>2, <2>3, <2>4, <1>t, GateInvByWorker
<1>3. ASSUME NEW w \in GateWorkers, WaitAtWall(w) PROVE GateInv'
  <2>1. /\ worker' = [worker EXCEPT ![w] = AtRest] /\ clock < retryAt
        /\ UNCHANGED <<file, soundSince, fileEdits, clock, operator, registryReloads, cached, failedUntil,
                       resolved, retryAt, generation, gates, engineLock>>
    BY <1>3 DEF WaitAtWall, Refused2, Step, KeepsFile, KeepsRegistry
  <2>2. ~Late
    BY <2>1, <1>n, <1>t, <1>c DEF Late
  <2>3. refusedLate' <=> refusedLate
    <3>1. refusedLate' = (refusedLate \/ Late)
      BY <1>3, Zenon DEF WaitAtWall, Refused2
    <3> QED
      BY <3>1, <2>2
  <2>4. GatesAreCurrent' /\ RecoversWithinTwoWalls'
    BY <2>1, <2>3, <1>i DEF GatesAreCurrent, RecoversWithinTwoWalls
  <2> QED
    BY <2>1, <2>4, <1>r, <1>z, GateInvByWorker
<1>4. ASSUME NEW w \in GateWorkers, BeginResolving(w) PROVE GateInv'
  <2> DEFINE p == [worker[w] EXCEPT !.at = "loading", !.since = clock]
  <2>1. /\ worker' = [worker EXCEPT ![w] = p] /\ resolved = NoRegistry /\ engineLock = NoRegistry /\ engineLock' = w
        /\ UNCHANGED <<file, soundSince, fileEdits, clock, operator, registryReloads, cached, failedUntil,
                       resolved, retryAt, generation, gates, refusedLate>>
    BY <1>4 DEF BeginResolving, Step, KeepsFile, KeepsRegistry, Unlocked
  <2>2. p \in WorkerShapes /\ p.at = "loading" /\ p.since = clock /\ p.stamp = worker[w].stamp
    BY <1>w, <1>t DEF WorkerShapes
  <2>3. GatesAreCurrent' /\ RecoversWithinTwoWalls'
    BY <2>1, <1>i DEF GatesAreCurrent, RecoversWithinTwoWalls
  <2> HIDE DEF p
  <2>4. p.since <= clock /\ p.stamp <= generation
    BY <2>2, <1>t
  <2> QED
    BY <2>1, <2>2, <2>3, <2>4, GateInvByWorker
<1>5. ASSUME NEW w \in GateWorkers, EndResolving(w) PROVE GateInv'
  <2>1. /\ worker[w].at = "loading" /\ engineLock' = NoRegistry
        /\ cached' = GetRegistry.reg /\ failedUntil' = GetRegistry.until /\ resolved' = GetRegistry.reg
        /\ retryAt' = (IF GetRegistry.reg = NoRegistry THEN worker[w].since + Wall ELSE 0)
        /\ UNCHANGED <<file, soundSince, fileEdits, clock, operator, registryReloads, generation, gates>>
    BY <1>5 DEF EndResolving, Answered, KeepsFile
  <2>2. engineLock = w /\ resolved = NoRegistry /\ \A v \in GateWorkers \ {w} : worker[v].at # "loading"
    BY <2>1, <1>i DEF LoaderHoldsLock
  <2> DEFINE p == IF GetRegistry.reg = NoRegistry THEN AtRest
                  ELSE [worker[w] EXCEPT !.at = "bind", !.reg = GetRegistry.reg]
  <2>3. worker' = [worker EXCEPT ![w] = p]
    BY <1>5 DEF EndResolving, Refused2, Step
  <2>4. /\ p \in WorkerShapes /\ p.at \in {"rest", "bind"} /\ p.since <= clock /\ p.stamp <= generation
        /\ p.at = "bind" => p.reg = GetRegistry.reg /\ GetRegistry.reg # NoRegistry
    <3>1. CASE GetRegistry.reg = NoRegistry
      BY <3>1, <1>r, <1>t
    <3>2. CASE GetRegistry.reg # NoRegistry
      <4> DEFINE q == [worker[w] EXCEPT !.at = "bind", !.reg = GetRegistry.reg]
      <4>1. q \in WorkerShapes /\ q.at = "bind" /\ q.since = worker[w].since /\ q.stamp = worker[w].stamp
            /\ q.reg = GetRegistry.reg
        BY <1>w, <1>g DEF WorkerShapes
      <4> QED
        BY <4>1, <3>2, <1>t
    <3> QED
      BY <3>1, <3>2
  <2> HIDE DEF p
  <2>5. worker' \in [GateWorkers -> WorkerShapes] /\ worker'[w] = p
        /\ \A v \in GateWorkers \ {w} : worker'[v] = worker[v]
    BY <2>3, <2>4, <1>t
  <2>6. DOMAIN gates = {}
    BY <2>2, <1>i, <1>c DEF GatesAreCurrent
  <2>7. GateTyped'
    BY <2>1, <2>4, <2>5, <1>t, <1>w, <1>c, <1>g, <1>i DEF GateTyped
  <2>8. LoaderHoldsLock' /\ GatesAreCurrent'
    BY <2>1, <2>2, <2>4, <2>5, <2>6 DEF LoaderHoldsLock, GatesAreCurrent
  <2>9. BinderIsCurrent'
    <3>1. \A v \in GateWorkers \ {w} : ~(worker[v].at = "bind" /\ worker[v].stamp = generation)
      BY <2>2, <1>i, <1>c DEF BinderIsCurrent
    <3> QED
      BY <3>1, <2>1, <2>4, <2>5, <1>g DEF BinderIsCurrent, Registries
  <2>10. WallsStandNear'
    <3>1. failedUntil' <= LastUnsound + Wall
      BY <2>1, <1>g, <1>n, <1>t, <1>c DEF LastUnsound
    <3>2. retryAt' <= LastUnsound + 2 * Wall
      BY <2>1, <1>g, <1>n, <1>t, <1>c, <1>w DEF LastUnsound
    <3> QED
      BY <3>1, <3>2, <2>1 DEF WallsStandNear, LastUnsound
  <2>11. EngineFollowsReload'
    BY <2>1 DEF EngineFollowsReload
  <2>12. RecoversWithinTwoWalls'
    <3>1. CASE GetRegistry.reg = NoRegistry
      <4>1. refusedLate' = (refusedLate \/ Late)
        BY <1>5, <3>1, Zenon DEF EndResolving, Refused2
      <4>2. ~Late
        BY <3>1, <1>g, <1>n, <1>t, <1>c DEF Late
      <4> QED
        BY <4>1, <4>2, <1>i DEF RecoversWithinTwoWalls
    <3>2. CASE GetRegistry.reg # NoRegistry
      BY <1>5, <3>2, <1>i DEF EndResolving, RecoversWithinTwoWalls
    <3> QED
      BY <3>1, <3>2
  <2> QED
    BY <2>7, <2>8, <2>9, <2>10, <2>11, <2>12 DEF GateInv
<1>6. ASSUME NEW w \in GateWorkers, WriteGate(w) PROVE GateInv'
  <2>1. /\ worker' = [worker EXCEPT ![w] = AtRest] /\ worker[w].at = "bind"
        /\ gates' = (IF worker[w].stamp = generation THEN Memo(w) ELSE gates)
        /\ UNCHANGED <<file, soundSince, fileEdits, clock, operator, registryReloads, cached, failedUntil,
                       resolved, retryAt, generation, engineLock, refusedLate>>
    BY <1>6 DEF WriteGate, Step, KeepsFile, KeepsRegistry
  <2>2. GatesAreCurrent' /\ RecoversWithinTwoWalls'
    BY <2>1, <1>i DEF GatesAreCurrent, RecoversWithinTwoWalls, Memo, BinderIsCurrent
  <2> QED
    BY <2>1, <2>2, <1>r, <1>z, GateInvByWorker
<1>7. CASE StoreRow
  <2>1. /\ cached' = GetRegistry.reg /\ failedUntil' = GetRegistry.until
        /\ UNCHANGED <<file, soundSince, resolved, retryAt, generation, gates, worker, engineLock,
                       operator, clock, fileEdits, registryReloads, refusedLate>>
    BY <1>7 DEF StoreRow, Answered
  <2>2. GateTyped' /\ LoaderHoldsLock' /\ BinderIsCurrent' /\ GatesAreCurrent' /\ RecoversWithinTwoWalls'
    BY <2>1, <1>i, <1>g DEF GateTyped, LoaderHoldsLock, BinderIsCurrent, GatesAreCurrent, RecoversWithinTwoWalls
  <2>3. WallsStandNear'
    BY <2>1, <1>g, <1>n, <1>t, <1>c DEF WallsStandNear, LastUnsound
  <2>4. EngineFollowsReload'
    BY <2>1, <1>i, <1>g DEF EngineFollowsReload
  <2> QED
    BY <2>2, <2>3, <2>4 DEF GateInv
<1>8. CASE ReloadRegistry
  <2>1. /\ cached' = (IF file \in Revisions THEN file ELSE NoRegistry)
        /\ failedUntil' = (IF file \in Revisions THEN 0 ELSE clock + Wall) /\ operator' = "reset"
        /\ UNCHANGED <<file, soundSince, resolved, retryAt, generation, gates, worker, engineLock,
                       clock, fileEdits, refusedLate>>
    BY <1>8 DEF ReloadRegistry
  <2>2. cached' \in Registries /\ failedUntil' \in Int
    BY <2>1, <1>t, <1>c DEF Registries
  <2>3. GateTyped' /\ LoaderHoldsLock' /\ BinderIsCurrent' /\ GatesAreCurrent' /\ RecoversWithinTwoWalls'
    BY <2>1, <2>2, <1>i DEF GateTyped, LoaderHoldsLock, BinderIsCurrent, GatesAreCurrent, RecoversWithinTwoWalls
  <2>4. WallsStandNear' /\ EngineFollowsReload'
    BY <2>1, <1>n, <1>t, <1>c DEF WallsStandNear, LastUnsound, EngineFollowsReload
  <2> QED
    BY <2>3, <2>4 DEF GateInv
<1>9. CASE ResetCimCache
  <2>1. /\ engineLock = NoRegistry /\ resolved' = NoRegistry /\ retryAt' = 0
        /\ gates' = [r \in {} |-> NoRegistry] /\ generation' = generation + 1 /\ operator' = "rest"
        /\ UNCHANGED <<file, soundSince, cached, failedUntil, worker, engineLock, clock, fileEdits, registryReloads, refusedLate>>
    BY <1>9 DEF ResetCimCache, Unlocked
  <2>2. GateTyped'
    BY <2>1, <1>t, <1>w, <1>i DEF GateTyped, Registries
  <2>3. LoaderHoldsLock'
    BY <2>1, <1>i, <1>c DEF LoaderHoldsLock
  <2>4. BinderIsCurrent'
    BY <2>1, <1>t, <1>w DEF BinderIsCurrent
  <2>5. WallsStandNear'
    BY <2>1, <1>n, <1>t, <1>c, <1>i DEF WallsStandNear, LastUnsound
  <2>6. GatesAreCurrent' /\ EngineFollowsReload' /\ RecoversWithinTwoWalls'
    BY <2>1, <1>i DEF GatesAreCurrent, EngineFollowsReload, RecoversWithinTwoWalls
  <2> QED
    BY <2>2, <2>3, <2>4, <2>5, <2>6 DEF GateInv
<1>10. CASE EditFile
  <2>1. /\ file' \in (Revisions \cup {Broken}) /\ soundSince' = clock
        /\ UNCHANGED <<cached, failedUntil, resolved, retryAt, generation, gates, worker, engineLock, operator,
                       clock, registryReloads, refusedLate>>
    BY <1>10 DEF EditFile
  <2>2. GateTyped' /\ LoaderHoldsLock' /\ BinderIsCurrent' /\ GatesAreCurrent' /\ EngineFollowsReload'
        /\ RecoversWithinTwoWalls'
    BY <2>1, <1>i, <1>t DEF GateTyped, LoaderHoldsLock, BinderIsCurrent, GatesAreCurrent, EngineFollowsReload,
                            RecoversWithinTwoWalls
  <2>3. WallsStandNear'
    BY <2>1, <1>n, <1>t, <1>c DEF WallsStandNear, LastUnsound
  <2> QED
    BY <2>2, <2>3 DEF GateInv
<1>11. CASE PassTime
  <2>1. /\ clock' = clock + 1
        /\ UNCHANGED <<file, soundSince, cached, failedUntil, resolved, retryAt, generation, gates, worker,
                       engineLock, operator, fileEdits, registryReloads, refusedLate>>
    BY <1>11 DEF PassTime
  <2>2. GateTyped'
    BY <2>1, <1>t, <1>w DEF GateTyped
  <2>3. LoaderHoldsLock' /\ BinderIsCurrent' /\ GatesAreCurrent' /\ EngineFollowsReload' /\ RecoversWithinTwoWalls'
    BY <2>1, <1>i DEF LoaderHoldsLock, BinderIsCurrent, GatesAreCurrent, EngineFollowsReload, RecoversWithinTwoWalls
  <2>4. WallsStandNear'
    BY <2>1, <1>n, <1>t, <1>c DEF WallsStandNear, LastUnsound
  <2> QED
    BY <2>2, <2>3, <2>4 DEF GateInv
<1>12. CASE UNCHANGED gateVars
  BY <1>12, <1>i DEF gateVars, GateInv, GateTyped, LoaderHoldsLock, BinderIsCurrent, WallsStandNear, LastUnsound,
                     GatesAreCurrent, EngineFollowsReload, RecoversWithinTwoWalls
<1> QED
  BY <1>1, <1>2, <1>3, <1>4, <1>5, <1>6, <1>7, <1>8, <1>9, <1>10, <1>11, <1>12 DEF GateNext

(* Whatever is edited, reloaded, stored or evaluated meanwhile: a memoized *)
(* gate is of the registry in hand, no registry of before a reload is kept *)
(* after its reset, and no rule is refused longer than the two walls and a *)
(* load after the file became sound (cim/registry.py, detection/engine.py).*)
THEOREM GatesFollow == GateSpec => []GatesFollowRegistry
<1>1. GateInv => GatesFollowRegistry
  BY DEF GateInv, GatesFollowRegistry
<1> QED
  BY <1>1, GateInvInit, GateInvStep, PTL DEF GateSpec

-----------------------------------------------------------------------------
(***************************************************************************)
(* DataModels, the database.  Four parts, each with its own argument: the  *)
(* views while they are being built; the walk, alone and known by its      *)
(* state; the rows, of which one not tagged since the last stamp has the   *)
(* tags of the stamped rule; and what was read of the file.                *)
(***************************************************************************)
RowShapes == [shape : EventShapes, tags : SUBSET ModelNames, since : BOOLEAN]
WalkShapes == [at : {"idle", "audit", "walk", "stamp"}, after : 0..MaxStored, covers : SUBSET (1..MaxStored)]
TagsUnder(h, shape) == {m \in DOMAIN h : shape \in h[m]}

CimTyped ==
    /\ CimTypeOK /\ stored \in Seq(RowShapes) /\ Len(stored) <= MaxStored
    /\ walks \in [Clickers -> WalkShapes]
    /\ cimPhase # "down" => DOMAIN liveModels \subseteq ModelNames

ViewsInv ==
    /\ ViewsFollow /\ DependentsStand
    /\ cimPhase = "views" =>
        /\ viewsLeft \subseteq DOMAIN liveModels /\ hindered \subseteq DOMAIN liveModels \cap failedViews
        /\ \A m \in DOMAIN liveModels \ viewsLeft :
              m \in hindered \/ (m \in DOMAIN viewDefs /\ viewDefs[m] = liveModels[m])

WalksInv ==
    /\ \A c \in Clickers : walks[c].at # "idle" => cimPhase = "up" /\ jobState = "running"
    /\ \A c, d \in Clickers : walks[c].at # "idle" /\ walks[d].at # "idle" => c = d
    /\ jobState = "running" => stuck \/ \E c \in Clickers : walks[c].at # "idle"

\* A walk has re-tagged every row it has passed, and stamps none that it did not set out over.
Walked(p) ==
    /\ p.after <= Len(stored) /\ p.covers \subseteq DOMAIN stored
    /\ \A i \in 1..p.after : stored[i].tags = TagsIn(liveModels, stored[i].shape)
    /\ \A i \in DOMAIN stored \ p.covers : stored[i].since
    /\ p.at = "stamp" => p.covers \subseteq 1..p.after

StampTells(meta, row) ==
    ~row.since => /\ meta # <<>>
                  /\ \E h \in meta[1] : meta[1] = {h} /\ row.tags = TagsUnder(h, row.shape)

RowsInv ==
    /\ \A c \in Clickers : walks[c].at \in {"walk", "stamp"} => Walked(walks[c])
    /\ \A i \in DOMAIN stored : StampTells(cimMeta, stored[i])

DiskInv ==
    /\ diskRead # <<>> /\ ~torn => diskRead[1] = modelsFile
    /\ MemoIsOfContent

LEMMA RowsRewritten ==
  ASSUME NEW s \in Seq(RowShapes), NEW t, DOMAIN t = DOMAIN s, t = [i \in DOMAIN t |-> t[i]],
         \A i \in DOMAIN s : t[i] \in RowShapes
  PROVE  t \in Seq(RowShapes) /\ Len(t) = Len(s)
<1>1. Len(s) \in Nat /\ DOMAIN s = 1..Len(s)
  OBVIOUS
<1>2. t \in [1..Len(s) -> RowShapes]
  BY <1>1
<1> QED
  BY <1>1, <1>2

LEMMA OnePage ==
  ASSUME NEW after \in Nat, stored \in Seq(RowShapes), after <= Len(stored)
  PROVE  /\ Cardinality(PageAfter(after)) \in Nat /\ after + Cardinality(PageAfter(after)) <= Len(stored)
         /\ PageAfter(after) = (after + 1)..(after + Cardinality(PageAfter(after)))
         /\ IsLastPage(PageAfter(after)) => after + Cardinality(PageAfter(after)) = Len(stored)
<1>1. WalkChunkSize \in Nat \ {0}
  BY CimStorageAssumption
<1>2. Len(stored) \in Nat /\ DOMAIN stored = 1..Len(stored)
  OBVIOUS
<1> DEFINE last == IF after + WalkChunkSize <= Len(stored) THEN after + WalkChunkSize ELSE Len(stored)
<1>3. PageAfter(after) = (after + 1)..last
  BY <1>1, <1>2 DEF PageAfter
<1>4. last \in Nat /\ after <= last /\ last <= Len(stored)
  BY <1>1, <1>2
<1>5. last = Len(stored) \/ last - after = WalkChunkSize
  <2>1. WalkChunkSize \in Nat /\ Len(stored) \in Nat /\ after \in Nat
    BY <1>1, <1>2
  <2>2. CASE after + WalkChunkSize <= Len(stored)
    BY <2>1, <2>2
  <2>3. CASE ~(after + WalkChunkSize <= Len(stored))
    BY <2>3
  <2> QED
    BY <2>2, <2>3
<1> HIDE DEF last
<1>6. Cardinality((after + 1)..last) = last - after
  <2>1. after + 1 \in Int /\ last \in Int
    BY <1>4
  <2>2. Cardinality((after + 1)..last) = IF after + 1 > last THEN 0 ELSE last - (after + 1) + 1
    BY <2>1, FS_Interval
  <2> QED
    BY <2>2, <1>4
<1> QED
  BY <1>1, <1>3, <1>4, <1>5, <1>6 DEF IsLastPage

LEMMA TagsOfFingerprint ==
  ASSUME NEW registry, NEW shape
  PROVE  TagsUnder(FingerprintOfTags(registry), shape) = TagsIn(registry, shape)
BY DEF TagsUnder, FingerprintOfTags, TagsIn

LEMMA CimInvInit == CimInit => CimTyped /\ ViewsInv /\ WalksInv /\ RowsInv /\ DiskInv
<1> SUFFICES ASSUME CimInit PROVE CimTyped /\ ViewsInv /\ WalksInv /\ RowsInv /\ DiskInv
  OBVIOUS
<1>1. NoWalk \in WalkShapes /\ NoWalk.at = "idle" /\ NoWalk.after = 0
  BY CimStorageAssumption DEF NoWalk, WalkShapes
<1>2. walks = [c \in Clickers |-> NoWalk] /\ stored = <<>> /\ cimPhase = "down" /\ jobState = "idle"
      /\ dependents = {} /\ DOMAIN viewDefs = {} /\ modelsFile \in ModelFiles /\ diskRead = <<>> /\ diskMemo = <<>>
  BY DEF CimInit
<1>3. stored \in Seq(RowShapes) /\ Len(stored) = 0 /\ DOMAIN stored = {}
  BY <1>2
<1>4. CimTyped
  BY <1>1, <1>2, <1>3, CimStorageAssumption DEF CimTyped, CimTypeOK
<1>5. ViewsInv
  BY <1>2 DEF ViewsInv, ViewsFollow, DependentsStand
<1>6. WalksInv /\ RowsInv
  BY <1>1, <1>2, <1>3 DEF WalksInv, RowsInv
<1>7. DiskInv
  BY <1>2 DEF DiskInv, MemoIsOfContent
<1> QED
  BY <1>4, <1>5, <1>6, <1>7

LEMMA DiskInvStep == DiskInv /\ [CimNext]_cimVars => DiskInv'
<1> SUFFICES ASSUME DiskInv, [CimNext]_cimVars PROVE DiskInv'
  OBVIOUS
<1>1. ASSUME UNCHANGED <<modelsFile, diskMemo, diskRead, torn>> PROVE DiskInv'
  BY <1>1 DEF DiskInv, MemoIsOfContent
<1>2. CASE CimBoot \/ BuildView \/ FinishViews \/ InitCimRaises \/ PackComesOrGoes \/ AnalystBuilds
           \/ AnalystDrops \/ StoreEvent1
  BY <1>2, <1>1 DEF CimBoot, BuildView, FinishViews, InitCimRaises, PackComesOrGoes, AnalystBuilds,
                    AnalystDrops, StoreEvent1, KeepsDisk
<1>3. CASE CimStops
  BY <1>3 DEF CimStops, DiskInv, MemoIsOfContent
<1>4. CASE EditModels
  <2>1. UNCHANGED <<diskMemo, diskRead>>
    BY <1>4 DEF EditModels
  <2>2. torn' = (torn \/ diskRead # <<>>)
    BY <1>4, Zenon DEF EditModels
  <2> QED
    BY <2>1, <2>2 DEF DiskInv, MemoIsOfContent
<1>5. CASE DriftReads
  BY <1>5 DEF DriftReads, DiskInv, MemoIsOfContent
<1>6. CASE DriftLoads
  <2>1. /\ diskRead # <<>> /\ diskRead' = <<>> /\ UNCHANGED <<modelsFile, torn>>
        /\ diskMemo' = (IF modelsFile = Garbled THEN diskMemo ELSE MemoFor(diskRead[1]))
    BY <1>6 DEF DriftLoads
  <2>2. CASE modelsFile = Garbled
    BY <2>1, <2>2 DEF DiskInv, MemoIsOfContent
  <2>3. CASE modelsFile # Garbled
    <3>1. diskMemo'[1] = [content |-> diskRead[1], hash |-> FingerprintOfTags(modelsFile)]
      BY <2>1, <2>3 DEF MemoFor
    <3> QED
      BY <2>1, <2>3, <3>1 DEF DiskInv, MemoIsOfContent
  <2> QED
    BY <2>2, <2>3
<1>7. ASSUME NEW c \in Clickers, \/ Click(c) \/ StartJob(c) \/ AuditRaises(c)
                                 \/ WalkPage(c) \/ StampWalk(c) \/ JobFails(c)
      PROVE  DiskInv'
  BY <1>7, <1>1 DEF Click, StartJob, AuditRaises, WalkPage, StampWalk, JobFails, KeepsStored, KeepsDisk
<1>8. CASE UNCHANGED cimVars
  BY <1>8, <1>1 DEF cimVars
<1> QED
  BY <1>2, <1>3, <1>4, <1>5, <1>6, <1>7, <1>8 DEF CimNext

LEMMA ViewsInvStep == ViewsInv /\ [CimNext]_cimVars => ViewsInv'
<1> SUFFICES ASSUME ViewsInv, [CimNext]_cimVars PROVE ViewsInv'
  OBVIOUS
<1>1. ASSUME UNCHANGED <<cimPhase, liveModels, viewsLeft, failedViews, initError, viewDefs, hindered, dependents>>
      PROVE  ViewsInv'
  BY <1>1 DEF ViewsInv, ViewsFollow, DependentsStand
<1>2. CASE CimBoot
  <2>1. /\ cimPhase' = "views" /\ viewsLeft' = DOMAIN modelsFile /\ hindered' = {}
        /\ liveModels' = WithPacks(modelsFile, packIn) /\ UNCHANGED <<viewDefs, dependents>>
    BY <1>2 DEF CimBoot
  <2>2. DOMAIN liveModels' = DOMAIN modelsFile
    BY <2>1 DEF WithPacks
  <2> QED
    BY <2>1, <2>2 DEF ViewsInv, ViewsFollow, DependentsStand
<1>3. CASE BuildView
  <2>1. PICK m \in viewsLeft :
          /\ viewDefs' = AfterView(m) /\ viewsLeft' = viewsLeft \ {m}
          /\ failedViews' = (IF Blocked(m) THEN failedViews \cup {m} ELSE failedViews)
          /\ hindered' = (IF Blocked(m) THEN hindered \cup {m} ELSE hindered)
    BY <1>3 DEF BuildView
  <2>2. cimPhase = "views" /\ UNCHANGED <<cimPhase, liveModels, dependents>>
    BY <1>3 DEF BuildView
  <2>3. CASE Blocked(m)
    BY <2>1, <2>2, <2>3 DEF ViewsInv, ViewsFollow, DependentsStand, AfterView
  <2>4. CASE ~Blocked(m)
    <3>1. /\ DOMAIN viewDefs' = DOMAIN viewDefs \cup {m} /\ viewDefs'[m] = liveModels[m]
          /\ \A v \in DOMAIN viewDefs \ {m} : viewDefs'[v] = viewDefs[v]
      BY <2>1, <2>4 DEF AfterView, ViewBuilt
    <3> QED
      BY <2>1, <2>2, <2>4, <3>1 DEF ViewsInv, ViewsFollow, DependentsStand
  <2> QED
    BY <2>3, <2>4
<1>4. CASE FinishViews
  <2>1. /\ cimPhase = "views" /\ viewsLeft = {} /\ cimPhase' = "up"
        /\ viewDefs' = [m \in DOMAIN viewDefs \ Reclaimed |-> viewDefs[m]]
        /\ hindered' = hindered \cup (Orphans \cap dependents)
        /\ UNCHANGED <<liveModels, failedViews, dependents>>
    BY <1>4 DEF FinishViews
  <2>2. /\ \A m \in DOMAIN liveModels : m \in hindered \/ (m \in DOMAIN viewDefs /\ viewDefs[m] = liveModels[m])
        /\ hindered \subseteq failedViews /\ dependents \subseteq DOMAIN viewDefs
    BY <2>1 DEF ViewsInv, DependentsStand
  <2>3. DOMAIN viewDefs' = DOMAIN viewDefs \ Reclaimed /\ \A m \in DOMAIN viewDefs' : viewDefs'[m] = viewDefs[m]
    BY <2>1
  <2>4. ViewsFollow'
    BY <2>1, <2>2, <2>3 DEF ViewsFollow, Reclaimed, Orphans
  <2>5. DependentsStand'
    BY <2>1, <2>2, <2>3 DEF DependentsStand, Reclaimed
  <2> QED
    BY <2>1, <2>4, <2>5 DEF ViewsInv
<1>5. CASE InitCimRaises
  <2>1. /\ cimPhase = "views" /\ cimPhase' = "up" /\ hindered' = hindered \cup viewsLeft \cup Orphans
        /\ initError' /\ UNCHANGED <<liveModels, viewDefs, dependents>>
    BY <1>5 DEF InitCimRaises
  <2> QED
    BY <2>1 DEF ViewsInv, ViewsFollow, DependentsStand, Orphans
<1>6. CASE CimStops
  BY <1>6 DEF CimStops, ViewsInv, ViewsFollow, DependentsStand
<1>7. CASE AnalystBuilds \/ AnalystDrops
  <2>1. UNCHANGED <<cimPhase, liveModels, viewsLeft, failedViews, initError, viewDefs, hindered>>
    BY <1>7 DEF AnalystBuilds, AnalystDrops, KeepsViews
  <2>2. dependents' \subseteq dependents \cup DOMAIN viewDefs
    BY <1>7 DEF AnalystBuilds, AnalystDrops
  <2> QED
    BY <2>1, <2>2 DEF ViewsInv, ViewsFollow, DependentsStand
<1>8. CASE EditModels \/ PackComesOrGoes \/ StoreEvent1 \/ DriftReads \/ DriftLoads
  BY <1>8, <1>1 DEF EditModels, PackComesOrGoes, StoreEvent1, DriftReads, DriftLoads, KeepsViews
<1>9. ASSUME NEW c \in Clickers, \/ Click(c) \/ StartJob(c) \/ AuditRaises(c)
                                 \/ WalkPage(c) \/ StampWalk(c) \/ JobFails(c)
      PROVE  ViewsInv'
  BY <1>9, <1>1 DEF Click, StartJob, AuditRaises, WalkPage, StampWalk, JobFails, KeepsStored, KeepsViews
<1>10. CASE UNCHANGED cimVars
  BY <1>10, <1>1 DEF cimVars
<1> QED
  BY <1>2, <1>3, <1>4, <1>5, <1>6, <1>7, <1>8, <1>9, <1>10 DEF CimNext

LEMMA CimTypedStep == CimTyped /\ ViewsInv /\ WalksInv /\ RowsInv /\ [CimNext]_cimVars => CimTyped'
<1> SUFFICES ASSUME CimTyped, ViewsInv, WalksInv, RowsInv, [CimNext]_cimVars PROVE CimTyped'
  OBVIOUS
<1>t. /\ modelsFile \in ModelFiles \cup {Garbled} /\ cimPhase \in {"down", "views", "up"}
      /\ DOMAIN viewDefs \subseteq ModelNames /\ jobState \in {"idle", "running", "done", "error"}
      /\ stored \in Seq(RowShapes) /\ Len(stored) \in Nat /\ DOMAIN stored = 1..Len(stored)
      /\ Len(stored) <= MaxStored /\ MaxStored \in Nat /\ walks \in [Clickers -> WalkShapes]
      /\ cimPhase # "down" => DOMAIN liveModels \subseteq ModelNames
      /\ \A i \in DOMAIN stored : stored[i] \in RowShapes
  BY CimStorageAssumption DEF CimTyped, CimTypeOK
<1>s. ASSUME stored' \in Seq(RowShapes), walks' \in [Clickers -> WalkShapes],
             modelsFile' \in ModelFiles \cup {Garbled}, cimPhase' \in {"down", "views", "up"},
             DOMAIN viewDefs' \subseteq ModelNames, jobState' \in {"idle", "running", "done", "error"},
             Len(stored') <= MaxStored, cimPhase' # "down" => DOMAIN liveModels' \subseteq ModelNames
      PROVE  CimTyped'
  <2>1. \A i \in DOMAIN stored' : stored'[i] \in RowShapes
    BY <1>s
  <2>2. \A c \in Clickers : walks'[c].after \in 0..MaxStored
    BY <1>s DEF WalkShapes
  <2>3. \A i \in DOMAIN stored' : stored'[i].tags \subseteq ModelNames
    BY <2>1 DEF RowShapes
  <2> QED
    BY <1>s, <2>2, <2>3 DEF CimTyped, CimTypeOK
<1>n. NoWalk \in WalkShapes
  BY <1>t DEF NoWalk, WalkShapes
<1>k. \A s : cimPhase # "down" => TagsIn(liveModels, s) \in SUBSET ModelNames
  BY <1>t DEF TagsIn
<1>1. CASE CimBoot
  <2>1. /\ modelsFile \in ModelFiles /\ cimPhase' = "views" /\ liveModels' = WithPacks(modelsFile, packIn)
        /\ UNCHANGED <<modelsFile, viewDefs, stored, walks, jobState>>
    BY <1>1, <1>t DEF CimBoot, KeepsJobs
  <2>2. DOMAIN liveModels' \subseteq ModelNames
    BY <2>1, CimStorageAssumption DEF WithPacks
  <2> QED
    BY <2>1, <2>2, <1>t, <1>s
<1>2. CASE BuildView
  <2>1. PICK m \in viewsLeft : viewDefs' = AfterView(m)
    BY <1>2 DEF BuildView
  <2>2. UNCHANGED <<modelsFile, cimPhase, liveModels, stored, walks, jobState>>
    BY <1>2 DEF BuildView, KeepsJobs
  <2>3. m \in ModelNames /\ cimPhase # "down"
    BY <2>1, <1>2, <1>t DEF BuildView, ViewsInv
  <2>4. DOMAIN viewDefs' \subseteq DOMAIN viewDefs \cup {m}
    BY <2>1 DEF AfterView, ViewBuilt
  <2> QED
    BY <2>2, <2>3, <2>4, <1>t, <1>s
<1>3. CASE FinishViews \/ InitCimRaises
  <2>1. UNCHANGED <<modelsFile, liveModels, stored, walks, jobState>> /\ cimPhase = "views" /\ cimPhase' = "up"
    BY <1>3 DEF FinishViews, InitCimRaises, KeepsJobs
  <2>2. DOMAIN viewDefs' \subseteq DOMAIN viewDefs
    BY <1>3 DEF FinishViews, InitCimRaises
  <2> QED
    BY <2>1, <2>2, <1>t, <1>s
<1>4. CASE CimStops
  <2>1. /\ cimPhase' = "down" /\ walks' = [c \in Clickers |-> NoWalk] /\ jobState' = "idle"
        /\ UNCHANGED <<modelsFile, viewDefs, stored>>
    BY <1>4 DEF CimStops
  <2> QED
    BY <2>1, <1>n, <1>t, <1>s
<1>5. CASE EditModels \/ PackComesOrGoes \/ AnalystBuilds \/ AnalystDrops \/ DriftReads \/ DriftLoads
  <2>1. UNCHANGED <<cimPhase, liveModels, viewDefs, stored, walks, jobState>>
    BY <1>5 DEF EditModels, PackComesOrGoes, AnalystBuilds, AnalystDrops, DriftReads, DriftLoads, KeepsViews, KeepsJobs
  <2>2. modelsFile' \in ModelFiles \cup {Garbled}
    BY <1>5, <1>t DEF EditModels, PackComesOrGoes, AnalystBuilds, AnalystDrops, DriftReads, DriftLoads
  <2> QED
    BY <2>1, <2>2, <1>t, <1>s
<1>6. CASE StoreEvent1
  <2>1. PICK s \in EventShapes :
          stored' = Append(stored, [shape |-> s, tags |-> TagsIn(liveModels, s), since |-> TRUE])
    BY <1>6 DEF StoreEvent1
  <2>2. cimPhase = "up" /\ Len(stored) < MaxStored /\ UNCHANGED <<modelsFile, cimPhase, liveModels, viewDefs, walks, jobState>>
    BY <1>6 DEF StoreEvent1, KeepsViews, KeepsJobs
  <2>3. [shape |-> s, tags |-> TagsIn(liveModels, s), since |-> TRUE] \in RowShapes
    BY <2>2, <1>k DEF RowShapes
  <2>4. stored' \in Seq(RowShapes) /\ Len(stored') = Len(stored) + 1
    BY <2>1, <2>3, <1>t
  <2> QED
    BY <2>2, <2>4, <1>t, <1>s
<1>7. ASSUME NEW c \in Clickers, Click(c) \/ AuditRaises(c) \/ JobFails(c) \/ StartJob(c)
      PROVE  CimTyped'
  <2>1. UNCHANGED <<modelsFile, cimPhase, liveModels, viewDefs, stored>>
        /\ jobState' \in {"idle", "running", "done", "error"}
    BY <1>7, <1>t DEF Click, AuditRaises, JobFails, StartJob, KeepsStored, KeepsViews
  <2>2. CASE Click(c)
    <3>1. walks' = [walks EXCEPT ![c].at = "audit"]
      BY <2>2 DEF Click
    <3>2. [walks[c] EXCEPT !.at = "audit"] \in WalkShapes
      BY <1>t DEF WalkShapes
    <3> QED
      BY <2>1, <3>1, <3>2, <1>t, <1>s
  <2>3. CASE AuditRaises(c) \/ JobFails(c)
    BY <2>1, <2>3, <1>n, <1>t, <1>s DEF AuditRaises, JobFails
  <2>4. CASE StartJob(c)
    <3>1. [at |-> "walk", after |-> 0, covers |-> DOMAIN stored] \in WalkShapes
      BY <1>t DEF WalkShapes
    <3> QED
      BY <2>1, <2>4, <3>1, <1>t, <1>s DEF StartJob
  <2> QED
    BY <1>7, <2>2, <2>3, <2>4
<1>8. ASSUME NEW c \in Clickers, WalkPage(c) PROVE CimTyped'
  <2> DEFINE page == PageAfter(walks[c].after)
             p == [walks[c] EXCEPT !.after = @ + Cardinality(page), !.at = IF IsLastPage(page) THEN "stamp" ELSE "walk"]
  <2>1. /\ walks[c].at = "walk" /\ stored' = Retagged(page) /\ walks' = [walks EXCEPT ![c] = p]
        /\ UNCHANGED <<modelsFile, cimPhase, liveModels, viewDefs, jobState>>
    BY <1>8 DEF WalkPage, KeepsStored, KeepsViews
  <2>2. walks[c].after \in Nat /\ walks[c].after <= Len(stored) /\ walks[c] \in WalkShapes
    BY <2>1, <1>t DEF RowsInv, Walked, WalkShapes
  <2>3. Cardinality(page) \in Nat /\ walks[c].after + Cardinality(page) <= Len(stored)
    BY <2>2, <1>t, OnePage
  <2>4. p \in WalkShapes
    <3>1. walks[c].after + Cardinality(page) \in 0..MaxStored
      BY <2>2, <2>3, <1>t
    <3> HIDE DEF page
    <3> QED
      BY <2>2, <3>1 DEF WalkShapes
  <2>5. cimPhase # "down"
    BY <2>1 DEF WalksInv
  <2>6. stored' \in Seq(RowShapes) /\ Len(stored') = Len(stored)
    <3>1. \A i \in DOMAIN stored : Retagged(page)[i] \in RowShapes
      <4> SUFFICES ASSUME NEW i \in DOMAIN stored,
                          stored[i].tags # TagsIn(liveModels, stored[i].shape)
                   PROVE  [stored[i] EXCEPT !.tags = TagsIn(liveModels, stored[i].shape), !.since = TRUE] \in RowShapes
        BY <1>t DEF Retagged
      <4>1. stored[i] \in RowShapes /\ TagsIn(liveModels, stored[i].shape) \in SUBSET ModelNames
        BY <2>5, <1>t, <1>k
      <4> QED
        BY <4>1 DEF RowShapes
    <3>2. DOMAIN Retagged(page) = DOMAIN stored /\ Retagged(page) = [i \in DOMAIN Retagged(page) |-> Retagged(page)[i]]
      BY DEF Retagged
    <3> QED
      BY <2>1, <3>1, <3>2, <1>t, RowsRewritten
  <2> HIDE DEF page, p
  <2>7. walks' \in [Clickers -> WalkShapes]
    BY <2>1, <2>4, <1>t
  <2> QED
    BY <2>1, <2>6, <2>7, <1>t, <1>s
<1>9. ASSUME NEW c \in Clickers, StampWalk(c) PROVE CimTyped'
  <2> DEFINE after == [i \in DOMAIN stored |->
                IF cimMeta # <<>> /\ i \in walks[c].covers THEN [stored[i] EXCEPT !.since = FALSE] ELSE stored[i]]
  <2>1. /\ stored' = after /\ walks' = [walks EXCEPT ![c] = NoWalk] /\ jobState' = "done"
        /\ UNCHANGED <<modelsFile, cimPhase, liveModels, viewDefs>>
    BY <1>9 DEF StampWalk, KeepsStored, KeepsViews
  <2>2. \A i \in DOMAIN stored : [stored[i] EXCEPT !.since = FALSE] \in RowShapes
    BY <1>t DEF RowShapes
  <2>3. after \in Seq(RowShapes) /\ Len(after) = Len(stored)
    <3>1. DOMAIN after = DOMAIN stored /\ after = [i \in DOMAIN after |-> after[i]]
          /\ \A i \in DOMAIN stored : after[i] \in RowShapes
      BY <2>2, <1>t
    <3> HIDE DEF after
    <3> QED
      BY <3>1, <1>t, RowsRewritten
  <2> HIDE DEF after
  <2>4. walks' \in [Clickers -> WalkShapes]
    BY <2>1, <1>n, <1>t
  <2> QED
    BY <2>1, <2>3, <2>4, <1>t, <1>s
<1>10. CASE UNCHANGED cimVars
  BY <1>10, <1>t, <1>s DEF cimVars
<1> QED
  BY <1>1, <1>2, <1>3, <1>4, <1>5, <1>6, <1>7, <1>8, <1>9, <1>10 DEF CimNext

LEMMA WalksInvStep == CimTyped /\ WalksInv /\ [CimNext]_cimVars => WalksInv'
<1> SUFFICES ASSUME CimTyped, WalksInv, [CimNext]_cimVars PROVE WalksInv'
  OBVIOUS
<1>t. walks \in [Clickers -> WalkShapes]
  BY DEF CimTyped
<1>n. NoWalk.at = "idle"
  BY DEF NoWalk
<1>1. CASE CimBoot \/ BuildView \/ FinishViews \/ InitCimRaises
  <2>1. UNCHANGED <<walks, jobState, stuck>> /\ cimPhase # "up"
    BY <1>1 DEF CimBoot, BuildView, FinishViews, InitCimRaises, KeepsJobs
  <2> QED
    BY <2>1 DEF WalksInv
<1>2. CASE CimStops
  BY <1>2, <1>n DEF CimStops, WalksInv
<1>3. CASE EditModels \/ PackComesOrGoes \/ AnalystBuilds \/ AnalystDrops \/ DriftReads \/ DriftLoads \/ StoreEvent1
  <2>1. UNCHANGED <<walks, jobState, stuck, cimPhase>>
    BY <1>3 DEF EditModels, PackComesOrGoes, AnalystBuilds, AnalystDrops, DriftReads, DriftLoads, StoreEvent1, KeepsJobs
  <2> QED
    BY <2>1 DEF WalksInv
<1>4. ASSUME NEW c \in Clickers, NEW p, walks' = [walks EXCEPT ![c] = p], cimPhase' = cimPhase,
             walks[c].at # "idle", p.at = "idle", jobState' = "running" => stuck'
      PROVE  WalksInv'
  <2>1. \A d \in Clickers \ {c} : walks'[d] = walks[d] /\ walks[d].at = "idle"
    BY <1>4, <1>t DEF WalksInv
  <2>2. walks'[c].at = "idle"
    BY <1>4, <1>t
  <2> QED
    BY <1>4, <2>1, <2>2 DEF WalksInv
<1>5. ASSUME NEW c \in Clickers, Click(c) PROVE WalksInv'
  <2>1. /\ cimPhase = "up" /\ cimPhase' = "up" /\ jobState # "running" /\ jobState' = "running"
        /\ walks' = [walks EXCEPT ![c].at = "audit"]
    BY <1>5 DEF Click, MayStart, KeepsStored
  <2>2. /\ \A d \in Clickers : walks[d].at = "idle"
        /\ \A d \in Clickers \ {c} : walks'[d] = walks[d]
        /\ walks'[c].at = "audit"
    BY <2>1, <1>t DEF WalksInv, WalkShapes
  <2> QED
    BY <2>1, <2>2 DEF WalksInv
<1>6. ASSUME NEW c \in Clickers, StartJob(c) \/ WalkPage(c) PROVE WalksInv'
  <2>1. UNCHANGED <<cimPhase, jobState, stuck>> /\ walks[c].at # "idle"
        /\ \A d \in Clickers \ {c} : walks'[d] = walks[d]
    BY <1>6, <1>t DEF StartJob, WalkPage, KeepsStored
  <2>2. walks'[c].at # "idle"
    BY <1>6, <1>t DEF StartJob, WalkPage, WalkShapes
  <2> QED
    BY <2>1, <2>2 DEF WalksInv
<1>7. ASSUME NEW c \in Clickers, AuditRaises(c) PROVE WalksInv'
  BY <1>7, <1>4, <1>n DEF AuditRaises, KeepsStored
<1>8. ASSUME NEW c \in Clickers, StampWalk(c) \/ JobFails(c) PROVE WalksInv'
  BY <1>8, <1>4, <1>n DEF StampWalk, JobFails, KeepsStored
<1>9. CASE UNCHANGED cimVars
  BY <1>9 DEF cimVars, WalksInv
<1> QED
  BY <1>1, <1>2, <1>3, <1>5, <1>6, <1>7, <1>8, <1>9 DEF CimNext

LEMMA RowsInvStep == CimTyped /\ CimTyped' /\ WalksInv /\ RowsInv /\ [CimNext]_cimVars => RowsInv'
<1> SUFFICES ASSUME CimTyped, CimTyped', WalksInv, RowsInv, [CimNext]_cimVars PROVE RowsInv'
  OBVIOUS
<1>t. /\ walks \in [Clickers -> WalkShapes] /\ stored \in Seq(RowShapes) /\ Len(stored) \in Nat
      /\ DOMAIN stored = 1..Len(stored) /\ \A i \in DOMAIN stored : stored[i] \in RowShapes
  BY DEF CimTyped
<1>n. NoWalk.at = "idle"
  BY DEF NoWalk
<1>w. \A c \in Clickers : /\ walks[c].after \in Nat /\ walks[c] \in WalkShapes
                          /\ walks[c].at \in {"walk", "stamp"} => Walked(walks[c])
  BY <1>t DEF RowsInv, WalkShapes
<1>o. \A c, d \in Clickers : walks[c].at # "idle" /\ walks[d].at # "idle" => c = d
  BY DEF WalksInv
<1>1. CASE CimBoot \/ BuildView \/ FinishViews \/ InitCimRaises
  <2>1. UNCHANGED <<walks, stored>> /\ cimPhase # "up"
    BY <1>1 DEF CimBoot, BuildView, FinishViews, InitCimRaises, KeepsJobs
  <2>2. \A c \in Clickers : walks'[c].at = "idle"
    BY <2>1 DEF WalksInv
  <2>3. cimMeta' = cimMeta \/ (cimMeta = <<>> /\ cimMeta' = <<{}>>)
    BY <1>1 DEF CimBoot, BuildView, FinishViews, InitCimRaises, StampKept
  <2> QED
    BY <2>1, <2>2, <2>3 DEF RowsInv, StampTells
<1>2. CASE CimStops
  BY <1>2, <1>n DEF CimStops, RowsInv
<1>3. ASSUME UNCHANGED <<walks, stored, cimMeta, liveModels>> PROVE RowsInv'
  BY <1>3 DEF RowsInv, Walked, TagsIn
<1>4. CASE EditModels \/ PackComesOrGoes \/ AnalystBuilds \/ AnalystDrops \/ DriftReads \/ DriftLoads
  BY <1>3, <1>4 DEF EditModels, PackComesOrGoes, AnalystBuilds, AnalystDrops, DriftReads, DriftLoads, KeepsJobs
<1>5. CASE StoreEvent1
  <2>1. PICK s \in EventShapes :
          stored' = Append(stored, [shape |-> s, tags |-> TagsIn(liveModels, s), since |-> TRUE])
    BY <1>5 DEF StoreEvent1
  <2>2. UNCHANGED <<walks, cimMeta, liveModels>>
    BY <1>5 DEF StoreEvent1, KeepsJobs
  <2>3. /\ Len(stored') = Len(stored) + 1 /\ DOMAIN stored' = 1..(Len(stored) + 1)
        /\ stored'[Len(stored) + 1].since /\ \A i \in DOMAIN stored : stored'[i] = stored[i]
    BY <2>1, <1>t
  <2>4. \A i \in DOMAIN stored' : i \in DOMAIN stored \/ (i = Len(stored) + 1 /\ stored'[i].since)
    BY <2>3, <1>t
  <2>5. ASSUME NEW c \in Clickers, walks[c].at \in {"walk", "stamp"} PROVE Walked(walks[c])'
    <3>1. Walked(walks[c]) /\ walks[c].after \in Nat
      BY <2>5, <1>w
    <3>2. \A i \in 1..walks[c].after : i \in DOMAIN stored
      BY <3>1, <1>t DEF Walked
    <3> QED
      BY <2>2, <2>3, <2>4, <3>1, <3>2, <1>t DEF Walked, TagsIn
  <2>6. \A i \in DOMAIN stored' : StampTells(cimMeta', stored'[i])
    BY <2>2, <2>3, <2>4 DEF RowsInv, StampTells
  <2> QED
    BY <2>2, <2>5, <2>6 DEF RowsInv
<1>6. ASSUME NEW c \in Clickers, Click(c) PROVE RowsInv'
  <2>1. walks' = [walks EXCEPT ![c].at = "audit"] /\ UNCHANGED <<stored, cimMeta, liveModels>>
    BY <1>6 DEF Click, KeepsStored
  <2>2. walks'[c].at = "audit" /\ \A d \in Clickers \ {c} : walks'[d] = walks[d]
    BY <2>1, <1>t DEF WalkShapes
  <2> QED
    BY <2>1, <2>2 DEF RowsInv, Walked, TagsIn
<1>7. ASSUME NEW c \in Clickers, StartJob(c) PROVE RowsInv'
  <2> DEFINE p == [at |-> "walk", after |-> 0, covers |-> DOMAIN stored]
  <2>1. walks' = [walks EXCEPT ![c] = p] /\ UNCHANGED <<stored, cimMeta, liveModels>>
    BY <1>7 DEF StartJob, KeepsStored
  <2>2. Walked(p)
    BY <1>t DEF Walked
  <2>3. \A d \in Clickers : walks'[d] = IF d = c THEN p ELSE walks[d]
    BY <2>1, <1>t
  <2> HIDE DEF p
  <2> QED
    BY <2>1, <2>2, <2>3 DEF RowsInv, Walked, TagsIn
<1>8. ASSUME NEW c \in Clickers, AuditRaises(c) \/ JobFails(c) PROVE RowsInv'
  <2>1. walks' = [walks EXCEPT ![c] = NoWalk] /\ UNCHANGED <<stored, cimMeta, liveModels>>
    BY <1>8 DEF AuditRaises, JobFails, KeepsStored
  <2>2. \A d \in Clickers : walks'[d] = IF d = c THEN NoWalk ELSE walks[d]
    BY <2>1, <1>t
  <2> QED
    BY <2>1, <2>2, <1>n DEF RowsInv, Walked, TagsIn
<1>9. ASSUME NEW c \in Clickers, WalkPage(c) PROVE RowsInv'
  <2> DEFINE page == PageAfter(walks[c].after)
             n == walks[c].after
  <2>1. /\ walks[c].at = "walk" /\ stored' = Retagged(page)
        /\ walks' = [walks EXCEPT ![c].after = @ + Cardinality(page), ![c].at = IF IsLastPage(page) THEN "stamp" ELSE "walk"]
        /\ UNCHANGED <<cimMeta, liveModels>>
    BY <1>9 DEF WalkPage, KeepsStored
  <2>2. Walked(walks[c]) /\ n \in Nat /\ n <= Len(stored)
    BY <2>1, <1>w DEF Walked
  <2>3. /\ Cardinality(page) \in Nat /\ n + Cardinality(page) <= Len(stored)
        /\ page = (n + 1)..(n + Cardinality(page))
        /\ IsLastPage(page) => n + Cardinality(page) = Len(stored)
    BY <2>2, <1>t, OnePage
  <2>4. /\ walks'[c].after = n + Cardinality(page) /\ walks'[c].covers = walks[c].covers
        /\ walks'[c].at = (IF IsLastPage(page) THEN "stamp" ELSE "walk")
    BY <2>1, <1>t, <1>w DEF WalkShapes
  <2>5. \A d \in Clickers \ {c} : walks'[d].at = "idle"
    BY <2>1, <1>t, <1>o
  <2>6. DOMAIN stored' = DOMAIN stored /\ Len(stored') = Len(stored)
    <3>1. DOMAIN Retagged(page) = 1..Len(stored)
      BY <1>t DEF Retagged
    <3>2. stored' \in Seq(RowShapes)
      BY DEF CimTyped
    <3> HIDE DEF page
    <3>3. DOMAIN stored' = 1..Len(stored')
      BY <3>2
    <3> QED
      BY <2>1, <3>1, <3>2, <3>3, <1>t
  <2>7. \A i \in DOMAIN stored :
          \/ stored'[i] = stored[i] /\ (i \notin page \/ stored[i].tags = TagsIn(liveModels, stored[i].shape))
          \/ /\ stored'[i].shape = stored[i].shape /\ stored'[i].since
             /\ stored'[i].tags = TagsIn(liveModels, stored[i].shape)
    <3> HIDE DEF page
    <3> SUFFICES ASSUME NEW i \in DOMAIN stored
                 PROVE  \/ stored'[i] = stored[i] /\ (i \notin page \/ stored[i].tags = TagsIn(liveModels, stored[i].shape))
                        \/ /\ stored'[i].shape = stored[i].shape /\ stored'[i].since
                           /\ stored'[i].tags = TagsIn(liveModels, stored[i].shape)
      OBVIOUS
    <3>1. stored[i] \in RowShapes
      BY <1>t
    <3>2. CASE i \in page /\ stored[i].tags # TagsIn(liveModels, stored[i].shape)
      <4>1. stored'[i] = [stored[i] EXCEPT !.tags = TagsIn(liveModels, stored[i].shape), !.since = TRUE]
        BY <2>1, <3>2 DEF Retagged
      <4> QED
        BY <4>1, <3>1 DEF RowShapes
    <3>3. CASE ~(i \in page /\ stored[i].tags # TagsIn(liveModels, stored[i].shape))
      BY <2>1, <3>3 DEF Retagged
    <3> QED
      BY <3>2, <3>3
  <2> HIDE DEF page
  <2>8. \A i \in DOMAIN stored' : StampTells(cimMeta', stored'[i])
    BY <2>1, <2>6, <2>7 DEF RowsInv, StampTells
  <2>t. \A i \in DOMAIN stored : stored[i].tags = TagsIn(liveModels, stored[i].shape)
                                 => stored'[i].tags = TagsIn(liveModels', stored'[i].shape)
    BY <2>1, <2>7 DEF TagsIn
  <2>9. Walked(walks[c])'
    <3>1. \A i \in 1..walks'[c].after : i \in DOMAIN stored /\ (i \in 1..n \/ i \in page)
      BY <2>2, <2>3, <2>4, <1>t
    <3>2. \A i \in 1..walks'[c].after : stored'[i].tags = TagsIn(liveModels', stored'[i].shape)
      <4> SUFFICES ASSUME NEW i \in 1..walks'[c].after PROVE stored'[i].tags = TagsIn(liveModels', stored'[i].shape)
        OBVIOUS
      <4>1. i \in DOMAIN stored /\ (i \in 1..n \/ i \in page)
        BY <3>1
      <4>2. CASE i \in 1..n
        <5>1. stored[i].tags = TagsIn(liveModels, stored[i].shape)
          BY <2>2, <4>2 DEF Walked
        <5> QED
          BY <5>1, <4>1, <2>t
      <4>3. CASE i \in page
        <5>1. stored'[i].tags = TagsIn(liveModels, stored'[i].shape)
          BY <4>1, <4>3, <2>7
        <5> QED
          BY <5>1, <2>1
      <4> QED
        BY <4>1, <4>2, <4>3
    <3>3. walks'[c].after <= Len(stored') /\ walks'[c].covers \subseteq DOMAIN stored'
      BY <2>2, <2>3, <2>4, <2>6 DEF Walked
    <3>4. \A i \in DOMAIN stored' \ walks'[c].covers : stored'[i].since
      BY <2>2, <2>4, <2>6, <2>7 DEF Walked
    <3>5. walks'[c].at = "stamp" => walks'[c].covers \subseteq 1..walks'[c].after
      <4>1. walks'[c].at = "stamp" => walks'[c].after = Len(stored)
        BY <2>3, <2>4
      <4> QED
        BY <4>1, <2>4, <2>2, <1>t DEF Walked
    <3> QED
      BY <3>2, <3>3, <3>4, <3>5 DEF Walked
  <2> QED
    BY <2>5, <2>8, <2>9 DEF RowsInv
<1>10. ASSUME NEW c \in Clickers, StampWalk(c) PROVE RowsInv'
  <2>1. /\ walks[c].at = "stamp" /\ walks' = [walks EXCEPT ![c] = NoWalk] /\ UNCHANGED liveModels
        /\ cimMeta' = IF cimMeta = <<>> THEN <<>> ELSE <<{BackfillHash}>>
        /\ stored' = [i \in DOMAIN stored |->
                IF cimMeta # <<>> /\ i \in walks[c].covers THEN [stored[i] EXCEPT !.since = FALSE] ELSE stored[i]]
    BY <1>10 DEF StampWalk, KeepsStored
  <2>2. \A d \in Clickers : walks'[d].at = "idle"
    BY <2>1, <1>t, <1>o, <1>n
  <2>3. CASE cimMeta = <<>>
    BY <2>1, <2>2, <2>3 DEF RowsInv, StampTells
  <2>4. CASE cimMeta # <<>>
    <3>1. cimMeta' = <<{FingerprintOfTags(liveModels)}>>
      BY <2>1, <2>4 DEF BackfillHash
    <3>2. SUFFICES ASSUME NEW i \in DOMAIN stored', ~stored'[i].since
                   PROVE  stored'[i].tags = TagsUnder(FingerprintOfTags(liveModels), stored'[i].shape)
      BY <2>2, <3>1 DEF RowsInv, StampTells
    <3>3. i \in DOMAIN stored /\ stored[i] \in RowShapes
      BY <2>1, <3>2, <1>t
    <3>4. Walked(walks[c])
      BY <2>1, <1>w
    <3>5. i \in walks[c].covers
      BY <2>1, <3>2, <3>3, <3>4 DEF Walked
    <3>6. stored[i].tags = TagsIn(liveModels, stored[i].shape)
      BY <2>1, <3>4, <3>5 DEF Walked
    <3>7. stored'[i] = [stored[i] EXCEPT !.since = FALSE]
      BY <2>1, <2>4, <3>3, <3>5
    <3>8. stored'[i].tags = stored[i].tags /\ stored'[i].shape = stored[i].shape
      BY <3>3, <3>7 DEF RowShapes
    <3> QED
      BY <3>6, <3>8, TagsOfFingerprint
  <2> QED
    BY <2>3, <2>4
<1>11. CASE UNCHANGED cimVars
  BY <1>3, <1>11 DEF cimVars
<1> QED
  BY <1>1, <1>2, <1>4, <1>5, <1>6, <1>7, <1>8, <1>9, <1>10, <1>11 DEF CimNext

(* The registry's two sides agree with it in every reachable state, for any *)
(* files, packs, shapes and page size: a status that shows nothing owed is  *)
(* true, the views are of the registry that serves, and at most one walk    *)
(* runs (db.py:743-1052, main.py:1680-1702).                                *)
THEOREM CimStoreStaysTrue == CimSpec => []CimStoreIsTrue
<1> DEFINE Inv == CimTyped /\ ViewsInv /\ WalksInv /\ RowsInv /\ DiskInv
<1>1. CimInit => Inv
  BY CimInvInit
<1>2. Inv /\ [CimNext]_cimVars => Inv'
  BY CimTypedStep, ViewsInvStep, WalksInvStep, RowsInvStep, DiskInvStep
<1>3. Inv => CimStoreIsTrue
  <2> SUFFICES ASSUME Inv PROVE CimStoreIsTrue
    OBVIOUS
  <2>1. GreenMeansCurrent
    <3> SUFFICES ASSUME cimPhase = "up", ~BackfillDue, ~RestartRequired, NEW i \in DOMAIN stored, ~stored[i].since
                 PROVE  stored[i].tags = TagsIn(liveModels, stored[i].shape)
      BY DEF GreenMeansCurrent
    <3>1. TargetHash = FingerprintOfTags(liveModels)
      BY DEF RestartRequired, TargetHash
    <3>2. cimMeta[1] = {FingerprintOfTags(liveModels)}
      BY <3>1 DEF BackfillDue
    <3>3. \E h \in cimMeta[1] : stored[i].tags = TagsUnder(h, stored[i].shape)
      BY DEF RowsInv, StampTells
    <3>4. stored[i].tags = TagsUnder(FingerprintOfTags(liveModels), stored[i].shape)
      BY <3>2, <3>3
    <3> QED
      BY <3>4, TagsOfFingerprint
  <2>2. OneWalkRuns
    <3> DEFINE busy == {c \in Clickers : walks[c].at # "idle"}
    <3>1. CASE busy = {}
      <4>1. Cardinality(busy) = 0
        BY <3>1, FS_EmptySet
      <4> HIDE DEF busy
      <4>2. (jobState = "running" => stuck) /\ Cardinality(busy) <= 1
        BY <3>1, <4>1 DEF WalksInv, busy
      <4> QED
        BY <3>1, <4>2 DEF OneWalkRuns, busy
    <3>2. CASE busy # {}
      <4>1. PICK c \in busy : TRUE
        BY <3>2
      <4>2. busy = {c} /\ jobState = "running"
        BY <4>1 DEF WalksInv
      <4>3. Cardinality({c}) = 1
        BY FS_Singleton
      <4>4. Cardinality(busy) <= 1
        BY <4>2, <4>3
      <4> HIDE DEF busy
      <4> QED
        BY <3>2, <4>2, <4>4 DEF OneWalkRuns, busy
    <3> QED
      BY <3>1, <3>2
  <2> QED
    BY <2>1, <2>2 DEF CimStoreIsTrue, CimTyped, DiskInv, ViewsInv
<1> HIDE DEF Inv
<1> QED
  BY <1>1, <1>2, <1>3, PTL DEF CimSpec

(* The caches over the registry and what the database keeps of it follow    *)
(* the registry together.                                                   *)
THEOREM DataModelsStayTrue == GateSpec /\ CimSpec => []DataModelsAreTrue
<1>1. GatesFollowRegistry /\ CimStoreIsTrue => DataModelsAreTrue
  BY DEF DataModelsAreTrue
<1> QED
  BY <1>1, GatesFollow, CimStoreStaysTrue, PTL

-----------------------------------------------------------------------------
(***************************************************************************)
(* The backfills.                                                          *)
(*                                                                         *)
(* What a stamp says of the whole history a walk that will stamp says of   *)
(* the rows it has passed: they carry its column, and its half of the tags *)
(* as long as the two walks never met.  A walk that holds an older version *)
(* than the live one is no danger to the stamp, which is then older too,   *)
(* but for the walk that found the registry unread.                        *)
(***************************************************************************)
Pins == [assets : Nat, geo : Nat]
EventRow == [at : {"none", "open", "stored", "lost"}, asset : Nat, geo : Nat, tags : Nat \X Nat]
Walks == {NotRunning}
         \cup [at : {"read", "finish"}, cursor : Nat, full : BOOLEAN, pin : Pins]
         \cup [at : {"write"}, cursor : Nat, full : BOOLEAN, pin : Pins, short : BOOLEAN, changed : SUBSET RowIds]

Active(r) == run[r].at # "idle"
Column(row, r) == IF r = "assets" THEN row.asset ELSE row.geo
Half(row, r) == IF r = "assets" THEN row.tags[1] ELSE row.tags[2]
Carries(i, r) == Column(events[i], r) = Live(r) /\ (crossed \/ Half(events[i], r) = Live(r))
Exempt(r) == late \cup IF r = "assets" THEN stripped ELSE {}
Serves(r) == r = "assets" => assetLive # 0

\* The walk will not come back to the row.
Passed(t, i) ==
    \/ t.at = "read" /\ i <= t.cursor
    \/ t.at = "write" /\ (i <= t.cursor \/ t.short) /\ i \notin t.changed
    \/ t.at = "finish"

BackfillTyped ==
    /\ BackfillTypeOK
    /\ events = [i \in RowIds |-> events[i]] /\ run = [r \in Runs |-> run[r]] /\ stamp = [r \in Runs |-> stamp[r]]
    /\ \A i \in RowIds : events[i] \in EventRow /\ (events[i].at = "open" => events[i].tags = <<events[i].asset, events[i].geo>>)
    /\ \A r \in Runs : run[r] \in Walks /\ (run[r].at = "write" => run[r].changed \subseteq Stored)

PinHeld(r) ==
    Active(r) =>
        /\ run[r].pin[r] <= Live(r)
        /\ run[r].pin[r] = Live(r) \/ stamp[r] # Live(r) \/ (r = "assets" /\ run[r].pin["assets"] = 0)
        /\ run[r].pin[Other(r)] = Live(Other(r)) \/ stamp[Other(r)] # Live(Other(r)) \/ crossed
        /\ Active(Other(r)) => crossed

StampHeld(r) == stamp[r] = Live(r) /\ Serves(r) => \A i \in Stored \ Exempt(r) : Carries(i, r)

WalkHeld(r) ==
    Active(r) /\ run[r].full /\ run[r].pin[r] = Live(r) /\ Serves(r)
        => \A i \in Stored \ Exempt(r) : Passed(run[r], i) => Carries(i, r)

BackfillInv == BackfillTyped /\ \A r \in Runs : PinHeld(r) /\ StampHeld(r) /\ WalkHeld(r)
LEMMA LeastRow ==
  ASSUME NEW T \in SUBSET Nat, T # {}
  PROVE  \E x \in T : \A y \in T : x <= y
<1> DEFINE R == OpToRel(<, Nat)
<1>1. IsWellFoundedOn(R, Nat)
  BY NatLessThanWellFounded
<1> HIDE DEF R
<1>2. PICK x \in T : \A y \in T : ~(<<y, x>> \in R)
  BY <1>1, WFMin
<1>3. \A y \in T : <<y, x>> \in R <=> y < x
  BY DEF R, OpToRel
<1>4. \A y \in T : ~(y < x)
  BY <1>2, <1>3
<1> QED
  BY <1>4

(* A page leaves out no row it has gone past, and a short one leaves out   *)
(* none.                                                                   *)
Below(ahead, i) == {j \in ahead : j < i}

LEMMA BelowType ==
  ASSUME NEW ahead, IsFiniteSet(ahead), NEW i
  PROVE  IsFiniteSet(Below(ahead, i)) /\ Cardinality(Below(ahead, i)) \in Nat
<1>1. Below(ahead, i) \in SUBSET ahead
  BY DEF Below
<1>2. IsFiniteSet(Below(ahead, i))
  BY <1>1, FS_Subset
<1> QED
  BY <1>2, FS_CardinalityType

LEMMA PageIsPrefix ==
  ASSUME NEW ahead \in SUBSET Nat, IsFiniteSet(ahead), NEW page \in SUBSET ahead,
         \A i \in ahead : i \in page <=> Cardinality(Below(ahead, i)) < Chunk
  PROVE  /\ \A i \in ahead, k \in page : i <= k => i \in page
         /\ Cardinality(page) < Chunk => page = ahead
<1>0. Chunk \in Nat
  BY BackfillAssumption
<1>1. ASSUME NEW i \in ahead, NEW k \in page, i <= k PROVE i \in page
  <2>1. Below(ahead, i) \in SUBSET Below(ahead, k)
    <3> SUFFICES ASSUME NEW j \in ahead, j < i PROVE j < k
      BY DEF Below
    <3>1. j \in Nat /\ i \in Nat /\ k \in Nat
      OBVIOUS
    <3> QED
      BY <1>1, <3>1
  <2>2. IsFiniteSet(Below(ahead, k)) /\ Cardinality(Below(ahead, k)) \in Nat /\ Cardinality(Below(ahead, i)) \in Nat
    BY BelowType
  <2>3. Cardinality(Below(ahead, i)) <= Cardinality(Below(ahead, k))
    BY <2>1, <2>2, FS_Subset
  <2>4. Cardinality(Below(ahead, k)) < Chunk
    OBVIOUS
  <2> QED
    BY <1>0, <2>2, <2>3, <2>4
<1>2. ASSUME Cardinality(page) < Chunk, ahead \ page # {} PROVE FALSE
  <2>1. PICK m \in ahead \ page : \A y \in ahead \ page : m <= y
    <3>1. ahead \ page \in SUBSET Nat
      OBVIOUS
    <3> QED
      BY <1>2, <3>1, LeastRow
  <2>2. Below(ahead, m) \in SUBSET page
    <3> SUFFICES ASSUME NEW j \in ahead, j < m, j \notin page PROVE FALSE
      BY DEF Below
    <3>1. j \in Nat /\ m \in Nat /\ m <= j
      BY <2>1
    <3> QED
      BY <3>1
  <2>3. IsFiniteSet(page)
    BY FS_Subset
  <2>4. Cardinality(Below(ahead, m)) <= Cardinality(page)
    BY <2>2, <2>3, FS_Subset
  <2>5. Cardinality(page) \in Nat /\ Cardinality(Below(ahead, m)) \in Nat
    BY <2>3, FS_CardinalityType, BelowType
  <2>6. ~(Cardinality(Below(ahead, m)) < Chunk)
    BY <2>1
  <2> QED
    BY <1>0, <1>2, <2>4, <2>5, <2>6
<1> QED
  BY <1>1, <1>2

LEMMA BackfillInvInit == BackfillInit => BackfillInv
<1> SUFFICES ASSUME BackfillInit PROVE BackfillInv
  OBVIOUS
<1>1. /\ assetLive = 0 /\ geoLive = 0 /\ late = {} /\ stripped = {}
      /\ events = [i \in RowIds |-> Absent] /\ run = [r \in Runs |-> NotRunning]
      /\ stamp = [r \in Runs |-> IF r = "geo" THEN 0 ELSE NoStamp]
  BY DEF BackfillInit
<1>2. \A i \in RowIds : events[i] = Absent
  BY <1>1
<1>3. Absent \in EventRow /\ Absent.at = "none"
  BY DEF Absent, EventRow
<1>4. \A r \in Runs : run[r] = NotRunning /\ run[r].at = "idle" /\ stamp[r] \in {0, -1} /\ Live(r) = 0
  BY <1>1 DEF NotRunning, NoStamp, Live
<1>5. Stored = {}
  BY <1>2, <1>3 DEF Stored
<1>6. BackfillTypeOK
  BY <1>1, <1>2, <1>3, <1>4, BackfillAssumption DEF BackfillTypeOK, NoStamp
<1>7. BackfillTyped
  BY <1>1, <1>2, <1>3, <1>4, <1>6 DEF BackfillTyped, Walks
<1> QED
  BY <1>4, <1>5, <1>7 DEF BackfillInv, PinHeld, StampHeld, WalkHeld, Active

(* What a step leaves that touches neither the walks nor what stored rows  *)
(* hold.                                                                   *)
LEMMA RowsRest ==
  ASSUME BackfillInv, Stored' = Stored, \A i \in Stored : events'[i] = events[i],
         UNCHANGED <<assetLive, geoLive, run, stamp, late, crossed, stripped>>, BackfillTyped'
  PROVE  BackfillInv'
<1>1. ASSUME NEW r \in Runs PROVE PinHeld(r)' /\ StampHeld(r)' /\ WalkHeld(r)'
  <2>1. PinHeld(r) /\ StampHeld(r) /\ WalkHeld(r)
    BY DEF BackfillInv
  <2>2. PinHeld(r)'
    BY <2>1 DEF PinHeld, Active, Live, Other
  <2>3. \A i \in Stored : Carries(i, r)' <=> Carries(i, r)
    BY DEF Carries, Live
  <2>4. StampHeld(r)'
    BY <2>1, <2>3 DEF StampHeld, Live, Serves, Exempt
  <2>5. WalkHeld(r)'
    BY <2>1, <2>3 DEF WalkHeld, Live, Serves, Exempt, Active
  <2> QED
    BY <2>2, <2>4, <2>5
<1> QED
  BY <1>1 DEF BackfillInv

LEMMA InsertKeeps == ASSUME BackfillInv, NEW i \in RowIds, Insert(i) PROVE BackfillInv'
<1>1. /\ events[i].at = "none"
      /\ UNCHANGED <<assetLive, geoLive, registryRead, run, resume, stamp, runs, restartsDone, late, crossed, stripped>>
  BY DEF Insert, liveIndexes
<1>2. BackfillTyped /\ BackfillTypeOK
  BY DEF BackfillInv, BackfillTyped
<1>3. PICK a \in {assetLive, 0} : events' = [events EXCEPT ![i] = [at |-> "open", asset |-> a, geo |-> geoLive, tags |-> <<a, geoLive>>]]
  BY DEF Insert, RegistryAnswers
<1>4. assetLive \in Nat /\ geoLive \in Nat
  BY <1>2, BackfillAssumption DEF BackfillTypeOK
<1>5. \A j \in RowIds : j # i => events'[j] = events[j]
  BY <1>2, <1>3 DEF BackfillTyped
<1>6. events'[i] = [at |-> "open", asset |-> a, geo |-> geoLive, tags |-> <<a, geoLive>>]
  BY <1>2, <1>3 DEF BackfillTyped
<1>7. events'[i].at = "open" /\ events'[i].asset = a /\ events'[i].geo = geoLive /\ events'[i].tags = <<a, geoLive>> /\ events'[i] \in EventRow
  BY <1>3, <1>4, <1>6 DEF EventRow
<1>8. Stored' = Stored /\ \A j \in Stored : j # i
  BY <1>1, <1>5, <1>7 DEF Stored
<1>9. BackfillTyped'
  <2>1. BackfillTypeOK'
    BY <1>1, <1>2, <1>5, <1>7, <1>8 DEF BackfillTypeOK, Live
  <2>2. events' = [j \in RowIds |-> events'[j]]
    BY <1>2, <1>3 DEF BackfillTyped
  <2>3. \A j \in RowIds : events'[j] \in EventRow /\ (events'[j].at = "open" => events'[j].tags = <<events'[j].asset, events'[j].geo>>)
    BY <1>2, <1>5, <1>7 DEF BackfillTyped
  <2> QED
    BY <1>1, <1>2, <1>8, <2>1, <2>2, <2>3 DEF BackfillTyped
<1> QED
  BY <1>1, <1>5, <1>8, <1>9, RowsRest DEF Stored
LEMMA CommitKeeps == ASSUME BackfillInv, NEW i \in RowIds, CommitInsert(i) PROVE BackfillInv'
<1>1. /\ events[i].at = "open" /\ events' = [events EXCEPT ![i].at = "stored"]
      /\ UNCHANGED <<assetLive, geoLive, run, stamp, crossed, stripped>>
  BY DEF CommitInsert, liveIndexes
<1>2. /\ late' = late \/ late' = late \cup {i}
      /\ events[i].asset # assetLive /\ Behind("assets", i) => i \in late'
      /\ events[i].geo # geoLive /\ Behind("geo", i) => i \in late'
  BY DEF CommitInsert
<1>3. BackfillTyped /\ BackfillTypeOK /\ events[i] \in EventRow /\ events[i].tags = <<events[i].asset, events[i].geo>>
  BY <1>1 DEF BackfillInv, BackfillTyped
<1>4. \A j \in RowIds : j # i => events'[j] = events[j]
  BY <1>1, <1>3 DEF BackfillTyped
<1>5. events'[i] = [events[i] EXCEPT !.at = "stored"]
  BY <1>1, <1>3 DEF BackfillTyped
<1>6. /\ events'[i].at = "stored" /\ events'[i].asset = events[i].asset /\ events'[i].geo = events[i].geo
      /\ events'[i].tags = events[i].tags /\ events'[i] \in EventRow
  BY <1>3, <1>5 DEF EventRow
<1>7. Stored' = Stored \cup {i} /\ i \notin Stored
  BY <1>1, <1>4, <1>6 DEF Stored
<1>8. BackfillTyped'
  <2>1. BackfillTypeOK'
    BY <1>1, <1>2, <1>3, <1>4, <1>6, <1>7 DEF BackfillTypeOK, Live
  <2>2. events' = [j \in RowIds |-> events'[j]]
    BY <1>1, <1>3 DEF BackfillTyped
  <2>3. \A j \in RowIds : events'[j] \in EventRow /\ (events'[j].at = "open" => events'[j].tags = <<events'[j].asset, events'[j].geo>>)
    BY <1>3, <1>4, <1>6 DEF BackfillTyped
  <2> QED
    BY <1>1, <1>3, <1>7, <2>1, <2>2, <2>3 DEF BackfillTyped
<1>9. ASSUME NEW r \in Runs PROVE PinHeld(r)' /\ StampHeld(r)' /\ WalkHeld(r)'
  <2>1. PinHeld(r) /\ StampHeld(r) /\ WalkHeld(r)
    BY DEF BackfillInv
  <2>2. PinHeld(r)'
    BY <1>1, <2>1 DEF PinHeld, Active, Live, Other
  <2>3. \A j \in Stored : Carries(j, r)' <=> Carries(j, r)
    BY <1>1, <1>4, <1>7 DEF Carries, Live, Stored
  <2>4. Behind(r, i) /\ i \notin late' => Carries(i, r)'
    <3>1. CASE r = "assets"
      BY <1>1, <1>2, <1>3, <1>6, <3>1 DEF Carries, Column, Half, Live
    <3>2. CASE r = "geo"
      BY <1>1, <1>2, <1>3, <1>6, <3>2 DEF Carries, Column, Half, Live
    <3> QED
      BY <3>1, <3>2 DEF Runs
  <2>5. StampHeld(r)'
    BY <1>1, <1>2, <1>7, <2>1, <2>3, <2>4 DEF StampHeld, Live, Serves, Exempt, Behind
  <2>6. Active(r) /\ run[r].pin[r] = Live(r) /\ Passed(run[r], i) => Behind(r, i)
    BY <1>3 DEF Active, Passed, Behind
  <2>7. WalkHeld(r)'
    BY <1>1, <1>2, <1>7, <2>1, <2>3, <2>4, <2>6 DEF WalkHeld, Live, Serves, Exempt, Active
  <2> QED
    BY <2>2, <2>5, <2>7
<1> QED
  BY <1>8, <1>9 DEF BackfillInv

LEMMA RegistryReloadKeeps == ASSUME BackfillInv, RegistryReload PROVE BackfillInv'
<1>1. /\ assetLive' = assetLive + 1 /\ assetLive < MaxAssetVersion
      /\ UNCHANGED <<geoLive, events, run, stamp, late, crossed, stripped>>
  BY DEF RegistryReload
<1>2. BackfillTyped /\ BackfillTypeOK /\ Stored' = Stored
  BY <1>1 DEF BackfillInv, BackfillTyped, Stored
<1>3. /\ assetLive \in Nat /\ assetLive' \in 0 .. MaxAssetVersion
      /\ stamp["assets"] \in Int /\ stamp["assets"] < assetLive' /\ stamp["assets"] \in NoStamp .. assetLive'
      /\ stamp["geo"] \in NoStamp .. geoLive
  BY <1>1, <1>2, BackfillAssumption DEF BackfillTypeOK, Live, Runs, NoStamp
<1>4. BackfillTypeOK'
  BY <1>1, <1>2, <1>3 DEF BackfillTypeOK, Live, Runs
<1>5. BackfillTyped'
  BY <1>1, <1>2, <1>4 DEF BackfillTyped
<1>6. PinHeld("assets")' /\ StampHeld("assets")' /\ WalkHeld("assets")'
  <2>1. PinHeld("assets")
    BY DEF BackfillInv, Runs
  <2>2. Active("assets") => run["assets"].pin["assets"] \in Nat
    BY <1>2 DEF BackfillTyped, Active, Walks, NotRunning, Pins, Runs
  <2> QED
    BY <1>1, <1>3, <2>1, <2>2 DEF PinHeld, StampHeld, WalkHeld, Active, Live, Other
<1>7. PinHeld("geo")' /\ StampHeld("geo")' /\ WalkHeld("geo")'
  <2>1. PinHeld("geo") /\ StampHeld("geo") /\ WalkHeld("geo")
    BY DEF BackfillInv, Runs
  <2>2. \A i : Carries(i, "geo")' <=> Carries(i, "geo")
    BY <1>1 DEF Carries, Live
  <2>3. PinHeld("geo")'
    BY <1>1, <1>3, <2>1 DEF PinHeld, Active, Live, Other
  <2>4. StampHeld("geo")' /\ WalkHeld("geo")'
    BY <1>1, <1>2, <2>1, <2>2 DEF StampHeld, WalkHeld, Active, Live, Serves, Exempt
  <2> QED
    BY <2>3, <2>4
<1> QED
  BY <1>5, <1>6, <1>7 DEF BackfillInv, Runs

LEMMA GeoReloadKeeps == ASSUME BackfillInv, GeoReload PROVE BackfillInv'
<1>1. /\ geoLive' = geoLive + 1 /\ geoLive < MaxGeoVersion
      /\ UNCHANGED <<assetLive, events, run, stamp, late, crossed, stripped>>
  BY DEF GeoReload
<1>2. BackfillTyped /\ BackfillTypeOK /\ Stored' = Stored
  BY <1>1 DEF BackfillInv, BackfillTyped, Stored
<1>3. /\ geoLive \in Nat /\ geoLive' \in 0 .. MaxGeoVersion
      /\ stamp["geo"] \in Int /\ stamp["geo"] < geoLive' /\ stamp["geo"] \in NoStamp .. geoLive'
      /\ stamp["assets"] \in NoStamp .. assetLive
  BY <1>1, <1>2, BackfillAssumption DEF BackfillTypeOK, Live, Runs, NoStamp
<1>4. BackfillTypeOK'
  BY <1>1, <1>2, <1>3 DEF BackfillTypeOK, Live, Runs
<1>5. BackfillTyped'
  BY <1>1, <1>2, <1>4 DEF BackfillTyped
<1>6. PinHeld("geo")' /\ StampHeld("geo")' /\ WalkHeld("geo")'
  <2>1. PinHeld("geo")
    BY DEF BackfillInv, Runs
  <2>2. Active("geo") => run["geo"].pin["geo"] \in Nat
    BY <1>2 DEF BackfillTyped, Active, Walks, NotRunning, Pins, Runs
  <2> QED
    BY <1>1, <1>3, <2>1, <2>2 DEF PinHeld, StampHeld, WalkHeld, Active, Live, Other
<1>7. PinHeld("assets")' /\ StampHeld("assets")' /\ WalkHeld("assets")'
  <2>1. PinHeld("assets") /\ StampHeld("assets") /\ WalkHeld("assets")
    BY DEF BackfillInv, Runs
  <2>2. \A i : Carries(i, "assets")' <=> Carries(i, "assets")
    BY <1>1 DEF Carries, Live
  <2>3. PinHeld("assets")'
    BY <1>1, <1>3, <2>1 DEF PinHeld, Active, Live, Other
  <2>4. StampHeld("assets")' /\ WalkHeld("assets")'
    BY <1>1, <1>2, <2>1, <2>2 DEF StampHeld, WalkHeld, Active, Live, Serves, Exempt
  <2> QED
    BY <2>3, <2>4
<1> QED
  BY <1>5, <1>6, <1>7 DEF BackfillInv, Runs
LEMMA WalkShape ==
  ASSUME BackfillInv, NEW r \in Runs
  PROVE  /\ run[r] \in Walks /\ (run[r].at = "write" => run[r].changed \subseteq Stored)
         /\ run = [x \in Runs |-> run[x]]
         /\ Active(r) => /\ run[r].at \in {"read", "write", "finish"} /\ run[r].cursor \in Nat /\ run[r].full \in BOOLEAN
                         /\ run[r].pin \in Pins /\ run[r].pin[r] \in Nat
                         /\ (run[r].at = "write" => run[r].short \in BOOLEAN)
<1>1. run[r] \in Walks /\ (run[r].at = "write" => run[r].changed \subseteq Stored) /\ run = [x \in Runs |-> run[x]]
  BY DEF BackfillInv, BackfillTyped
<1>2. Active(r) => /\ run[r].at \in {"read", "write", "finish"} /\ run[r].cursor \in Nat /\ run[r].full \in BOOLEAN
                   /\ run[r].pin \in Pins /\ (run[r].at = "write" => run[r].short \in BOOLEAN)
  BY <1>1 DEF Active, Walks, NotRunning
<1>3. \A pin \in Pins : pin[r] \in Nat
  BY DEF Pins, Runs
<1> QED
  BY <1>1, <1>2, <1>3

(* A walk moves on, and no row and no stamp changes.                       *)
LEMMA WalkMoves ==
  ASSUME BackfillInv, NEW r \in Runs, NEW t \in Walks, run' = [run EXCEPT ![r] = t],
         t.at = "write" => t.changed \subseteq Stored,
         UNCHANGED <<assetLive, geoLive, events, stamp, late, stripped>>, crossed => crossed',
         PinHeld(r)', WalkHeld(r)', t.at # "idle" /\ Active(Other(r)) => crossed'
  PROVE  BackfillInv'
<1>1. run'[r] = t /\ (\A o \in Runs : o # r => run'[o] = run[o]) /\ run' = [x \in Runs |-> run'[x]]
  BY WalkShape
<1>2. BackfillTyped /\ BackfillTypeOK /\ Stored' = Stored
  BY DEF BackfillInv, BackfillTyped, Stored
<1>3. BackfillTyped'
  <2>1. BackfillTypeOK'
    BY <1>2 DEF BackfillTypeOK, Live
  <2>2. \A o \in Runs : run'[o] \in Walks /\ (run'[o].at = "write" => run'[o].changed \subseteq Stored)
    BY <1>1, WalkShape
  <2> QED
    BY <1>1, <1>2, <2>1, <2>2 DEF BackfillTyped
<1>4. \A o \in Runs : \A i : Carries(i, o) => Carries(i, o)'
  BY DEF Carries, Live
<1>5. ASSUME NEW o \in Runs PROVE PinHeld(o)' /\ StampHeld(o)' /\ WalkHeld(o)'
  <2>1. PinHeld(o) /\ StampHeld(o) /\ WalkHeld(o)
    BY DEF BackfillInv
  <2>2. StampHeld(o)'
    BY <1>2, <1>4, <2>1 DEF StampHeld, Live, Serves, Exempt
  <2>3. CASE o = r
    BY <2>2, <2>3
  <2>4. CASE o # r
    <3>1. run'[o] = run[o] /\ Other(o) = r /\ Other(r) = o
      BY <1>1, <2>4 DEF Other, Runs
    <3>2. PinHeld(o)'
      BY <1>1, <2>1, <3>1 DEF PinHeld, Active, Live
    <3>3. WalkHeld(o)'
      BY <1>2, <1>4, <2>1, <3>1 DEF WalkHeld, Active, Live, Serves, Exempt
    <3> QED
      BY <2>2, <3>2, <3>3
  <2> QED
    BY <2>3, <2>4
<1> QED
  BY <1>3, <1>5 DEF BackfillInv

LEMMA BeginsKeeps == ASSUME BackfillInv, NEW r \in Runs, NEW start \in {0} \cup RowIds, BackfillBegins(r, start) PROVE BackfillInv'
<1>1. PICK a \in {assetLive, 0} :
         /\ ~Degraded(r, a)
         /\ run' = [run EXCEPT ![r] = [at |-> "read", cursor |-> start, full |-> FullPass(start),
                                       pin |-> [assets |-> a, geo |-> geoLive]]]
  BY DEF BackfillBegins, RegistryAnswers, Set
<1>2. /\ UNCHANGED <<assetLive, geoLive, events, stamp, late, stripped>>
      /\ crossed' = (crossed \/ run[Other(r)] # NotRunning)
  BY DEF BackfillBegins, liveIndexes
<1>3. crossed => crossed'
  BY <1>2
<1>4. Active(Other(r)) => crossed'
  <2>1. run[Other(r)] # NotRunning => crossed'
    BY <1>2, Zenon
  <2>2. run[Other(r)] = NotRunning => run[Other(r)].at = "idle"
    BY DEF NotRunning
  <2> QED
    BY <2>1, <2>2 DEF Active
<1> DEFINE t == [at |-> "read", cursor |-> start, full |-> FullPass(start), pin |-> [assets |-> a, geo |-> geoLive]]
<1>5. BackfillTypeOK /\ assetLive \in Nat /\ geoLive \in Nat /\ start \in Nat
  BY BackfillAssumption DEF BackfillInv, BackfillTyped, BackfillTypeOK
<1>6. t \in Walks
  BY <1>5 DEF Walks, Pins, FullPass
<1>7. /\ t.at = "read" /\ t.cursor = start /\ (t.full => start = 0)
      /\ t.pin["assets"] = a /\ t.pin["geo"] = geoLive
  BY DEF FullPass
<1>8. run' = [run EXCEPT ![r] = t]
  BY <1>1
<1> HIDE DEF t
<1>9. run'[r] = t /\ run'[Other(r)] = run[Other(r)]
  BY <1>8, WalkShape DEF Other, Runs
<1>10. PinHeld(r)'
  <2>1. Active(Other(r))' => crossed'
    BY <1>4, <1>9 DEF Active
  <2>2. CASE r = "assets"
    <3>1. Active(Other(r))' => crossed'
      BY <2>1
    <3> QED
      BY <1>1, <1>2, <1>5, <1>7, <1>9, <2>1, <2>2 DEF PinHeld, Live, Other
  <2>3. CASE r = "geo"
    <3>1. a = assetLive
      BY <1>1, <2>3 DEF Degraded
    <3> QED
      BY <1>2, <1>5, <1>7, <1>9, <2>1, <2>3, <3>1 DEF PinHeld, Live, Other
  <2> QED
    BY <2>2, <2>3 DEF Runs
<1>11. WalkHeld(r)'
  <2>1. \A i \in Stored : i \in Nat /\ i # 0
    BY BackfillAssumption DEF Stored
  <2>2. Stored' = Stored
    BY <1>2 DEF Stored
  <2>3. run'[r].full => \A i \in Stored : ~Passed(run'[r], i)
    BY <1>7, <1>9, <2>1 DEF Passed
  <2> QED
    BY <2>2, <2>3 DEF WalkHeld
<1>12. t.at = "write" => t.changed \subseteq Stored
  BY <1>7
<1> QED
  BY <1>2, <1>3, <1>4, <1>6, <1>8, <1>10, <1>11, <1>12, WalkMoves

LEMMA StopsKeeps == ASSUME BackfillInv, NEW r \in Runs, BackfillStops(r) PROVE BackfillInv'
<1>1. run' = [run EXCEPT ![r] = NotRunning] /\ UNCHANGED <<assetLive, geoLive, events, stamp, late, stripped, crossed>>
  BY DEF BackfillStops, Set, liveIndexes
<1>2. run'[r] = NotRunning /\ NotRunning \in Walks /\ NotRunning.at = "idle"
  BY <1>1, WalkShape DEF Walks, NotRunning
<1>3. PinHeld(r)' /\ WalkHeld(r)'
  BY <1>2 DEF PinHeld, WalkHeld, Active
<1> QED
  BY <1>1, <1>2, <1>3, WalkMoves

LEMMA ReadKeeps == ASSUME BackfillInv, NEW r \in Runs, ReadChunk(r) PROVE BackfillInv'
<1> DEFINE page == Page(run[r].cursor)
           ahead == {i \in Stored : i > run[r].cursor}
<1>1. /\ run[r].at = "read" /\ Active(r) /\ UNCHANGED <<assetLive, geoLive, events, stamp, late, stripped, crossed>>
      /\ Stored' = Stored
  BY DEF ReadChunk, liveIndexes, Active, Stored
<1>2. run[r].cursor \in Nat /\ run[r].full \in BOOLEAN /\ run[r].pin \in Pins /\ run[r].pin[r] \in Nat /\ run[r] \in Walks
  BY <1>1, WalkShape
<1>3. \A i \in Stored : i \in RowIds /\ i \in Nat /\ i # 0
  BY BackfillAssumption DEF Stored
<1>4. ahead \in SUBSET Nat /\ ahead \in SUBSET Stored /\ IsFiniteSet(ahead)
  <2>1. ahead \in SUBSET Nat /\ ahead \in SUBSET RowIds
    BY <1>3
  <2> QED
    BY <2>1, FS_Subset, BackfillAssumption
<1>5. page \in SUBSET ahead /\ \A i \in ahead : i \in page <=> Cardinality(Below(ahead, i)) < Chunk
  BY DEF Page, Below
<1> HIDE DEF page
<1>6. /\ \A i \in ahead, k \in page : i <= k => i \in page
      /\ Cardinality(page) < Chunk => page = ahead
  <2> HIDE DEF ahead
  <2> QED
    BY <1>4, <1>5, PageIsPrefix
<1>7. PinHeld(r) /\ WalkHeld(r)
  BY DEF BackfillInv
<1>8. CASE page = {} /\ run' = [run EXCEPT ![r] = [run[r] EXCEPT !.at = "finish"]]
  <2> DEFINE t == [run[r] EXCEPT !.at = "finish"]
  <2>1. run[r] \in [at : {"read", "finish"}, cursor : Nat, full : BOOLEAN, pin : Pins]
    BY <1>1, <1>2 DEF Walks, NotRunning
  <2>2. t \in Walks /\ t.at = "finish" /\ t.pin = run[r].pin /\ t.full = run[r].full
    BY <2>1 DEF Walks
  <2>3. run' = [run EXCEPT ![r] = t]
    BY <1>8
  <2> HIDE DEF t
  <2>4. run'[r] = t /\ run'[Other(r)] = run[Other(r)]
    BY <2>3, WalkShape DEF Other, Runs
  <2>5. PinHeld(r)'
    BY <1>1, <1>7, <2>2, <2>4 DEF PinHeld, Active, Live
  <2>6. ahead = {}
    <3>1. Cardinality(page) = 0 /\ Chunk \in Nat \ {0}
      BY <1>8, FS_EmptySet, BackfillAssumption
    <3> QED
      BY <1>6, <1>8, <3>1
  <2>7. \A i \in Stored : i <= run[r].cursor
    BY <1>2, <1>3, <2>6
  <2>8. WalkHeld(r)'
    <3>1. \A i \in Stored : Passed(run[r], i)
      BY <1>1, <2>7 DEF Passed
    <3>2. \A i : Carries(i, r)' <=> Carries(i, r)
      BY <1>1 DEF Carries, Live
    <3> QED
      BY <1>1, <1>7, <2>2, <2>4, <3>1, <3>2 DEF WalkHeld, Active, Live, Serves, Exempt
  <2>9. Active(Other(r)) => crossed'
    BY <1>1, <1>7 DEF PinHeld
  <2> QED
    BY <1>1, <2>2, <2>3, <2>5, <2>8, <2>9, WalkMoves
<1>9. ASSUME NEW last \in page, \A i \in page : i <= last,
             run' = [run EXCEPT ![r] = [at |-> "write", full |-> run[r].full, pin |-> run[r].pin,
                                        cursor |-> last, short |-> Cardinality(page) < Chunk,
                                        changed |-> {i \in page : Derived(r, events[i]) # events[i]}]]
      PROVE  BackfillInv'
  <2> DEFINE changed == {i \in page : Derived(r, events[i]) # events[i]}
             short == Cardinality(page) < Chunk
             t == [at |-> "write", full |-> run[r].full, pin |-> run[r].pin, cursor |-> last, short |-> short, changed |-> changed]
  <2>1. changed \in SUBSET page /\ last \in Nat /\ short \in BOOLEAN /\ page \in SUBSET Stored /\ page \in SUBSET RowIds
    BY <1>3, <1>4, <1>5
  <2>2. \A i \in page : i \notin changed => Derived(r, events[i]) = events[i]
    OBVIOUS
  <2> HIDE DEF changed, short
  <2>3. t \in Walks /\ t.changed \subseteq Stored
    BY <1>2, <2>1 DEF Walks
  <2>4. t.at = "write" /\ t.pin = run[r].pin /\ t.full = run[r].full /\ t.cursor = last /\ t.short = short /\ t.changed = changed
    OBVIOUS
  <2>5. run' = [run EXCEPT ![r] = t]
    BY <1>9 DEF changed, short
  <2> HIDE DEF t
  <2>6. run'[r] = t /\ run'[Other(r)] = run[Other(r)]
    BY <2>5, WalkShape DEF Other, Runs
  <2>7. PinHeld(r)'
    BY <1>1, <1>7, <2>4, <2>6 DEF PinHeld, Active, Live
  <2>8. WalkHeld(r)'
    <3>0. \A i : Carries(i, r)' <=> Carries(i, r)
      BY <1>1 DEF Carries, Live
    <3> SUFFICES ASSUME run[r].full, run[r].pin[r] = Live(r), Serves(r), NEW i \in Stored \ Exempt(r), Passed(t, i)
                 PROVE  Carries(i, r)
      BY <1>1, <2>4, <2>6, <3>0 DEF WalkHeld, Live, Serves, Exempt
    <3>1. (i <= last \/ short) /\ i \notin changed
      BY <2>4 DEF Passed
    <3>2. CASE i <= run[r].cursor
      BY <1>1, <1>7, <3>2 DEF WalkHeld, Passed
    <3>3. CASE ~(i <= run[r].cursor)
      <4>1. i \in ahead
        BY <1>2, <1>3, <3>3
      <4>2. i \in page
        BY <1>6, <3>1, <4>1 DEF short
      <4>3. Derived(r, events[i]) = events[i] /\ events[i] \in EventRow
        BY <1>3, <2>2, <3>1, <4>2 DEF BackfillInv, BackfillTyped
      <4>4. CASE r = "assets"
        <5>1. events[i].asset = run[r].pin.assets /\ events[i].tags = <<run[r].pin.assets, run[r].pin.geo>>
          BY <4>3, <4>4 DEF Derived, EventRow
        <5> QED
          BY <4>4, <5>1 DEF Carries, Column, Half
      <4>5. CASE r = "geo"
        <5>1. events[i].geo = run[r].pin.geo /\ events[i].tags = <<run[r].pin.assets, run[r].pin.geo>>
          BY <4>3, <4>5 DEF Derived, EventRow
        <5> QED
          BY <4>5, <5>1 DEF Carries, Column, Half
      <4> QED
        BY <4>4, <4>5 DEF Runs
    <3> QED
      BY <3>2, <3>3
  <2>9. Active(Other(r)) => crossed'
    BY <1>1, <1>7 DEF PinHeld
  <2> QED
    BY <1>1, <2>3, <2>4, <2>5, <2>7, <2>8, <2>9, WalkMoves
<1> QED
  BY <1>8, <1>9 DEF ReadChunk, Set, page
LEMMA WriteKeeps == ASSUME BackfillInv, NEW r \in Runs, WriteChunk(r) PROVE BackfillInv'
<1> DEFINE p == run[r]
           t == [at |-> IF p.short THEN "finish" ELSE "read", cursor |-> p.cursor, full |-> p.full, pin |-> p.pin]
           o == Other(r)
<1>1. /\ p.at = "write" /\ Active(r) /\ UNCHANGED <<assetLive, geoLive, stamp, late, crossed>>
      /\ events' = [i \in RowIds |-> IF i \in p.changed THEN Derived(r, events[i]) ELSE events[i]]
      /\ run' = [run EXCEPT ![r] = t]
      /\ stripped' = IF r # "assets" THEN stripped
                     ELSE IF p.pin.assets = 0 /\ assetLive # 0 THEN stripped \cup p.changed
                     ELSE stripped \ p.changed
  BY DEF WriteChunk, Set, liveIndexes, Active
<1>2. p.cursor \in Nat /\ p.full \in BOOLEAN /\ p.pin \in Pins /\ p.pin[r] \in Nat /\ p.short \in BOOLEAN /\ p.changed \subseteq Stored
  BY <1>1, WalkShape
<1>3. t \in Walks /\ t.at # "write" /\ t.at # "idle" /\ t.pin = p.pin /\ t.full = p.full /\ t.cursor = p.cursor
      /\ (t.at = "finish" <=> p.short)
  BY <1>2 DEF Walks
<1> HIDE DEF t
<1>4. run'[r] = t /\ run'[o] = run[o] /\ (\A x \in Runs : x # r => run'[x] = run[x]) /\ run' = [x \in Runs |-> run'[x]]
      /\ o \in Runs /\ o # r /\ Other(o) = r /\ \A x \in Runs : x = r \/ x = o
  BY <1>1, WalkShape DEF Other, Runs
<1>5. PinHeld(r) /\ StampHeld(r) /\ WalkHeld(r) /\ PinHeld(o) /\ StampHeld(o) /\ WalkHeld(o) /\ BackfillTyped /\ BackfillTypeOK
  BY <1>4 DEF BackfillInv, BackfillTyped
<1>6. /\ \A i \in RowIds : i \notin p.changed => events'[i] = events[i]
      /\ \A i \in p.changed : i \in RowIds /\ events'[i] = Derived(r, events[i])
  BY <1>1, <1>2 DEF Stored
<1>7. ASSUME NEW i \in p.changed
      PROVE  /\ events'[i] \in EventRow /\ events'[i].at = "stored"
             /\ Column(events'[i], r) = p.pin[r] /\ Half(events'[i], r) = p.pin[r]
             /\ Column(events'[i], o) = Column(events[i], o) /\ Half(events'[i], o) = p.pin[o]
  <2>1. events[i] \in EventRow /\ events[i].at = "stored" /\ events'[i] = Derived(r, events[i])
    BY <1>2, <1>5, <1>6 DEF BackfillTyped, Stored
  <2>0. /\ events[i] = [at |-> "stored", asset |-> events[i].asset, geo |-> events[i].geo, tags |-> events[i].tags]
        /\ events[i].asset \in Nat /\ events[i].geo \in Nat
    BY <2>1 DEF EventRow
  <2>2. p.pin.assets \in Nat /\ p.pin.geo \in Nat
    BY <1>2 DEF Pins
  <2>3. CASE r = "assets"
    <3>1. /\ events'[i].at = "stored" /\ events'[i].asset = p.pin.assets /\ events'[i].geo = events[i].geo
          /\ events'[i].tags = <<p.pin.assets, p.pin.geo>> /\ events'[i] \in EventRow
      <4>1. events'[i] = [at |-> "stored", asset |-> p.pin.assets, geo |-> events[i].geo, tags |-> <<p.pin.assets, p.pin.geo>>]
        BY <2>0, <2>1, <2>3 DEF Derived
      <4> QED
        BY <2>0, <2>2, <4>1 DEF EventRow
    <3> QED
      BY <2>3, <3>1 DEF Column, Half, Other
  <2>4. CASE r = "geo"
    <3>1. /\ events'[i].at = "stored" /\ events'[i].geo = p.pin.geo /\ events'[i].asset = events[i].asset
          /\ events'[i].tags = <<p.pin.assets, p.pin.geo>> /\ events'[i] \in EventRow
      <4>1. events'[i] = [at |-> "stored", asset |-> events[i].asset, geo |-> p.pin.geo, tags |-> <<p.pin.assets, p.pin.geo>>]
        BY <2>0, <2>1, <2>4 DEF Derived
      <4> QED
        BY <2>0, <2>2, <4>1 DEF EventRow
    <3> QED
      BY <2>4, <3>1 DEF Column, Half, Other
  <2> QED
    BY <2>3, <2>4 DEF Runs
<1>8. Stored' = Stored
  <2>1. \A i \in RowIds : events'[i].at = "stored" <=> events[i].at = "stored"
    BY <1>2, <1>6, <1>7 DEF Stored
  <2> QED
    BY <2>1 DEF Stored
<1>9. BackfillTyped'
  <2>1. \A i \in RowIds : events'[i] = events[i] \/ (events'[i] \in EventRow /\ events'[i].at = "stored")
    BY <1>6, <1>7
  <2>2. \A i \in RowIds : events'[i].at \in {"none", "open", "stored", "lost"}
    BY <1>5, <2>1 DEF BackfillTypeOK
  <2>3. BackfillTypeOK'
    BY <1>1, <1>5, <1>8, <2>2 DEF BackfillTypeOK, Live
  <2>4. \A x \in Runs : run'[x] \in Walks /\ (run'[x].at = "write" => run'[x].changed \subseteq Stored)
    BY <1>3, <1>4, <1>5 DEF BackfillTyped
  <2>5. \A i \in RowIds : events'[i] \in EventRow /\ (events'[i].at = "open" => events'[i].tags = <<events'[i].asset, events'[i].geo>>)
    BY <1>5, <2>1 DEF BackfillTyped
  <2>6. events' = [i \in RowIds |-> events'[i]] /\ stamp' = [x \in Runs |-> stamp'[x]]
    BY <1>1, <1>5 DEF BackfillTyped
  <2> QED
    BY <1>4, <1>8, <2>3, <2>4, <2>5, <2>6 DEF BackfillTyped
<1>10. Live(r)' = Live(r) /\ Live(o)' = Live(o) /\ Serves(r)' = Serves(r) /\ Serves(o)' = Serves(o)
  BY <1>1 DEF Live, Serves
<1>11. PinHeld(r)' /\ PinHeld(o)'
  <2>1. PinHeld(r)'
    BY <1>1, <1>3, <1>4, <1>5, <1>10 DEF PinHeld, Active, Live
  <2>2. PinHeld(o)'
    BY <1>1, <1>3, <1>4, <1>5, <1>10 DEF PinHeld, Active, Live
  <2> QED
    BY <2>1, <2>2
<1>12. ASSUME NEW i \in Stored, i \notin p.changed, NEW x \in Runs PROVE Carries(i, x)' <=> Carries(i, x)
  BY <1>1, <1>6, <1>12 DEF Carries, Live, Stored
<1>13. ASSUME NEW i \in p.changed, p.pin[r] = Live(r) PROVE Carries(i, r)'
  BY <1>1, <1>7, <1>10, <1>13 DEF Carries, Live
<1>14. ASSUME NEW i \in p.changed, p.pin[o] = Live(o) \/ crossed, Carries(i, o) PROVE Carries(i, o)'
  BY <1>1, <1>7, <1>10, <1>14 DEF Carries, Live
<1>15. StampHeld(r)' /\ WalkHeld(r)'
  <2>1. ASSUME Serves(r), p.pin[r] = Live(r), NEW i \in Stored \ Exempt(r)', i \notin p.changed PROVE i \notin Exempt(r)
    <3>1. r = "assets" => ~(p.pin.assets = 0 /\ assetLive # 0)
      BY <2>1 DEF Serves, Live
    <3> QED
      BY <1>1, <2>1, <3>1 DEF Exempt
  <2>2. StampHeld(r)'
    <3> SUFFICES ASSUME stamp[r] = Live(r), Serves(r), NEW i \in Stored \ Exempt(r)' PROVE Carries(i, r)'
      BY <1>1, <1>8, <1>10 DEF StampHeld
    <3>1. p.pin[r] = Live(r) \/ (r = "assets" /\ p.pin.assets = 0)
      BY <1>1, <1>5 DEF PinHeld
    <3>2. CASE p.pin[r] = Live(r)
      <4>1. CASE i \in p.changed
        BY <1>13, <3>2, <4>1
      <4>2. CASE i \notin p.changed
        BY <1>5, <1>12, <2>1, <3>2, <4>2 DEF StampHeld
      <4> QED
        BY <4>1, <4>2
    <3>3. CASE p.pin[r] # Live(r)
      <4>1. r = "assets" /\ p.pin.assets = 0 /\ assetLive # 0
        BY <3>1, <3>3 DEF Serves
      <4>2. i \notin p.changed /\ i \notin Exempt(r)
        BY <1>1, <4>1 DEF Exempt
      <4> QED
        BY <1>5, <1>12, <4>2 DEF StampHeld
    <3> QED
      BY <3>2, <3>3
  <2>3. WalkHeld(r)'
    <3> SUFFICES ASSUME p.full, p.pin[r] = Live(r), Serves(r), NEW i \in Stored \ Exempt(r)', Passed(t, i) PROVE Carries(i, r)'
      BY <1>3, <1>4, <1>8, <1>10 DEF WalkHeld
    <3>1. CASE i \in p.changed
      BY <1>13, <3>1
    <3>2. CASE i \notin p.changed
      <4>1. i <= p.cursor \/ p.short
        BY <1>3 DEF Passed
      <4>2. Passed(p, i)
        BY <1>1, <3>2, <4>1 DEF Passed
      <4>3. i \in Stored \ Exempt(r)
        BY <2>1, <3>2
      <4>4. Carries(i, r)
        BY <1>1, <1>5, <4>2, <4>3 DEF WalkHeld
      <4> QED
        BY <1>12, <3>2, <4>4
    <3> QED
      BY <3>1, <3>2
  <2> QED
    BY <2>2, <2>3
<1>16. StampHeld(o)' /\ WalkHeld(o)'
  <2>1. Exempt(o)' = Exempt(o)
    BY <1>1 DEF Exempt, Other, Runs
  <2>2. ASSUME NEW i \in Stored, Carries(i, o), p.pin[o] = Live(o) \/ crossed PROVE Carries(i, o)'
    BY <1>4, <1>12, <1>14, <2>2
  <2>3. StampHeld(o)'
    <3> SUFFICES ASSUME stamp[o] = Live(o), Serves(o), NEW i \in Stored \ Exempt(o) PROVE Carries(i, o)'
      BY <1>1, <1>8, <1>10, <2>1 DEF StampHeld
    <3>1. p.pin[o] = Live(o) \/ crossed
      BY <1>1, <1>5 DEF PinHeld
    <3> QED
      BY <1>5, <2>2, <3>1 DEF StampHeld
  <2>4. WalkHeld(o)'
    <3> SUFFICES ASSUME Active(o), run[o].full, run[o].pin[o] = Live(o), Serves(o), NEW i \in Stored \ Exempt(o), Passed(run[o], i)
                 PROVE  Carries(i, o)'
      BY <1>4, <1>8, <1>10, <2>1 DEF WalkHeld, Active
    <3>1. crossed
      BY <1>1, <1>5 DEF PinHeld
    <3> QED
      BY <1>5, <2>2, <3>1 DEF WalkHeld
  <2> QED
    BY <2>3, <2>4
<1> HIDE DEF o, p
<1>17. \A x \in Runs : PinHeld(x)' /\ StampHeld(x)' /\ WalkHeld(x)'
  BY <1>4, <1>11, <1>15, <1>16
<1> QED
  BY <1>9, <1>17 DEF BackfillInv

LEMMA FinishesKeeps == ASSUME BackfillInv, NEW r \in Runs, BackfillFinishes(r) PROVE BackfillInv'
<1> DEFINE o == Other(r)
<1>1. /\ run[r].at = "finish" /\ Active(r) /\ stamp' = [stamp EXCEPT ![r] = StampOf(r)] /\ run' = [run EXCEPT ![r] = NotRunning]
      /\ UNCHANGED <<assetLive, geoLive, events, late, crossed, stripped>> /\ Stored' = Stored
  BY DEF BackfillFinishes, Set, liveIndexes, Active, Stored
<1>2. run[r].full \in BOOLEAN /\ run[r].pin[r] \in Nat
  BY <1>1, WalkShape
<1>3. run'[r] = NotRunning /\ NotRunning \in Walks /\ NotRunning.at = "idle" /\ (\A x \in Runs : x # r => run'[x] = run[x])
      /\ run' = [x \in Runs |-> run'[x]] /\ o \in Runs /\ o # r /\ Other(o) = r /\ \A x \in Runs : x = r \/ x = o
  BY <1>1, WalkShape DEF Other, Runs, Walks, NotRunning
<1>4. PinHeld(r) /\ StampHeld(r) /\ WalkHeld(r) /\ PinHeld(o) /\ StampHeld(o) /\ WalkHeld(o) /\ BackfillTyped /\ BackfillTypeOK
  BY <1>3 DEF BackfillInv, BackfillTyped
<1>5. stamp'[r] = StampOf(r) /\ stamp'[o] = stamp[o] /\ stamp' = [x \in Runs |-> stamp'[x]]
  BY <1>1, <1>3, <1>4 DEF BackfillTyped
<1>6. StampOf(r) \in NoStamp .. Live(r)
  <2>1. Live(r) \in Int /\ stamp[r] \in NoStamp .. Live(r) /\ run[r].pin[r] <= Live(r)
    BY <1>1, <1>4 DEF BackfillTypeOK, Live, PinHeld
  <2> QED
    BY <1>2, <2>1 DEF StampOf, NoStamp
<1>7. BackfillTyped'
  <2>1. BackfillTypeOK'
    <3>1. \A x \in Runs : stamp'[x] \in NoStamp .. Live(x)
      BY <1>3, <1>4, <1>5, <1>6 DEF BackfillTypeOK
    <3>2. \A x \in Runs : Live(x)' = Live(x)
      BY <1>1 DEF Live
    <3>3. \A x \in Runs : stamp'[x] \in NoStamp .. Live(x)'
      BY <3>1, <3>2
    <3> QED
      BY <1>1, <1>4, <3>3 DEF BackfillTypeOK
  <2>2. \A x \in Runs : run'[x] \in Walks /\ (run'[x].at = "write" => run'[x].changed \subseteq Stored)
    BY <1>3, <1>4 DEF BackfillTyped
  <2> QED
    BY <1>1, <1>3, <1>4, <1>5, <2>1, <2>2 DEF BackfillTyped
<1>8. \A i : (Carries(i, r)' <=> Carries(i, r)) /\ (Carries(i, o)' <=> Carries(i, o))
  BY <1>1 DEF Carries, Live
<1>9. PinHeld(r)' /\ WalkHeld(r)'
  BY <1>3 DEF PinHeld, WalkHeld, Active
<1>10. StampHeld(r)'
  <2> SUFFICES ASSUME StampOf(r) = Live(r), Serves(r), NEW i \in Stored \ Exempt(r) PROVE Carries(i, r)
    BY <1>1, <1>5, <1>8 DEF StampHeld, Live, Serves, Exempt
  <2>1. CASE run[r].full
    BY <1>1, <1>4, <2>1 DEF WalkHeld, StampOf, Passed
  <2>2. CASE ~run[r].full
    BY <1>4, <2>2 DEF StampHeld, StampOf
  <2> QED
    BY <2>1, <2>2
<1>11. PinHeld(o)' /\ StampHeld(o)' /\ WalkHeld(o)'
  <2>1. PinHeld(o)'
    <3>1. run'[o] = run[o] /\ (Active(o) => crossed)
      BY <1>1, <1>3, <1>4 DEF PinHeld
    <3> QED
      BY <1>1, <1>3, <1>4, <1>5, <3>1 DEF PinHeld, Active, Live
  <2>2. StampHeld(o)'
    BY <1>1, <1>4, <1>5, <1>8 DEF StampHeld, Live, Serves, Exempt
  <2>3. WalkHeld(o)'
    BY <1>1, <1>3, <1>4, <1>8 DEF WalkHeld, Active, Live, Serves, Exempt
  <2> QED
    BY <2>1, <2>2, <2>3
<1> HIDE DEF o
<1>12. \A x \in Runs : PinHeld(x)' /\ StampHeld(x)' /\ WalkHeld(x)'
  BY <1>3, <1>9, <1>10, <1>11
<1> QED
  BY <1>7, <1>12 DEF BackfillInv

LEMMA RestartKeeps == ASSUME BackfillInv, BackfillRestart PROVE BackfillInv'
<1>1. /\ run' = [r \in Runs |-> NotRunning]
      /\ events' = [i \in RowIds |-> IF events[i].at = "open" THEN [events[i] EXCEPT !.at = "lost"] ELSE events[i]]
      /\ UNCHANGED <<assetLive, geoLive, stamp, late, crossed, stripped>>
  BY DEF BackfillRestart
<1>2. BackfillTyped /\ BackfillTypeOK
  BY DEF BackfillInv, BackfillTyped
<1>3. ASSUME NEW i \in RowIds
      PROVE  /\ events'[i] \in EventRow /\ events'[i].at # "open" /\ events'[i].at \in {"none", "stored", "lost"}
             /\ (events'[i].at = "stored" <=> events[i].at = "stored")
             /\ (events[i].at = "stored" => events'[i] = events[i])
  <2>1. events[i] \in EventRow /\ events[i].at \in {"none", "open", "stored", "lost"}
    BY <1>2 DEF BackfillTyped, BackfillTypeOK
  <2> QED
    BY <1>1, <2>1 DEF EventRow
<1>4. Stored' = Stored
  BY <1>3 DEF Stored
<1>5. \A r \in Runs : run'[r] = NotRunning /\ run'[r].at = "idle" /\ run'[r] \in Walks
  BY <1>1 DEF NotRunning, Walks
<1>6. BackfillTyped'
  <2>1. BackfillTypeOK'
    BY <1>1, <1>2, <1>3, <1>4 DEF BackfillTypeOK, Live
  <2> QED
    BY <1>1, <1>2, <1>3, <1>5, <2>1 DEF BackfillTyped
<1>7. ASSUME NEW r \in Runs PROVE PinHeld(r)' /\ StampHeld(r)' /\ WalkHeld(r)'
  <2>1. StampHeld(r)
    BY DEF BackfillInv
  <2>2. \A i \in Stored : Carries(i, r)' <=> Carries(i, r)
    BY <1>1, <1>3 DEF Carries, Live, Stored
  <2>3. StampHeld(r)'
    BY <1>1, <1>4, <2>1, <2>2 DEF StampHeld, Live, Serves, Exempt
  <2> QED
    BY <1>5, <2>3 DEF PinHeld, WalkHeld, Active
<1> QED
  BY <1>6, <1>7 DEF BackfillInv
LEMMA BackfillInvStep == BackfillInv /\ [BackfillNext]_backfillVars => BackfillInv'
<1> SUFFICES ASSUME BackfillInv, [BackfillNext]_backfillVars PROVE BackfillInv'
  OBVIOUS
<1>1. CASE UNCHANGED backfillVars
  <2>1. UNCHANGED <<assetLive, geoLive, registryRead, events, run, resume, stamp, runs, restartsDone, late, crossed, stripped>>
    BY <1>1 DEF backfillVars
  <2>2. BackfillTyped /\ Stored' = Stored
    BY <2>1 DEF BackfillInv, Stored
  <2>3. BackfillTyped'
    BY <2>1, <2>2 DEF BackfillTyped, BackfillTypeOK, Live
  <2> QED
    BY <2>1, <2>2, <2>3, RowsRest
<1>2. ASSUME NEW i \in RowIds, Insert(i) \/ CommitInsert(i) PROVE BackfillInv'
  BY <1>2, InsertKeeps, CommitKeeps
<1>3. CASE RegistryReload \/ GeoReload \/ BackfillRestart
  BY <1>3, RegistryReloadKeeps, GeoReloadKeeps, RestartKeeps
<1>4. ASSUME NEW r \in Runs, NEW start \in {0} \cup RowIds, BackfillBegins(r, start) PROVE BackfillInv'
  BY <1>4, BeginsKeeps
<1>5. ASSUME NEW r \in Runs, ReadChunk(r) \/ WriteChunk(r) \/ BackfillFinishes(r) \/ BackfillStops(r) PROVE BackfillInv'
  BY <1>5, ReadKeeps, WriteKeeps, FinishesKeeps, StopsKeeps
<1> QED
  BY <1>1, <1>2, <1>3, <1>4, <1>5 DEF BackfillNext

LEMMA BackfillFollows == BackfillInv => BackfillIsTrue
<1> SUFFICES ASSUME BackfillInv PROVE BackfillIsTrue
  OBVIOUS
<1>1. BackfillTyped /\ StampHeld("assets") /\ StampHeld("geo")
  BY DEF BackfillInv, Runs
<1>2. /\ stamp["assets"] = assetLive /\ assetLive # 0 => \A i \in Stored \ (late \cup stripped) : Carries(i, "assets")
      /\ stamp["geo"] = geoLive => \A i \in Stored \ late : Carries(i, "geo")
  BY <1>1 DEF StampHeld, Live, Serves, Exempt
<1>3. StampMeansHistory
  BY <1>2 DEF StampMeansHistory, Carries, Column, Live
<1>4. TagsConverge
  <2> SUFFICES ASSUME assetLive # 0, stamp["assets"] = assetLive, stamp["geo"] = geoLive, ~crossed,
                      NEW i \in Stored \ (late \cup stripped)
               PROVE  events[i].tags = <<assetLive, geoLive>>
    BY DEF TagsConverge
  <2>1. events[i].tags[1] = assetLive /\ events[i].tags[2] = geoLive
    BY <1>2 DEF Carries, Half, Live
  <2>2. events[i].tags \in Nat \X Nat
    BY <1>1 DEF BackfillTyped, Stored, EventRow
  <2> QED
    BY <2>1, <2>2
<1> QED
  BY <1>1, <1>3, <1>4 DEF BackfillIsTrue, BackfillTyped

(* Whatever reloads, inserts and restarts come between the chunks of the    *)
(* two walks: a stamp that shows nothing owed is true of every stored row,  *)
(* and the tags the two share are of both live indexes, but for the rows    *)
(* committed behind a walk, those a walk took from an unread registry, and  *)
(* walks that met (db.backfill_assets, db.backfill_geo).                    *)
THEOREM BackfillStaysTrue == BackfillSpec => []BackfillIsTrue
<1> QED
  BY BackfillInvInit, BackfillInvStep, BackfillFollows, PTL DEF BackfillSpec

-----------------------------------------------------------------------------
(***************************************************************************)
(* Content packs.                                                          *)
(*                                                                         *)
(* A plan carries what it will write, so the invariant says of each plan   *)
(* that nothing has overtaken that what it removes is still what a plan    *)
(* made now would remove.  An owner is a maximum over the installed packs: *)
(* there is one because the installations have distinct, bounded times.    *)
(***************************************************************************)
TimesTellApart(packs, bound) ==
    /\ \A n \in DOMAIN packs : packs[n].at \in 1..bound
    /\ \A m, n \in DOMAIN packs : packs[m].at = packs[n].at => m = n

PackTyped ==
    /\ packWrites \in Nat /\ DOMAIN writer = DOMAIN objects
    /\ installs = [n \in DOMAIN installs |-> installs[n]]
    /\ \A n \in DOMAIN installs : installs[n].doc.name = n
    /\ TimesTellApart(installs, packWrites)
    /\ planned = [r \in PackRequests |-> planned[r]]
    /\ release \in Releases

PlanIsCurrent(p) == p.at = packWrites /\ ~blind

PlanHolds(p) ==
    /\ p.at \in 0..packWrites
    /\ p.puts \subseteq ItemsOf(p.doc)
    /\ p.removes => p.puts = {}
    /\ PlanIsCurrent(p) /\ p.removes =>
          /\ p.doc.name \in DOMAIN installs /\ installs[p.doc.name].doc = p.doc
          /\ p.drops = UninstallDrops(p.doc, installs)
    /\ PlanIsCurrent(p) /\ ~p.removes => p.drops = Dropped(p.doc, installs)

PlansHold == \A r \in PackRequests : planned[r] # NoPlan => PlanHolds(planned[r])

PackInv == PackTyped /\ PlansHold /\ OwnerWroteIt /\ OverlayOnlyAdds

(* The last of the packs that list an item is its owner.                   *)
LEMMA LastListerOwns ==
  ASSUME NEW packs, NEW bound \in Nat, TimesTellApart(packs, bound), NEW x,
         NEW n \in DOMAIN packs, x \in ItemsOf(packs[n].doc),
         \A m \in DOMAIN packs : x \in ItemsOf(packs[m].doc) => packs[m].at <= packs[n].at
  PROVE  OwnerAmong(packs, x) = n
<1> DEFINE listing == {m \in DOMAIN packs : x \in ItemsOf(packs[m].doc)}
<1>1. n \in listing /\ \A m \in listing : packs[m].at <= packs[n].at
  OBVIOUS
<1>2. ASSUME NEW k \in listing, \A m \in listing : packs[m].at <= packs[k].at PROVE k = n
  <2>1. packs[k].at \in 1..bound /\ packs[n].at \in 1..bound
    BY DEF TimesTellApart
  <2>2. packs[n].at <= packs[k].at /\ packs[k].at <= packs[n].at
    BY <1>1, <1>2
  <2>3. packs[k].at = packs[n].at
    BY <2>1, <2>2
  <2> QED
    BY <2>3 DEF TimesTellApart
<1>3. OwnerAmong(packs, x) = CHOOSE k \in listing : \A m \in listing : packs[m].at <= packs[k].at
  BY <1>1 DEF OwnerAmong
<1> HIDE DEF listing
<1> QED
  BY <1>1, <1>2, <1>3

(* An owner that is a pack lists the item, and none that lists it came     *)
(* after.                                                                  *)
LEMMA OwnerListsIt ==
  ASSUME NEW packs, NEW bound \in Nat, TimesTellApart(packs, bound), NEW x, OwnerAmong(packs, x) # ByHand
  PROVE  LET n == OwnerAmong(packs, x)
         IN  /\ n \in DOMAIN packs /\ x \in ItemsOf(packs[n].doc)
             /\ \A m \in DOMAIN packs : x \in ItemsOf(packs[m].doc) => packs[m].at <= packs[n].at
<1> DEFINE listing == {m \in DOMAIN packs : x \in ItemsOf(packs[m].doc)}
           T == {bound - packs[m].at : m \in listing}
<1>1. listing # {} /\ OwnerAmong(packs, x) = CHOOSE k \in listing : \A m \in listing : packs[m].at <= packs[k].at
  BY DEF OwnerAmong
<1>2. \A m \in listing : packs[m].at \in 1..bound
  BY DEF TimesTellApart
<1>3. T \in SUBSET Nat /\ T # {}
  BY <1>1, <1>2
<1>4. PICK t \in T : \A u \in T : t <= u
  <2> HIDE DEF T
  <2> QED
    BY <1>3, LeastRow
<1>5. PICK k \in listing : t = bound - packs[k].at
  OBVIOUS
<1>6. \A m \in listing : packs[m].at <= packs[k].at
  BY <1>2, <1>4, <1>5
<1>7. OwnerAmong(packs, x) \in listing /\ \A m \in listing : packs[m].at <= packs[OwnerAmong(packs, x)].at
  <2> HIDE DEF listing
  <2> QED
    BY <1>1, <1>6
<1> QED
  BY <1>7

(* An install: the pack owns what it lists, and what it does not list keeps *)
(* its owner unless that was the pack.                                      *)
LEMMA InstallKeepsOwners ==
  ASSUME NEW packs, NEW bound \in Nat, TimesTellApart(packs, bound), NEW doc, NEW after,
         after = [n \in DOMAIN packs \cup {doc.name} |->
                    IF n = doc.name THEN [doc |-> doc, at |-> bound + 1] ELSE packs[n]]
  PROVE  /\ TimesTellApart(after, bound + 1)
         /\ \A x \in ItemsOf(doc) : OwnerAmong(after, x) = doc.name
         /\ \A x : x \notin ItemsOf(doc) /\ OwnerAmong(packs, x) \notin {ByHand, doc.name} =>
                     OwnerAmong(after, x) = OwnerAmong(packs, x)
<1>1. /\ DOMAIN after = DOMAIN packs \cup {doc.name} /\ after[doc.name].doc = doc /\ after[doc.name].at = bound + 1
      /\ \A n \in DOMAIN packs : n # doc.name => after[n] = packs[n]
  OBVIOUS
<1>2. \A n \in DOMAIN after : after[n].at \in 1..(bound + 1) /\ (n # doc.name => after[n].at \in 1..bound)
  BY <1>1 DEF TimesTellApart
<1>3. TimesTellApart(after, bound + 1)
  <2> SUFFICES ASSUME NEW m \in DOMAIN after, NEW n \in DOMAIN after, after[m].at = after[n].at PROVE m = n
    BY <1>2 DEF TimesTellApart
  <2>1. CASE m # doc.name /\ n # doc.name
    BY <1>1, <2>1 DEF TimesTellApart
  <2>2. CASE m = doc.name \/ n = doc.name
    BY <1>1, <1>2, <2>2
  <2> QED
    BY <2>1, <2>2
<1>4. bound + 1 \in Nat /\ \A m \in DOMAIN after : after[m].at <= bound + 1
  BY <1>2
<1>5. ASSUME NEW x \in ItemsOf(doc) PROVE OwnerAmong(after, x) = doc.name
  <2>1. doc.name \in DOMAIN after /\ x \in ItemsOf(after[doc.name].doc)
        /\ \A m \in DOMAIN after : x \in ItemsOf(after[m].doc) => after[m].at <= after[doc.name].at
    BY <1>1, <1>4
  <2> QED
    BY <1>3, <1>4, <2>1, LastListerOwns
<1>6. ASSUME NEW x, x \notin ItemsOf(doc), OwnerAmong(packs, x) \notin {ByHand, doc.name}
      PROVE  OwnerAmong(after, x) = OwnerAmong(packs, x)
  <2> DEFINE n == OwnerAmong(packs, x)
  <2>1. /\ n \in DOMAIN packs /\ x \in ItemsOf(packs[n].doc)
        /\ \A m \in DOMAIN packs : x \in ItemsOf(packs[m].doc) => packs[m].at <= packs[n].at
    BY <1>6, OwnerListsIt
  <2>2. n # doc.name
    BY <1>6
  <2> HIDE DEF n
  <2>3. n \in DOMAIN after /\ after[n] = packs[n]
    BY <1>1, <2>1, <2>2
  <2>4. \A m \in DOMAIN after : x \in ItemsOf(after[m].doc) => after[m].at <= after[n].at
    BY <1>1, <1>6, <2>1, <2>3
  <2>5. OwnerAmong(after, x) = n
    BY <1>3, <1>4, <2>1, <2>3, <2>4, LastListerOwns
  <2> QED
    BY <2>5 DEF n
<1> QED
  BY <1>3, <1>5, <1>6

(* An uninstall changes the owner of nothing the pack did not own.         *)
LEMMA UninstallKeepsOwners ==
  ASSUME NEW packs, NEW bound \in Nat, TimesTellApart(packs, bound), NEW name, NEW after,
         after = [n \in DOMAIN packs \ {name} |-> packs[n]]
  PROVE  /\ TimesTellApart(after, bound + 1)
         /\ \A x : OwnerAmong(packs, x) \notin {ByHand, name} => OwnerAmong(after, x) = OwnerAmong(packs, x)
<1>1. DOMAIN after = DOMAIN packs \ {name} /\ \A n \in DOMAIN after : after[n] = packs[n]
  OBVIOUS
<1>2. TimesTellApart(after, bound + 1)
  BY <1>1 DEF TimesTellApart
<1>3. bound + 1 \in Nat
  OBVIOUS
<1>4. ASSUME NEW x, OwnerAmong(packs, x) \notin {ByHand, name} PROVE OwnerAmong(after, x) = OwnerAmong(packs, x)
  <2> DEFINE n == OwnerAmong(packs, x)
  <2>1. /\ n \in DOMAIN packs /\ x \in ItemsOf(packs[n].doc)
        /\ \A m \in DOMAIN packs : x \in ItemsOf(packs[m].doc) => packs[m].at <= packs[n].at
    BY <1>4, OwnerListsIt
  <2>2. n # name
    BY <1>4
  <2> HIDE DEF n
  <2>3. n \in DOMAIN after /\ x \in ItemsOf(after[n].doc)
        /\ \A m \in DOMAIN after : x \in ItemsOf(after[m].doc) => after[m].at <= after[n].at
    BY <1>1, <2>1, <2>2
  <2>4. OwnerAmong(after, x) = n
    BY <1>2, <1>3, <2>3, LastListerOwns
  <2> QED
    BY <2>4 DEF n
<1> QED
  BY <1>2, <1>4

-----------------------------------------------------------------------------
LEMMA PackInvInit == PackInit => PackInv
<1> SUFFICES ASSUME PackInit PROVE PackInv
  OBVIOUS
<1>1. /\ DOMAIN objects = {} /\ writer = objects /\ installs = [n \in {} |-> ByHand] /\ DOMAIN installs = {}
      /\ packWrites = 0 /\ release \in Releases
      /\ compiled = release /\ controls = BaseControls /\ planned = [r \in PackRequests |-> NoPlan]
  BY DEF PackInit
<1>2. PackTyped
  BY <1>1 DEF PackTyped, TimesTellApart
<1>3. PlansHold /\ OwnerWroteIt
  BY <1>1 DEF PlansHold, OwnerWroteIt
<1>4. OverlayOnlyAdds
  BY <1>1, PackAssumption DEF OverlayOnlyAdds
<1> QED
  BY <1>2, <1>3, <1>4 DEF PackInv

(* What a plan's invariant reads.                                          *)
LEMMA PlanStays ==
  ASSUME NEW p, PlanHolds(p), UNCHANGED <<installs, packWrites>>, ~blind' => ~blind
  PROVE  PlanHolds(p)'
<1>1. installs' = installs /\ packWrites' = packWrites
  OBVIOUS
<1>2. PlanIsCurrent(p)' => PlanIsCurrent(p)
  BY <1>1 DEF PlanIsCurrent
<1>3. UninstallDrops(p.doc, installs)' = UninstallDrops(p.doc, installs) /\ Dropped(p.doc, installs)' = Dropped(p.doc, installs)
  BY <1>1 DEF UninstallDrops, Dropped, OwnerAmong
<1> QED
  BY <1>1, <1>2, <1>3 DEF PlanHolds

(* A plan joins the others; what it will write is worked out from the rows *)
(* as they are, if all of them still parse.                                *)
LEMMA PlanKeeps ==
  ASSUME PackInv, NEW r \in PackRequests, NEW p, planned' = [planned EXCEPT ![r] = p], Sees,
         UNCHANGED <<objects, installs, release, compiled, controls, writer, stale, packWrites>>,
         p.at = packWrites, p.puts \subseteq ItemsOf(p.doc), p.removes => p.puts = {},
         Installed(Known) = installs /\ p.removes =>
            /\ p.doc.name \in DOMAIN installs /\ installs[p.doc.name].doc = p.doc
            /\ p.drops = UninstallDrops(p.doc, installs),
         Installed(Known) = installs /\ ~p.removes => p.drops = Dropped(p.doc, installs)
  PROVE  PackInv'
<1>1. PackTyped /\ packWrites \in Nat
  BY DEF PackInv, PackTyped
<1>2. PackTyped'
  BY <1>1 DEF PackTyped, TimesTellApart
<1>3. ~blind' => ~blind /\ DOMAIN Installed(Known) = DOMAIN installs
  BY DEF Sees
<1>4. DOMAIN Installed(Known) = DOMAIN installs => Installed(Known) = installs
  BY <1>1 DEF Installed, PackTyped
<1>5. PlanHolds(p)'
  BY <1>1, <1>3, <1>4 DEF PlanHolds, PlanIsCurrent, UninstallDrops, Dropped, OwnerAmong
<1>6. PlansHold'
  <2> SUFFICES ASSUME NEW s \in PackRequests, s # r, planned[s] # NoPlan PROVE PlanHolds(planned[s])'
    BY <1>1, <1>5 DEF PlansHold, PackTyped
  <2>1. PlanHolds(planned[s]) /\ planned'[s] = planned[s]
    BY <1>1 DEF PackInv, PlansHold, PackTyped
  <2> PICK q : q = planned[s]
    OBVIOUS
  <2>2. PlanHolds(q)'
    BY <1>3, <2>1, PlanStays
  <2> QED
    BY <2>1, <2>2 DEF PlanHolds, PlanIsCurrent
<1>7. OwnerWroteIt'
  BY <1>3 DEF PackInv, OwnerWroteIt, Sound, OwnerAmong
<1>8. OverlayOnlyAdds'
  BY DEF PackInv, OverlayOnlyAdds
<1> QED
  BY <1>2, <1>6, <1>7, <1>8 DEF PackInv

LEMMA PlanImportKeeps == ASSUME PackInv, NEW r \in PackRequests, PlanImport(r) PROVE PackInv'
<1>1. PICK doc \in PackDocs, overwrite \in BOOLEAN : planned' = [planned EXCEPT ![r] = InstallPlan(doc, overwrite)]
  BY DEF PlanImport
<1> DEFINE p == InstallPlan(doc, overwrite)
<1>2. /\ p.at = packWrites /\ p.doc = doc /\ p.removes = FALSE /\ p.puts \subseteq ItemsOf(doc)
      /\ p.drops = Dropped(doc, Installed(Known))
  BY DEF InstallPlan
<1>3. Sees /\ UNCHANGED <<objects, installs, release, compiled, controls, writer, stale, packWrites>>
  BY DEF PlanImport
<1> HIDE DEF p
<1> QED
  BY <1>1, <1>2, <1>3, PlanKeeps DEF p

LEMMA PlanUninstallKeeps == ASSUME PackInv, NEW r \in PackRequests, PlanUninstall(r) PROVE PackInv'
<1>1. PICK n \in DOMAIN Installed(Known) : planned' = [planned EXCEPT ![r] = UninstallPlan(installs[n].doc)]
  BY DEF PlanUninstall
<1>0. n \in DOMAIN installs /\ installs[n].doc.name = n
  BY DEF Installed, PackInv, PackTyped
<1> DEFINE p == UninstallPlan(installs[n].doc)
<1>2. /\ p.at = packWrites /\ p.doc = installs[n].doc /\ p.removes = TRUE /\ p.puts = {}
      /\ p.drops = UninstallDrops(p.doc, Installed(Known))
  BY DEF UninstallPlan
<1>3. Sees /\ UNCHANGED <<objects, installs, release, compiled, controls, writer, stale, packWrites>>
  BY DEF PlanUninstall
<1> HIDE DEF p
<1> QED
  BY <1>0, <1>1, <1>2, <1>3, PlanKeeps DEF p

(* A write overtakes every plan that was made before it.                   *)
LEMMA WritesOvertake ==
  ASSUME PackInv, packWrites' = packWrites + 1, NEW p, PlanHolds(p)
  PROVE  PlanHolds(p)'
<1>1. packWrites \in Nat /\ p.at \in 0..packWrites
  BY DEF PackInv, PackTyped, PlanHolds
<1>2. p.at # packWrites' /\ p.at \in 0..packWrites'
  BY <1>1
<1> QED
  BY <1>2 DEF PlanHolds, PlanIsCurrent

LEMMA ApplyKeeps == ASSUME PackInv, NEW r \in PackRequests, ApplyPlan(r) PROVE PackInv'
<1> DEFINE p == planned[r]
           name == p.doc.name
<1>1. /\ p # NoPlan
      /\ DOMAIN objects' = (DOMAIN objects \cup p.puts) \ p.drops
      /\ installs' = IF p.removes THEN RowsWithout(p) ELSE RowsWith(p)
      /\ writer' = [x \in DOMAIN objects' |-> IF ~p.removes /\ x \in ItemsOf(p.doc) THEN name ELSE writer[x]]
      /\ stale' = (stale \/ p.at # packWrites)
      /\ planned' = [planned EXCEPT ![r] = NoPlan] /\ packWrites' = packWrites + 1
      /\ UNCHANGED <<release, compiled, controls, blind>>
  BY DEF ApplyPlan
<1>2. /\ PackTyped /\ packWrites \in Nat /\ DOMAIN writer = DOMAIN objects /\ TimesTellApart(installs, packWrites)
      /\ PlanHolds(p) /\ \A n \in DOMAIN installs : installs[n].doc.name = n
  BY <1>1 DEF PackInv, PackTyped, PlansHold
<1>3. p.removes => installs' = [n \in DOMAIN installs \ {name} |-> installs[n]]
  BY <1>1 DEF RowsWithout
<1>4. ~p.removes => installs' = [n \in DOMAIN installs \cup {name} |->
                                   IF n = name THEN [doc |-> p.doc, at |-> packWrites + 1] ELSE installs[n]]
  BY <1>1 DEF RowsWith, Rows
<1> HIDE DEF p
<1>5. /\ TimesTellApart(installs', packWrites + 1)
      /\ p.removes => \A x : OwnerAmong(installs, x) \notin {ByHand, name} => OwnerAmong(installs', x) = OwnerAmong(installs, x)
      /\ ~p.removes => /\ \A x \in ItemsOf(p.doc) : OwnerAmong(installs', x) = name
                       /\ \A x : x \notin ItemsOf(p.doc) /\ OwnerAmong(installs, x) \notin {ByHand, name} =>
                                    OwnerAmong(installs', x) = OwnerAmong(installs, x)
  <2>1. CASE p.removes
    <3> DEFINE after == installs'
    <3>1. after = [n \in DOMAIN installs \ {name} |-> installs[n]]
      BY <1>3, <2>1
    <3> HIDE DEF after, name
    <3>2. /\ TimesTellApart(after, packWrites + 1)
          /\ \A x : OwnerAmong(installs, x) \notin {ByHand, name} => OwnerAmong(after, x) = OwnerAmong(installs, x)
      BY <1>2, <3>1, UninstallKeepsOwners
    <3> QED
      BY <2>1, <3>2 DEF after
  <2>2. CASE ~p.removes
    <3> PICK doc, after, packs, bound : doc = p.doc /\ after = installs' /\ packs = installs /\ bound = packWrites
      OBVIOUS
    <3>1. after = [n \in DOMAIN packs \cup {doc.name} |->
                     IF n = doc.name THEN [doc |-> doc, at |-> bound + 1] ELSE packs[n]]
      BY <1>4, <2>2
    <3>2. bound \in Nat /\ TimesTellApart(packs, bound)
      BY <1>2
    <3>3. /\ TimesTellApart(after, bound + 1)
          /\ \A x \in ItemsOf(doc) : OwnerAmong(after, x) = doc.name
          /\ \A x : x \notin ItemsOf(doc) /\ OwnerAmong(packs, x) \notin {ByHand, doc.name} =>
                      OwnerAmong(after, x) = OwnerAmong(packs, x)
      BY <3>1, <3>2, InstallKeepsOwners
    <3> QED
      BY <2>2, <3>3
  <2> QED
    BY <2>1, <2>2
<1>6. PackTyped'
  <2>1. \A n \in DOMAIN installs' : installs'[n].doc.name = n
    <3>1. CASE p.removes
      BY <1>2, <1>3, <3>1
    <3>2. CASE ~p.removes
      BY <1>2, <1>4, <3>2
    <3> QED
      BY <3>1, <3>2
  <2>2. installs' = [n \in DOMAIN installs' |-> installs'[n]]
    <3>1. CASE p.removes
      BY <1>3, <3>1
    <3>2. CASE ~p.removes
      BY <1>4, <3>2
    <3> QED
      BY <3>1, <3>2
  <2>3. DOMAIN writer' = DOMAIN objects' /\ planned' = [s \in PackRequests |-> planned'[s]]
    BY <1>1, <1>2 DEF PackTyped
  <2> QED
    BY <1>1, <1>2, <1>5, <2>1, <2>2, <2>3 DEF PackTyped
<1>7. PlansHold'
  <2> SUFFICES ASSUME NEW s \in PackRequests, planned'[s] # NoPlan PROVE PlanHolds(planned[s])'
    BY DEF PlansHold
  <2>1. planned'[s] = planned[s] /\ planned[s] # NoPlan
    BY <1>1, <1>2 DEF PackTyped
  <2>2. PlanHolds(planned[s])
    BY <2>1 DEF PackInv, PlansHold
  <2> PICK q : q = planned[s]
    OBVIOUS
  <2>3. PlanHolds(q)'
    BY <1>1, <2>2, WritesOvertake
  <2> QED
    BY <2>1, <2>3 DEF PlanHolds, PlanIsCurrent
<1>8. OwnerWroteIt'
  <2> SUFFICES ASSUME ~stale', ~blind, NEW x \in DOMAIN objects' PROVE writer'[x] \in {ByHand, OwnerAmong(installs', x)}
    BY <1>1 DEF OwnerWroteIt, Sound
  <2>1. Sound /\ PlanIsCurrent(p)
    BY <1>1 DEF Sound, PlanIsCurrent
  <2>2. x \notin p.drops /\ (x \in DOMAIN objects \/ x \in p.puts)
    BY <1>1
  <2>3. CASE ~p.removes /\ x \in ItemsOf(p.doc)
    BY <1>1, <1>5, <2>3
  <2>4. CASE ~p.removes /\ x \notin ItemsOf(p.doc)
    <3>1. x \in DOMAIN objects /\ writer'[x] = writer[x] /\ writer[x] \in {ByHand, OwnerAmong(installs, x)}
      BY <1>1, <1>2, <2>1, <2>2, <2>4 DEF PlanHolds, PackInv, OwnerWroteIt
    <3>2. CASE writer[x] # ByHand
      <4>1. OwnerAmong(installs, x) = writer[x] /\ OwnerAmong(installs, x) # ByHand
        BY <3>1, <3>2
      <4>2. OwnerAmong(installs, x) \in DOMAIN installs /\ x \in ItemsOf(installs[OwnerAmong(installs, x)].doc)
        BY <1>2, <4>1, OwnerListsIt
      <4>3. p.drops = Dropped(p.doc, installs)
        BY <1>2, <2>1, <2>4 DEF PlanHolds
      <4>4. OwnerAmong(installs, x) # name
        BY <2>2, <2>4, <4>2, <4>3 DEF Dropped
      <4> QED
        BY <1>5, <2>4, <3>1, <4>1, <4>4
    <3> QED
      BY <3>1, <3>2
  <2>5. CASE p.removes
    <3>1. x \in DOMAIN objects /\ writer'[x] = writer[x] /\ writer[x] \in {ByHand, OwnerAmong(installs, x)}
      BY <1>1, <1>2, <2>1, <2>2, <2>5 DEF PlanHolds, PackInv, OwnerWroteIt
    <3>2. CASE writer[x] # ByHand
      <4>1. OwnerAmong(installs, x) = writer[x] /\ OwnerAmong(installs, x) # ByHand
        BY <3>1, <3>2
      <4>2. OwnerAmong(installs, x) \in DOMAIN installs /\ x \in ItemsOf(installs[OwnerAmong(installs, x)].doc)
        BY <1>2, <4>1, OwnerListsIt
      <4>3. p.drops = UninstallDrops(p.doc, installs) /\ installs[name].doc = p.doc
        BY <1>2, <2>1, <2>5 DEF PlanHolds
      <4>4. OwnerAmong(installs, x) # name
        BY <2>2, <4>2, <4>3 DEF UninstallDrops
      <4> QED
        BY <1>5, <2>5, <3>1, <4>1, <4>4
    <3> QED
      BY <3>1, <3>2
  <2> QED
    BY <2>3, <2>4, <2>5
<1>9. OverlayOnlyAdds'
  BY <1>1 DEF PackInv, OverlayOnlyAdds
<1> QED
  BY <1>6, <1>7, <1>8, <1>9 DEF PackInv

LEMMA RefuseKeeps == ASSUME PackInv, NEW r \in PackRequests, RefusePlan(r) PROVE PackInv'
<1>1. /\ planned' = [planned EXCEPT ![r] = NoPlan]
      /\ UNCHANGED <<objects, installs, release, compiled, controls, writer, stale, blind, packWrites>>
  BY DEF RefusePlan
<1>2. PackTyped /\ PackTyped'
  BY <1>1 DEF PackInv, PackTyped, TimesTellApart
<1>3. PlansHold'
  <2> SUFFICES ASSUME NEW s \in PackRequests, planned'[s] # NoPlan PROVE PlanHolds(planned[s])'
    BY DEF PlansHold
  <2>1. planned'[s] = planned[s] /\ PlanHolds(planned[s])
    BY <1>1, <1>2 DEF PackInv, PlansHold, PackTyped
  <2> PICK q : q = planned[s]
    OBVIOUS
  <2>2. PlanHolds(q)'
    BY <1>1, <2>1, PlanStays
  <2> QED
    BY <2>1, <2>2 DEF PlanHolds, PlanIsCurrent
<1> QED
  BY <1>1, <1>2, <1>3 DEF PackInv, OwnerWroteIt, Sound, OwnerAmong, OverlayOnlyAdds

(* An analyst's write: the item is theirs, the rest is as it was.          *)
LEMMA HandKeeps == ASSUME PackInv, WriteByHand \/ DeleteByHand PROVE PackInv'
<1>1. /\ DOMAIN writer' = DOMAIN objects' /\ packWrites' = packWrites + 1
      /\ \A x \in DOMAIN objects' : writer'[x] = ByHand \/ (x \in DOMAIN objects /\ writer'[x] = writer[x])
      /\ UNCHANGED <<installs, release, compiled, controls, planned, stale, blind>>
  <2>1. CASE WriteByHand
    BY <2>1 DEF WriteByHand
  <2>2. CASE DeleteByHand
    BY <2>2 DEF DeleteByHand
  <2> QED
    BY <2>1, <2>2
<1>2. PackTyped /\ packWrites \in Nat
  BY DEF PackInv, PackTyped
<1>3. PackTyped'
  BY <1>1, <1>2 DEF PackTyped, TimesTellApart
<1>4. PlansHold'
  BY <1>1, WritesOvertake DEF PackInv, PlansHold
<1>5. OwnerWroteIt'
  BY <1>1 DEF PackInv, OwnerWroteIt, Sound, OwnerAmong
<1> QED
  BY <1>1, <1>3, <1>4, <1>5 DEF PackInv, OverlayOnlyAdds

(* A pack's fields come after those that ship, and the overlay is laid out *)
(* only when no name comes twice.                                          *)
LEMMA OverlayAdds ==
  ASSUME PackTyped, NEW models \in Releases
  PROVE  LET laid == OverlayOf(models)
         IN  /\ DOMAIN laid = DOMAIN models
             /\ \A m \in DOMAIN models :
                   /\ models[m].clauses \subseteq laid[m].clauses
                   /\ models[m].fields = {f \in laid[m].fields : f.at = 0}
                   /\ \A f, g \in laid[m].fields : f.name = g.name => f = g
<1> DEFINE packs == Installed(DOMAIN models)
           merged == MergedCim(models, packs)
<1>1. \A m \in DOMAIN models : \A f, g \in models[m].fields : f.at = 0 /\ (f.name = g.name => f = g)
  BY PackAssumption
<1>2. \A n \in DOMAIN packs : packs[n].at # 0
  BY DEF PackTyped, TimesTellApart, Installed
<1> HIDE DEF packs
<1>3. /\ DOMAIN merged = DOMAIN models
      /\ \A m \in DOMAIN models :
            /\ models[m].clauses \subseteq merged[m].clauses
            /\ merged[m].fields = models[m].fields \cup
                  UNION {FieldsOf(packs[n], m) : n \in {k \in DOMAIN packs : m \in DOMAIN packs[k].doc.cim}}
  BY DEF MergedCim
<1>4. ASSUME NEW m \in DOMAIN models PROVE models[m].fields = {f \in merged[m].fields : f.at = 0}
  <2>1. \A n \in DOMAIN packs : \A f \in FieldsOf(packs[n], m) : f.at # 0
    BY <1>2 DEF FieldsOf
  <2> QED
    BY <1>1, <1>3, <2>1
<1>5. OverlayOf(models) = models \/ (OverlayOf(models) = merged /\ \A m \in DOMAIN models : AddsNewFields(merged[m]))
  BY DEF OverlayOf, packs
<1> HIDE DEF merged
<1>6. CASE OverlayOf(models) = models
  BY <1>1, <1>6
<1>7. CASE OverlayOf(models) = merged /\ \A m \in DOMAIN models : AddsNewFields(merged[m])
  BY <1>3, <1>4, <1>7 DEF AddsNewFields
<1> QED
  BY <1>5, <1>6, <1>7

LEMMA StartUpKeeps == ASSUME PackInv, StartUp PROVE PackInv'
<1> DEFINE models == release'
<1>1. /\ models \in Releases /\ compiled' = OverlayOf(models) /\ planned' = [r \in PackRequests |-> NoPlan]
      /\ UNCHANGED <<objects, installs, writer, stale, blind, packWrites>>
      /\ \A k \in DOMAIN BaseControls : controls'[k] = BaseControls[k]
  BY DEF StartUp, ControlsWith
<1>2. PackTyped /\ PackTyped'
  BY <1>1 DEF PackInv, PackTyped, TimesTellApart
<1>3. OverlayOnlyAdds'
  <2> HIDE DEF models
  <2>1. /\ DOMAIN compiled' = DOMAIN models
        /\ \A m \in DOMAIN models :
              /\ models[m].clauses \subseteq compiled'[m].clauses
              /\ models[m].fields = {f \in compiled'[m].fields : f.at = 0}
              /\ \A f, g \in compiled'[m].fields : f.name = g.name => f = g
    BY <1>1, <1>2, OverlayAdds
  <2> QED
    BY <1>1, <2>1 DEF OverlayOnlyAdds, models
<1> QED
  BY <1>1, <1>2, <1>3 DEF PackInv, PlansHold, OwnerWroteIt, Sound, OwnerAmong

LEMMA PackInvStep == PackInv /\ [PackNext]_packVars => PackInv'
<1> SUFFICES ASSUME PackInv, [PackNext]_packVars PROVE PackInv'
  OBVIOUS
<1>1. CASE UNCHANGED packVars
  <2>1. UNCHANGED <<objects, installs, release, compiled, controls, planned, writer, stale, blind, packWrites>>
    BY <1>1 DEF packVars
  <2>2. PackTyped'
    BY <2>1 DEF PackInv, PackTyped, TimesTellApart
  <2>3. PlansHold'
    BY <2>1 DEF PackInv, PlansHold, PlanHolds, PlanIsCurrent, UninstallDrops, Dropped, OwnerAmong
  <2> QED
    BY <2>1, <2>2, <2>3 DEF PackInv, OwnerWroteIt, Sound, OwnerAmong, OverlayOnlyAdds
<1>2. ASSUME NEW r \in PackRequests, PlanImport(r) \/ PlanUninstall(r) \/ RefusePlan(r) \/ ApplyPlan(r) PROVE PackInv'
  BY <1>2, PlanImportKeeps, PlanUninstallKeeps, RefuseKeeps, ApplyKeeps
<1>3. CASE WriteByHand \/ DeleteByHand \/ StartUp
  BY <1>3, HandKeeps, StartUpKeeps
<1> QED
  BY <1>1, <1>2, <1>3 DEF PackNext

LEMMA PacksFollow == PackInv => PacksAreAccounted
<1> SUFFICES ASSUME PackInv PROVE PacksAreAccounted
  OBVIOUS
<1>1. OwnerWroteIt /\ OverlayOnlyAdds /\ packWrites \in Nat /\ TimesTellApart(installs, packWrites)
  BY DEF PackInv, PackTyped
<1>2. NothingIsOrphaned
  <2> SUFFICES ASSUME Sound, NEW x \in DOMAIN objects, writer[x] # ByHand
               PROVE  \E n \in DOMAIN installs : x \in ItemsOf(installs[n].doc)
    BY DEF NothingIsOrphaned
  <2>1. OwnerAmong(installs, x) # ByHand
    BY <1>1 DEF OwnerWroteIt
  <2> QED
    BY <1>1, <2>1, OwnerListsIt
<1> QED
  BY <1>1, <1>2 DEF PacksAreAccounted

(* Over any installs, upgrades, takeovers, uninstalls, hand edits and        *)
(* restarts, whatever packs and releases there are: no item outlives the     *)
(* pack that wrote it, the owner read off the documents is the last writer,  *)
(* and the overlay only adds to what ships (contentpack.py, plan_install,    *)
(* snapshot, merge_cim, merge_compliance; db.apply_content_pack).            *)
THEOREM PacksStayAccounted == PackSpec => []PacksAreAccounted
<1> QED
  BY PackInvInit, PackInvStep, PacksFollow, PTL DEF PackSpec

LEMMA UninstallKeepsTheirs ==
  ASSUME PackInv, NEW r \in PackRequests, Sound, ApplyPlan(r), planned[r].removes, ~stale',
         NEW x \in DOMAIN objects, writer[x] \notin {ByHand, planned[r].doc.name}
  PROVE  x \in DOMAIN objects'
<1> DEFINE p == planned[r]
<1>1. p # NoPlan /\ p.at = packWrites /\ DOMAIN objects' = (DOMAIN objects \cup p.puts) \ p.drops
  BY DEF ApplyPlan
<1>2. p.drops = UninstallDrops(p.doc, installs)
  BY <1>1 DEF PackInv, PlansHold, PlanHolds, PlanIsCurrent, Sound
<1>3. writer[x] = OwnerAmong(installs, x)
  BY DEF PackInv, OwnerWroteIt
<1> QED
  BY <1>1, <1>2, <1>3 DEF UninstallDrops

(* No uninstall whose plan is current removes an item that another pack has *)
(* written, however often the packs took it over from one another           *)
(* (contentpack.py, plan_uninstall).                                        *)
THEOREM UninstallsSpareOthers == PackSpec => UninstallSparesOthers
<1>1. PackInv /\ [PackNext]_packVars =>
        [\A r \in PackRequests :
           Sound /\ ApplyPlan(r) /\ planned[r].removes /\ ~stale' =>
             \A x \in DOMAIN objects : writer[x] \notin {ByHand, planned[r].doc.name} => x \in DOMAIN objects']_packVars
  BY UninstallKeepsTheirs
<1> QED
  BY <1>1, PackInvInit, PackInvStep, PTL DEF PackSpec, UninstallSparesOthers

-----------------------------------------------------------------------------
(***************************************************************************)
(* The queries (Loql).                                                     *)
(*                                                                         *)
(* What the compiler keeps is true of the relation it never sees: cols,    *)
(* and what is carried, are its labels, each once, and a column in         *)
(* timeCols is of a time's type.  From that a name the compiler resolves   *)
(* is one that PostgreSQL does.                                            *)
(***************************************************************************)
LabelsOf(r) == {r[i].label : i \in DOMAIN r}
OneEach(r) == IsList(r) /\ \A i, j \in DOMAIN r : r[i].label = r[j].label => i = j
ScopeNames == ToSet(cols) \cup (IF rawAvail THEN ToSet(Passthru) ELSE {})

ScopeIsSound ==
    /\ IsList(cols) /\ Distinct(cols) /\ NoColumn \notin ToSet(cols)
    /\ rawAvail \in BOOLEAN /\ (rawAvail => ToSet(cols) \cap ToSet(Passthru) = {})
    /\ OrderReads \subseteq ToSet(cols)

TimesAreTyped == timeCols \subseteq ToSet(cols) /\ \A c \in timeCols : TypeIn(rel, c) \in {"ts", "agg"}

LoqlInv ==
    /\ ScopeIsSound /\ TimesAreTyped
    /\ OneEach(rel) /\ LabelsOf(rel) = ScopeNames
    /\ OneEach(below) /\ lastCte.reads \subseteq LabelsOf(below)
    /\ params = placeholders

LEMMA ListFacts ==
  ASSUME NEW s, IsList(s)
  PROVE  /\ Len(s) \in Nat /\ DOMAIN s = 1..Len(s) /\ s = [i \in 1..Len(s) |-> s[i]]
         /\ \A i \in DOMAIN s : s[i] \in ToSet(s)
BY DEF IsList, ToSet

LEMMA ListMade ==
  ASSUME NEW n \in Nat, NEW s, s = [i \in 1..n |-> s[i]]
  PROVE  IsList(s) /\ Len(s) = n /\ DOMAIN s = 1..n
<1>1. \A i \in 1..n : s[i] \in ToSet(s)
  <2>1. DOMAIN s = 1..n
    OBVIOUS
  <2> QED
    BY <2>1 DEF ToSet
<1>2. s \in Seq(ToSet(s))
  BY <1>1
<1> QED
  BY <1>2 DEF IsList

LEMMA EmptyList == IsList(<<>>) /\ ToSet(<<>>) = {} /\ OneEach(<<>>) /\ LabelsOf(<<>>) = {} /\ DOMAIN <<>> = {}
BY DEF IsList, ToSet, OneEach, LabelsOf

LEMMA Concatenated ==
  ASSUME NEW r, NEW s, IsList(r), IsList(s)
  PROVE  /\ IsList(r \o s) /\ DOMAIN (r \o s) = 1..(Len(r) + Len(s)) /\ Len(r \o s) = Len(r) + Len(s)
         /\ \A i \in DOMAIN r : i \in DOMAIN (r \o s) /\ (r \o s)[i] = r[i]
         /\ \A i \in DOMAIN s : i + Len(r) \in DOMAIN (r \o s) /\ (r \o s)[i + Len(r)] = s[i]
         /\ \A i \in DOMAIN (r \o s) : i \in DOMAIN r \/ (i - Len(r) \in DOMAIN s /\ (r \o s)[i] = s[i - Len(r)])
         /\ ToSet(r \o s) = ToSet(r) \cup ToSet(s)
<1> DEFINE S == ToSet(r) \cup ToSet(s)
<1>1. r \in Seq(S) /\ s \in Seq(S)
  <2>1. r \in Seq(ToSet(r)) /\ s \in Seq(ToSet(s)) /\ ToSet(r) \subseteq S /\ ToSet(s) \subseteq S
    BY DEF IsList
  <2> HIDE DEF S
  <2> QED
    BY <2>1, SeqMonotonic
<1>2. /\ Len(r) \in Nat /\ DOMAIN r = 1..Len(r) /\ \A i \in DOMAIN r : r[i] \in ToSet(r)
      /\ Len(s) \in Nat /\ DOMAIN s = 1..Len(s) /\ \A i \in DOMAIN s : s[i] \in ToSet(s)
  BY ListFacts
<1> HIDE DEF S
<1> DEFINE t == r \o s
<1>3. /\ t \in Seq(S) /\ Len(t) = Len(r) + Len(s)
      /\ \A i \in 1 .. Len(r) + Len(s) : t[i] = IF i <= Len(r) THEN r[i] ELSE s[i - Len(r)]
  BY <1>1, ConcatProperties
<1> HIDE DEF t
<1>4. DOMAIN t = 1..(Len(r) + Len(s)) /\ t = [i \in 1..(Len(r) + Len(s)) |-> t[i]]
  <2>1. Len(t) = Len(r) + Len(s) /\ t \in Seq(S)
    BY <1>3
  <2> QED
    BY <2>1
<1>5. IsList(t)
  BY <1>2, <1>4, ListMade
<1>6. \A i \in DOMAIN r : i \in DOMAIN t /\ t[i] = r[i]
  BY <1>2, <1>3, <1>4
<1>7. \A i \in DOMAIN s : i + Len(r) \in DOMAIN t /\ t[i + Len(r)] = s[i]
  BY <1>2, <1>3, <1>4
<1>8. \A i \in DOMAIN t : i \in DOMAIN r \/ (i - Len(r) \in DOMAIN s /\ t[i] = s[i - Len(r)])
  BY <1>2, <1>3, <1>4
<1>9. ToSet(t) = ToSet(r) \cup ToSet(s)
  BY <1>6, <1>7, <1>8 DEF ToSet
<1> QED
  BY <1>3, <1>4, <1>5, <1>6, <1>7, <1>8, <1>9 DEF t

LEMMA RowType ==
  ASSUME NEW r, OneEach(r), NEW i \in DOMAIN r
  PROVE  TypeIn(r, r[i].label) = r[i].type
<1>1. (CHOOSE j \in DOMAIN r : r[j].label = r[i].label) = i
  BY DEF OneEach
<1> QED
  BY <1>1 DEF TypeIn

(* Two relations with no label in common, side by side.                    *)
LEMMA RelationsJoin ==
  ASSUME NEW r, NEW s, OneEach(r), OneEach(s), LabelsOf(r) \cap LabelsOf(s) = {}
  PROVE  /\ OneEach(r \o s) /\ LabelsOf(r \o s) = LabelsOf(r) \cup LabelsOf(s)
         /\ \A c \in LabelsOf(r) : TypeIn(r \o s, c) = TypeIn(r, c)
         /\ \A c \in LabelsOf(s) : TypeIn(r \o s, c) = TypeIn(s, c)
<1> DEFINE t == r \o s
           n == Len(r)
<1>1. IsList(r) /\ IsList(s)
  BY DEF OneEach
<1>2. n \in Nat /\ DOMAIN r = 1..n /\ Len(s) \in Nat /\ DOMAIN s = 1..Len(s)
  BY <1>1, ListFacts
<1>3. /\ IsList(t) /\ DOMAIN t = 1..(n + Len(s))
      /\ \A i \in DOMAIN r : i \in DOMAIN t /\ t[i] = r[i]
      /\ \A i \in DOMAIN s : i + n \in DOMAIN t /\ t[i + n] = s[i]
      /\ \A i \in DOMAIN t : i \in DOMAIN r \/ (i - n \in DOMAIN s /\ t[i] = s[i - n])
  BY <1>1, Concatenated
<1> HIDE DEF t, n
<1>4. LabelsOf(t) = LabelsOf(r) \cup LabelsOf(s)
  BY <1>3 DEF LabelsOf
<1>5. \A i, j \in DOMAIN t : t[i].label = t[j].label => i = j
  <2> SUFFICES ASSUME NEW i \in DOMAIN t, NEW j \in DOMAIN t, t[i].label = t[j].label PROVE i = j
    OBVIOUS
  <2>1. \A k \in DOMAIN r : r[k].label \in LabelsOf(r)
    BY DEF LabelsOf
  <2>2. \A k \in DOMAIN s : s[k].label \in LabelsOf(s)
    BY DEF LabelsOf
  <2>3. CASE i \in DOMAIN r /\ j \in DOMAIN r
    BY <2>3, <1>3 DEF OneEach
  <2>4. CASE i \notin DOMAIN r /\ j \notin DOMAIN r
    <3>1. i - n = j - n
      BY <2>4, <1>3 DEF OneEach
    <3> QED
      BY <3>1, <1>2, <1>3
  <2>5. CASE i \in DOMAIN r /\ j \notin DOMAIN r
    BY <2>1, <2>2, <2>5, <1>3
  <2>6. CASE i \notin DOMAIN r /\ j \in DOMAIN r
    BY <2>1, <2>2, <2>6, <1>3
  <2> QED
    BY <2>3, <2>4, <2>5, <2>6
<1>6. OneEach(t)
  BY <1>3, <1>5 DEF OneEach
<1>7. \A c \in LabelsOf(r) : TypeIn(t, c) = TypeIn(r, c)
  <2> SUFFICES ASSUME NEW i \in DOMAIN r PROVE TypeIn(t, r[i].label) = TypeIn(r, r[i].label)
    BY DEF LabelsOf
  <2>1. i \in DOMAIN t /\ t[i] = r[i]
    BY <1>3
  <2> QED
    BY <2>1, <1>6, RowType
<1>8. \A c \in LabelsOf(s) : TypeIn(t, c) = TypeIn(s, c)
  <2> SUFFICES ASSUME NEW i \in DOMAIN s PROVE TypeIn(t, s[i].label) = TypeIn(s, s[i].label)
    BY DEF LabelsOf
  <2>1. i + n \in DOMAIN t /\ t[i + n] = s[i]
    BY <1>3
  <2> QED
    BY <2>1, <1>6, RowType
<1> QED
  BY <1>4, <1>6, <1>7, <1>8 DEF t

LEMMA CarriedRelation ==
  /\ OneEach(Labelled(Passthru)) /\ LabelsOf(Labelled(Passthru)) = ToSet(Passthru)
<1> DEFINE L == Labelled(Passthru)
           n == Len(Passthru)
<1>1. n \in Nat /\ DOMAIN Passthru = 1..n
  BY LoqlAssumption, ListFacts
<1>2. L = [i \in 1..n |-> L[i]] /\ \A i \in 1..n : L[i].label = Passthru[i]
  BY <1>1 DEF Labelled
<1> HIDE DEF L, n
<1>3. IsList(L) /\ DOMAIN L = 1..n
  BY <1>1, <1>2, ListMade
<1>4. OneEach(L)
  BY <1>1, <1>2, <1>3, LoqlAssumption DEF OneEach, Distinct
<1>5. LabelsOf(L) = ToSet(Passthru)
  BY <1>1, <1>2, <1>3 DEF LabelsOf, ToSet
<1> QED
  BY <1>4, <1>5 DEF L

-----------------------------------------------------------------------------
(* The recursive function of FlattenSeq has a value at every number.       *)
FlatTo(f, s, m) == f = [i \in 1..m |-> IF i = 1 THEN s[i] ELSE f[i - 1] \o s[i]]

LEMMA FlatOneMore ==
  ASSUME NEW s, NEW m \in Nat, NEW f, FlatTo(f, s, m)
  PROVE  \E g : FlatTo(g, s, m + 1)
<1> DEFINE end == IF m + 1 = 1 THEN s[m + 1] ELSE f[m] \o s[m + 1]
           g == [i \in 1..(m + 1) |-> IF i = m + 1 THEN end ELSE f[i]]
           G(i) == IF i = 1 THEN s[i] ELSE g[i - 1] \o s[i]
<1>1. \A i \in 1..m : f[i] = IF i = 1 THEN s[i] ELSE f[i - 1] \o s[i]
  BY DEF FlatTo
<1>2. g[m + 1] = end /\ \A i \in 1..m : g[i] = f[i]
  <2> HIDE DEF end
  <2> QED
    OBVIOUS
<1>3. g = [i \in 1..(m + 1) |-> g[i]]
  OBVIOUS
<1> HIDE DEF g
<1>4. \A i \in 1..(m + 1) : g[i] = G(i)
  <2> SUFFICES ASSUME NEW i \in 1..(m + 1) PROVE g[i] = G(i)
    OBVIOUS
  <2>1. CASE i = m + 1
    <3>1. i # 1 => i - 1 = m /\ g[i - 1] = f[m]
      BY <2>1, <1>2
    <3> QED
      BY <2>1, <3>1, <1>2
  <2>2. CASE i # m + 1
    <3>1. i \in 1..m /\ (i # 1 => i - 1 \in 1..m)
      BY <2>2
    <3> QED
      BY <3>1, <1>1, <1>2
  <2> QED
    BY <2>1, <2>2
<1>5. g = [i \in 1..(m + 1) |-> G(i)]
  <2> HIDE DEF G
  <2> QED
    BY <1>3, <1>4
<1> QED
  BY <1>5 DEF FlatTo

LEMMA FlatExists ==
  ASSUME NEW s, NEW m \in Nat
  PROVE  \E f : FlatTo(f, s, m)
<1> DEFINE T == {n \in Nat : ~\E f : FlatTo(f, s, n)}
<1> SUFFICES ASSUME T # {} PROVE FALSE
  OBVIOUS
<1>1. PICK x \in T : \A y \in T : x <= y
  <2>1. T \in SUBSET Nat
    OBVIOUS
  <2> HIDE DEF T
  <2> QED
    BY <2>1, LeastRow
<1>2. x # 0
  <2> DEFINE f == [i \in 1..0 |-> IF i = 1 THEN s[i] ELSE s[i]]
  <2>1. f = [i \in 1..0 |-> IF i = 1 THEN s[i] ELSE f[i - 1] \o s[i]]
    OBVIOUS
  <2> HIDE DEF f
  <2>2. FlatTo(f, s, 0)
    BY <2>1 DEF FlatTo
  <2> QED
    BY <2>2
<1>3. x - 1 \in Nat /\ x - 1 \notin T /\ (x - 1) + 1 = x
  BY <1>1, <1>2
<1>4. PICK f : FlatTo(f, s, x - 1)
  BY <1>3
<1>5. \E g : FlatTo(g, s, (x - 1) + 1)
  BY <1>3, <1>4, FlatOneMore
<1> QED
  BY <1>1, <1>3, <1>5

(* Of lists that are all empty but one, that one remains.                  *)
LEMMA FlattenOne ==
  ASSUME NEW s, IsList(s), NEW b, IsList(b), NEW k,
         \A i \in DOMAIN s : s[i] = IF i = k THEN b ELSE <<>>
  PROVE  FlattenSeq(s) = IF k \in DOMAIN s THEN b ELSE <<>>
<1> DEFINE n == Len(s)
           f == CHOOSE g : FlatTo(g, s, n)
           Good(i) == f[i] = IF k \in 1..i THEN b ELSE <<>>
<1>1. n \in Nat /\ DOMAIN s = 1..n /\ s = [i \in 1..n |-> s[i]]
  BY ListFacts
<1>2. CASE n = 0
  <2>1. s = <<>>
    BY <1>1, <1>2
  <2> QED
    BY <1>1, <1>2, <2>1 DEF FlattenSeq
<1>3. CASE n # 0
  <2>1. FlatTo(f, s, n)
    BY <1>1, FlatExists
  <2>2. FlattenSeq(s) = f[n]
    BY <1>3 DEF FlattenSeq, FlatTo
  <2> HIDE DEF f
  <2>3. \A i \in 1..n : f[i] = IF i = 1 THEN s[i] ELSE f[i - 1] \o s[i]
    BY <2>1 DEF FlatTo
  <2> DEFINE T == {i \in 1..n : ~Good(i)}
  <2>4. T = {}
    <3> SUFFICES ASSUME T # {} PROVE FALSE
      OBVIOUS
    <3>1. PICK x \in T : \A y \in T : x <= y
      <4>1. T \in SUBSET Nat
        OBVIOUS
      <4> HIDE DEF T
      <4> QED
        BY <4>1, LeastRow
    <3>2. x \in 1..n /\ ~Good(x)
      BY <3>1
    <3>3. x # 1
      BY <3>2, <2>3, <1>1
    <3>4. x - 1 \in 1..n /\ Good(x - 1) /\ f[x] = f[x - 1] \o s[x]
      <4>1. x - 1 \in 1..n /\ x - 1 < x
        BY <3>2, <3>3, <1>1
      <4>2. x - 1 \notin T
        BY <3>1, <4>1
      <4>3. Good(x - 1)
        BY <4>1, <4>2
      <4>4. f[x] = f[x - 1] \o s[x]
        BY <2>3, <3>2, <3>3
      <4> QED
        BY <4>1, <4>3, <4>4
    <3>5. /\ k \in 1..x <=> k \in 1..(x - 1) \/ k = x
          /\ k \in 1..(x - 1) => k # x
      BY <3>2, <1>1
    <3>6. s[x] = IF x = k THEN b ELSE <<>>
      BY <3>2, <1>1
    <3>7. b \o <<>> = b /\ <<>> \o b = b /\ <<>> \o <<>> = <<>>
      <4>1. b \in Seq(ToSet(b)) /\ <<>> \in Seq(ToSet(b))
        BY DEF IsList
      <4> QED
        BY <4>1, ConcatEmptySeq
    <3> HIDE DEF T
    <3> QED
      BY <3>2, <3>4, <3>5, <3>6, <3>7
  <2>5. Good(n)
    BY <2>4, <1>1, <1>3
  <2> QED
    BY <2>2, <2>5, <1>1, <1>3
<1> QED
  BY <1>2, <1>3

-----------------------------------------------------------------------------
(* The recursive function of Dropping has a value at every number.         *)
DroppedTo(f, names, drop, m) ==
    f = [i \in 0..m |-> IF i = 0 THEN <<>> ELSE IF names[i] \in drop THEN f[i - 1] ELSE Append(f[i - 1], names[i])]

LEMMA DroppedOneMore ==
  ASSUME NEW names, NEW drop, NEW m \in Nat, NEW f, DroppedTo(f, names, drop, m)
  PROVE  \E g : DroppedTo(g, names, drop, m + 1)
<1> DEFINE end == IF names[m + 1] \in drop THEN f[m] ELSE Append(f[m], names[m + 1])
           g == [i \in 0..(m + 1) |-> IF i = m + 1 THEN end ELSE f[i]]
           G(i) == IF i = 0 THEN <<>> ELSE IF names[i] \in drop THEN g[i - 1] ELSE Append(g[i - 1], names[i])
<1>1. \A i \in 0..m : f[i] = IF i = 0 THEN <<>> ELSE IF names[i] \in drop THEN f[i - 1] ELSE Append(f[i - 1], names[i])
  BY DEF DroppedTo
<1>2. g[m + 1] = end /\ \A i \in 0..m : g[i] = f[i]
  OBVIOUS
<1>3. g = [i \in 0..(m + 1) |-> g[i]]
  OBVIOUS
<1> HIDE DEF g
<1>4. \A i \in 0..(m + 1) : g[i] = G(i)
  <2> SUFFICES ASSUME NEW i \in 0..(m + 1) PROVE g[i] = G(i)
    OBVIOUS
  <2>1. CASE i = m + 1
    <3>1. i # 0 /\ i - 1 = m /\ g[i - 1] = f[m]
      BY <2>1, <1>2
    <3> QED
      BY <2>1, <3>1, <1>2
  <2>2. CASE i # m + 1
    <3>1. i \in 0..m /\ (i # 0 => i - 1 \in 0..m)
      BY <2>2
    <3> QED
      BY <3>1, <1>1, <1>2
  <2> QED
    BY <2>1, <2>2
<1>5. g = [i \in 0..(m + 1) |-> G(i)]
  <2> HIDE DEF G
  <2> QED
    BY <1>3, <1>4
<1> QED
  BY <1>5 DEF DroppedTo

LEMMA DroppedExists ==
  ASSUME NEW names, NEW drop, NEW m \in Nat
  PROVE  \E f : DroppedTo(f, names, drop, m)
<1> DEFINE T == {n \in Nat : ~\E f : DroppedTo(f, names, drop, n)}
<1> SUFFICES ASSUME T # {} PROVE FALSE
  OBVIOUS
<1>1. PICK x \in T : \A y \in T : x <= y
  <2>1. T \in SUBSET Nat
    OBVIOUS
  <2> HIDE DEF T
  <2> QED
    BY <2>1, LeastRow
<1>2. x # 0
  <2> DEFINE f == [i \in 0..0 |-> <<>>]
  <2>1. f = [i \in 0..0 |-> IF i = 0 THEN <<>> ELSE IF names[i] \in drop THEN f[i - 1] ELSE Append(f[i - 1], names[i])]
    OBVIOUS
  <2> HIDE DEF f
  <2>2. DroppedTo(f, names, drop, 0)
    BY <2>1 DEF DroppedTo
  <2> QED
    BY <2>2
<1>3. x - 1 \in Nat /\ x - 1 \notin T /\ (x - 1) + 1 = x
  BY <1>1, <1>2
<1>4. PICK f : DroppedTo(f, names, drop, x - 1)
  BY <1>3
<1>5. \E g : DroppedTo(g, names, drop, (x - 1) + 1)
  BY <1>3, <1>4, DroppedOneMore
<1> QED
  BY <1>1, <1>3, <1>5

LEMMA DroppingKeeps ==
  ASSUME NEW names, IsList(names), NEW drop
  PROVE  IsList(Dropping(names, drop)) /\ ToSet(Dropping(names, drop)) \subseteq ToSet(names)
<1> DEFINE n == Len(names)
           f == CHOOSE g : DroppedTo(g, names, drop, n)
           T == {i \in 0..n : f[i] \notin Seq(ToSet(names))}
<1>1. n \in Nat /\ \A i \in 1..n : names[i] \in ToSet(names)
  BY ListFacts
<1>2. DroppedTo(f, names, drop, n)
  BY <1>1, DroppedExists
<1>3. Dropping(names, drop) = f[n]
  BY DEF Dropping, DroppedTo
<1> HIDE DEF f
<1>4. \A i \in 0..n : f[i] = IF i = 0 THEN <<>> ELSE IF names[i] \in drop THEN f[i - 1] ELSE Append(f[i - 1], names[i])
  BY <1>2 DEF DroppedTo
<1>5. T = {}
  <2> SUFFICES ASSUME T # {} PROVE FALSE
    OBVIOUS
  <2>1. PICK x \in T : \A y \in T : x <= y
    <3>1. T \in SUBSET Nat
      OBVIOUS
    <3> HIDE DEF T
    <3> QED
      BY <3>1, LeastRow
  <2>2. x \in 0..n /\ f[x] \notin Seq(ToSet(names))
    BY <2>1
  <2>3. x # 0
    <3>1. <<>> \in Seq(ToSet(names)) /\ f[0] = <<>>
      BY <1>1, <1>4
    <3> QED
      BY <2>2, <3>1
  <2>4. x - 1 \in 0..n /\ x \in 1..n /\ f[x - 1] \in Seq(ToSet(names))
    BY <2>1, <2>2, <2>3
  <2>5. names[x] \in ToSet(names) /\ Append(f[x - 1], names[x]) \in Seq(ToSet(names))
    BY <2>4, <1>1
  <2>6. f[x] = f[x - 1] \/ f[x] = Append(f[x - 1], names[x])
    BY <2>2, <2>3, <1>4
  <2> QED
    BY <2>2, <2>4, <2>5, <2>6
<1>6. Dropping(names, drop) \in Seq(ToSet(names))
  BY <1>3, <1>5, <1>1
<1>7. ASSUME NEW s \in Seq(ToSet(names)) PROVE IsList(s) /\ ToSet(s) \subseteq ToSet(names)
  <2>1. Len(s) \in Nat /\ DOMAIN s = 1..Len(s) /\ s = [i \in 1..Len(s) |-> s[i]]
    OBVIOUS
  <2>2. \A i \in DOMAIN s : s[i] \in ToSet(names)
    BY <2>1
  <2>3. ToSet(s) \subseteq ToSet(names)
    BY <2>2 DEF ToSet
  <2> QED
    BY <2>1, <2>3, ListMade
<1> QED
  BY <1>6, <1>7

(* Lists joined are a list.                                                *)
LEMMA FlattenIsList ==
  ASSUME NEW s, IsList(s), \A i \in DOMAIN s : IsList(s[i])
  PROVE  IsList(FlattenSeq(s))
<1> DEFINE n == Len(s)
           f == CHOOSE g : FlatTo(g, s, n)
           T == {i \in 1..n : ~IsList(f[i])}
<1>1. n \in Nat /\ DOMAIN s = 1..n /\ s = [i \in 1..n |-> s[i]]
  BY ListFacts
<1>2. CASE n = 0
  <2>1. s = <<>> /\ FlattenSeq(s) = s
    BY <1>1, <1>2 DEF FlattenSeq
  <2> QED
    BY <2>1
<1>3. CASE n # 0
  <2>1. FlatTo(f, s, n)
    BY <1>1, FlatExists
  <2>2. FlattenSeq(s) = f[n]
    BY <1>3 DEF FlattenSeq, FlatTo
  <2> HIDE DEF f
  <2>3. \A i \in 1..n : f[i] = IF i = 1 THEN s[i] ELSE f[i - 1] \o s[i]
    BY <2>1 DEF FlatTo
  <2>4. T = {}
    <3> SUFFICES ASSUME T # {} PROVE FALSE
      OBVIOUS
    <3>1. PICK x \in T : \A y \in T : x <= y
      <4>1. T \in SUBSET Nat
        OBVIOUS
      <4> HIDE DEF T
      <4> QED
        BY <4>1, LeastRow
    <3>2. x \in 1..n /\ ~IsList(f[x])
      BY <3>1
    <3>3. x # 1
      BY <3>2, <2>3, <1>1
    <3>4. x - 1 \in 1..n /\ x - 1 < x
      BY <3>2, <3>3, <1>1
    <3>5. x - 1 \notin T
      BY <3>1, <3>4
    <3>6. IsList(f[x - 1]) /\ IsList(s[x])
      BY <3>2, <3>4, <3>5, <1>1
    <3>7. IsList(f[x - 1] \o s[x])
      BY <3>6, Concatenated
    <3> QED
      BY <3>2, <3>3, <3>7, <2>3
  <2> QED
    BY <2>2, <2>4, <1>1, <1>3
<1> QED
  BY <1>2, <1>3

-----------------------------------------------------------------------------
(* The relation of a CTE that lists its columns.                           *)
LEMMA ListedRelation ==
  ASSUME NEW cte, NEW r, ~cte.star, OneEach(cte.items), cte.carried => LabelsOf(cte.items) \cap ToSet(Passthru) = {}
  PROVE  /\ OneEach(RelationOf(cte, r))
         /\ LabelsOf(RelationOf(cte, r)) = LabelsOf(cte.items) \cup (IF cte.carried THEN ToSet(Passthru) ELSE {})
         /\ \A i \in DOMAIN cte.items : TypeIn(RelationOf(cte, r), cte.items[i].label) = cte.items[i].type
<1> DEFINE items == cte.items
           shown == [i \in DOMAIN items |-> [label |-> items[i].label, type |-> items[i].type]]
           tail == IF cte.carried THEN Labelled(Passthru) ELSE <<>>
           n == Len(items)
<1>1. n \in Nat /\ DOMAIN items = 1..n
  BY ListFacts DEF OneEach
<1>2. shown = [i \in 1..n |-> shown[i]] /\ \A i \in 1..n : shown[i].label = items[i].label /\ shown[i].type = items[i].type
  BY <1>1
<1>3. RelationOf(cte, r) = (<<>> \o shown) \o tail
  BY DEF RelationOf
<1>4. OneEach(items) /\ (cte.carried => LabelsOf(items) \cap ToSet(Passthru) = {})
  OBVIOUS
<1>5. OneEach(tail) /\ LabelsOf(tail) = IF cte.carried THEN ToSet(Passthru) ELSE {}
  BY CarriedRelation, EmptyList
<1> HIDE DEF n, shown, items, tail
<1>6. IsList(shown) /\ DOMAIN shown = 1..n
  BY <1>1, <1>2, ListMade
<1>7. OneEach(shown) /\ LabelsOf(shown) = LabelsOf(items)
  BY <1>1, <1>2, <1>4, <1>6 DEF OneEach, LabelsOf
<1>8. <<>> \o shown = shown
  <2>1. shown \in Seq(ToSet(shown))
    BY <1>6 DEF IsList
  <2> QED
    BY <2>1, ConcatEmptySeq
<1>9. LabelsOf(shown) \cap LabelsOf(tail) = {}
  BY <1>4, <1>5, <1>7
<1>10. /\ OneEach(shown \o tail) /\ LabelsOf(shown \o tail) = LabelsOf(shown) \cup LabelsOf(tail)
       /\ \A c \in LabelsOf(shown) : TypeIn(shown \o tail, c) = TypeIn(shown, c)
  BY <1>5, <1>7, <1>9, RelationsJoin
<1>11. \A i \in DOMAIN items : TypeIn(shown, items[i].label) = items[i].type /\ items[i].label \in LabelsOf(shown)
  <2> SUFFICES ASSUME NEW i \in DOMAIN items
               PROVE  TypeIn(shown, items[i].label) = items[i].type /\ items[i].label \in LabelsOf(shown)
    OBVIOUS
  <2>1. i \in DOMAIN shown /\ shown[i].label = items[i].label /\ shown[i].type = items[i].type
    BY <1>1, <1>2, <1>6
  <2>2. TypeIn(shown, shown[i].label) = shown[i].type
    BY <2>1, <1>7, RowType
  <2> QED
    BY <2>1, <2>2 DEF LabelsOf
<1> QED
  BY <1>3, <1>5, <1>7, <1>8, <1>10, <1>11 DEF items

(* The relation of one that takes them all, and may add a column.          *)
LEMMA WholeRelation ==
  ASSUME NEW cte, NEW r, cte.star, cte.items = <<>>, ~cte.carried, OneEach(r)
  PROVE  RelationOf(cte, r) = r
<1>1. RelationOf(cte, r) = (r \o <<>>) \o <<>>
  <2>1. [i \in DOMAIN cte.items |-> [label |-> cte.items[i].label, type |-> cte.items[i].type]] = <<>>
    BY DEF IsList
  <2> QED
    BY <2>1 DEF RelationOf
<1>2. r \in Seq(ToSet(r))
  BY DEF OneEach, IsList
<1>3. r \o <<>> = r
  BY <1>2, ConcatEmptySeq
<1> QED
  BY <1>1, <1>3

LEMMA WidenedRelation ==
  ASSUME NEW cte, NEW r, NEW item, cte.star, cte.items = <<item>>, ~cte.carried, OneEach(r), item.label \notin LabelsOf(r)
  PROVE  /\ OneEach(RelationOf(cte, r)) /\ LabelsOf(RelationOf(cte, r)) = LabelsOf(r) \cup {item.label}
         /\ \A c \in LabelsOf(r) : TypeIn(RelationOf(cte, r), c) = TypeIn(r, c)
         /\ TypeIn(RelationOf(cte, r), item.label) = item.type
<1> DEFINE shown == [i \in DOMAIN cte.items |-> [label |-> cte.items[i].label, type |-> cte.items[i].type]]
<1>1. shown = <<[label |-> item.label, type |-> item.type]>>
  OBVIOUS
<1>2. RelationOf(cte, r) = (r \o shown) \o <<>>
  BY DEF RelationOf
<1>3. DOMAIN shown = 1..1 /\ shown[1].label = item.label /\ shown[1].type = item.type /\ shown = [i \in 1..1 |-> shown[i]]
  BY <1>1
<1> HIDE DEF shown
<1>4. IsList(shown)
  BY <1>3, ListMade
<1>5. OneEach(shown)
  BY <1>3, <1>4 DEF OneEach
<1>6. LabelsOf(shown) = {item.label}
  BY <1>3 DEF LabelsOf
<1>7. /\ OneEach(r \o shown) /\ LabelsOf(r \o shown) = LabelsOf(r) \cup LabelsOf(shown)
      /\ \A c \in LabelsOf(r) : TypeIn(r \o shown, c) = TypeIn(r, c)
      /\ \A c \in LabelsOf(shown) : TypeIn(r \o shown, c) = TypeIn(shown, c)
  BY <1>5, <1>6, RelationsJoin
<1>8. TypeIn(shown, item.label) = item.type
  BY <1>3, <1>5, RowType
<1>9. (r \o shown) \o <<>> = r \o shown
  <2>1. r \o shown \in Seq(ToSet(r \o shown))
    BY <1>7 DEF OneEach, IsList
  <2> QED
    BY <2>1, ConcatEmptySeq
<1> QED
  BY <1>2, <1>6, <1>7, <1>8, <1>9

-----------------------------------------------------------------------------
(* What a name, and an expression, comes to.                               *)
LEMMA StandingName ==
  ASSUME ScopeIsSound, NEW c \in ToSet(cols), NEW at
  PROVE  /\ LiveColumn(c) = c /\ c # NoColumn
         /\ Term(c, at).reads = {c} /\ Term(c, at).binds = <<>> /\ Term(c, at).type = TypeIn(rel, c)
BY DEF ScopeIsSound, LiveColumn, Term

LEMMA LiveStands ==
  ASSUME NEW name, LiveColumn(name) # NoColumn
  PROVE  LiveColumn(name) \in ToSet(cols)
BY DEF LiveColumn

LEMMA TermReads ==
  ASSUME NEW name, Resolvable(name), rawAvail \in BOOLEAN, NEW at
  PROVE  Term(name, at).reads \subseteq ScopeNames
<1>1. CASE LiveColumn(name) # NoColumn
  <2>1. LiveColumn(name) \in ToSet(cols)
    BY <1>1, LiveStands
  <2>2. Term(name, at).reads = {LiveColumn(name)}
    BY <1>1 DEF Term
  <2> QED
    BY <2>1, <2>2 DEF ScopeNames
<1>2. CASE LiveColumn(name) = NoColumn
  <2>1. rawAvail /\ Term(name, at).reads = {"raw"}
    BY <1>2 DEF Resolvable, Term
  <2>2. "raw" \in ToSet(Passthru)
    BY LoqlAssumption
  <2> QED
    BY <2>1, <2>2 DEF ScopeNames
<1> QED
  BY <1>1, <1>2

LEMMA TermIsTime ==
  ASSUME ScopeIsSound, TimesAreTyped, NEW name, LiveColumn(name) \in timeCols, NEW at
  PROVE  LiveColumn(name) # NoColumn /\ Term(name, at).type \in {"ts", "agg"}
<1>1. LiveColumn(name) # NoColumn
  BY DEF ScopeIsSound, TimesAreTyped
<1> QED
  BY <1>1 DEF TimesAreTyped, Term

LEMMA TermBinds ==
  ASSUME NEW name, NEW at
  PROVE  IsList(Term(name, at).binds)
<1>1. IsList(<<name>>)
  BY DEF IsList, ToSet
<1> QED
  BY <1>1, EmptyList DEF Term

LEMMA ExprFits ==
  ASSUME ScopeIsSound, TimesAreTyped, NEW e \in Exprs, Expr(e).ok
  PROVE  /\ Expr(e).reads \subseteq ScopeNames /\ IsList(Expr(e).binds)
         /\ IsTime(e) => Expr(e).type \in {"ts", "agg"}
<1> DEFINE atoms == [i \in DOMAIN e.atoms |-> Atom(e.atoms[i])]
           bound == [i \in DOMAIN atoms |-> atoms[i].binds]
           n == Len(e.atoms)
<1>1. /\ IsList(e.atoms) /\ \A i \in DOMAIN e.atoms : e.atoms[i][1] \in {"name", "bound", "word"}
      /\ e.plain => n = 1 /\ e.atoms[1][1] = "name"
  BY LoqlAssumption
<1>2. n \in Nat /\ DOMAIN e.atoms = 1..n
  BY <1>1, ListFacts
<1>3. /\ Expr(e).ok <=> \A i \in DOMAIN atoms : atoms[i].ok
      /\ Expr(e).reads = ReadsOf(atoms) /\ Expr(e).binds = BindsOf(atoms)
      /\ Expr(e).type = IF e.plain THEN Term(e.atoms[1][2], 0).type ELSE "other"
  BY DEF Expr
<1>4. rawAvail \in BOOLEAN
  BY DEF ScopeIsSound
<1>5. ASSUME NEW i \in DOMAIN atoms PROVE atoms[i].reads \subseteq ScopeNames /\ IsList(atoms[i].binds)
  <2> DEFINE a == e.atoms[i]
  <2>1. atoms[i] = Atom(a) /\ a[1] \in {"name", "bound", "word"}
    BY <1>1
  <2>2. Atom(a).ok
    BY <1>3, <2>1
  <2> HIDE DEF a
  <2>3. IsList(<<a[2]>>)
    BY DEF IsList, ToSet
  <2>4. CASE a[1] = "name"
    <3>1. Resolvable(a[2]) /\ Atom(a).reads = Term(a[2], 0).reads /\ Atom(a).binds = Term(a[2], 0).binds
      BY <2>2, <2>4 DEF Atom
    <3> QED
      BY <3>1, <2>1, <1>4, TermReads, TermBinds
  <2>5. CASE a[1] = "bound"
    <3>1. Atom(a).reads = {} /\ Atom(a).binds = <<a[2]>>
      BY <2>5 DEF Atom
    <3> QED
      BY <3>1, <2>1, <2>3
  <2>6. CASE a[1] = "word"
    <3>1. rawAvail /\ Atom(a).reads = {"search_tsv"} /\ Atom(a).binds = <<a[2]>>
      BY <2>2, <2>6 DEF Atom
    <3>2. "search_tsv" \in ToSet(Passthru)
      BY LoqlAssumption
    <3> QED
      BY <3>1, <3>2, <2>1, <2>3 DEF ScopeNames
  <2> QED
    BY <2>1, <2>4, <2>5, <2>6
<1>6. DOMAIN atoms = 1..n /\ DOMAIN bound = 1..n /\ bound = [i \in 1..n |-> bound[i]] /\ \A i \in 1..n : bound[i] = atoms[i].binds
  BY <1>2
<1>7. BindsOf(atoms) = FlattenSeq(bound)
  BY DEF BindsOf
<1> HIDE DEF atoms, bound
<1>8. ReadsOf(atoms) \subseteq ScopeNames
  BY <1>5 DEF ReadsOf
<1>9. IsList(BindsOf(atoms))
  <2>1. IsList(bound) /\ \A i \in DOMAIN bound : IsList(bound[i])
    BY <1>2, <1>5, <1>6, ListMade
  <2> QED
    BY <2>1, <1>7, FlattenIsList
<1>10. IsTime(e) => Expr(e).type \in {"ts", "agg"}
  BY <1>3, TermIsTime DEF IsTime
<1> QED
  BY <1>3, <1>8, <1>9, <1>10

-----------------------------------------------------------------------------
(* One more CTE, with one value to each placeholder.                       *)
LEMMA StageEmitted ==
  ASSUME LoqlInv, NEW cte, NEW bound, Emit(cte, bound, bound), cte.reads \subseteq ScopeNames
  PROVE  /\ (OneEach(below) /\ lastCte.reads \subseteq LabelsOf(below) /\ params = placeholders)'
         /\ rel' = RelationOf(cte, rel)
<1>1. below' = rel /\ lastCte' = cte /\ params' = params \o bound /\ placeholders' = placeholders \o bound
  BY DEF Emit
<1>2. OneEach(rel) /\ LabelsOf(rel) = ScopeNames /\ params = placeholders
  BY DEF LoqlInv
<1>3. rel' = RelationOf(cte, rel)
  BY DEF Emit
<1>4. OneEach(below') /\ lastCte'.reads \subseteq LabelsOf(below') /\ params' = placeholders'
  BY <1>1, <1>2
<1> QED
  BY <1>3, <1>4 DEF OneEach, LabelsOf, IsList

LEMMA PlainReads ==
  ASSUME NEW cte, NEW items, NEW reads,
         \/ cte.reads = reads \cup ReadsOf(items)
         \/ rawAvail /\ cte.reads = reads \cup ReadsOf(items) \cup ToSet(Passthru),
         reads \subseteq ScopeNames, \A i \in DOMAIN items : items[i].reads \subseteq ScopeNames
  PROVE  cte.reads \subseteq ScopeNames
<1>1. ReadsOf(items) \subseteq ScopeNames
  BY DEF ReadsOf
<1>2. rawAvail => ToSet(Passthru) \subseteq ScopeNames
  BY DEF ScopeNames
<1> QED
  BY <1>1, <1>2

(* A stage that keeps or drops whole rows.                                 *)
LEMMA RowsFiltered ==
  ASSUME LoqlInv, NEW reads, reads \subseteq ScopeNames, NEW bound, Emit(Plain(TRUE, <<>>, reads), bound, bound),
         UNCHANGED <<cols, rawAvail, timeCols>>, ToSet(order') \subseteq ToSet(cols)
  PROVE  LoqlInv'
<1> DEFINE cte == Plain(TRUE, <<>>, reads)
<1>1. ScopeIsSound /\ TimesAreTyped /\ OneEach(rel) /\ LabelsOf(rel) = ScopeNames
  BY DEF LoqlInv
<1>2. cte.star /\ cte.items = <<>> /\ ~cte.carried
  BY DEF Plain
<1>3. cte.reads \subseteq ScopeNames
  <2>1. cte.reads = reads
    BY DEF Plain, ReadsOf
  <2> QED
    BY <2>1
<1> HIDE DEF cte
<1>4. Emit(cte, bound, bound)
  BY DEF cte
<1>5. /\ (OneEach(below) /\ lastCte.reads \subseteq LabelsOf(below) /\ params = placeholders)'
      /\ rel' = RelationOf(cte, rel)
  BY <1>3, <1>4, StageEmitted
<1>6. rel' = rel
  BY <1>1, <1>2, <1>5, WholeRelation
<1>7. ScopeIsSound'
  BY <1>1 DEF ScopeIsSound, OrderReads
<1>8. TimesAreTyped'
  BY <1>1, <1>6 DEF TimesAreTyped
<1>9. (OneEach(rel) /\ LabelsOf(rel) = ScopeNames)'
  BY <1>1, <1>6 DEF ScopeNames
<1> QED
  BY <1>5, <1>7, <1>8, <1>9 DEF LoqlInv

(* A stage that lists its columns.                                         *)
LEMMA ColumnsListed ==
  ASSUME LoqlInv, NEW cte, NEW bound, Emit(cte, bound, bound), ~cte.star, cte.carried = rawAvail',
         cte.reads \subseteq ScopeNames, IsList(cte.items),
         IsList(cols'), Distinct(cols'), NoColumn \notin ToSet(cols'),
         DOMAIN cte.items = DOMAIN cols', \A i \in DOMAIN cte.items : cte.items[i].label = cols'[i],
         rawAvail' \in BOOLEAN, rawAvail' => ToSet(cols') \cap ToSet(Passthru) = {},
         ToSet(order') \subseteq ToSet(cols'), timeCols' \subseteq ToSet(cols'),
         \A i \in DOMAIN cte.items : cte.items[i].label \in timeCols' => cte.items[i].type \in {"ts", "agg"}
  PROVE  LoqlInv'
<1>1. /\ (OneEach(below) /\ lastCte.reads \subseteq LabelsOf(below) /\ params = placeholders)'
      /\ rel' = RelationOf(cte, rel)
  BY StageEmitted
<1>2. OneEach(cte.items)
  BY DEF OneEach, Distinct
<1>3. LabelsOf(cte.items) = ToSet(cols')
  BY DEF LabelsOf, ToSet
<1>4. /\ OneEach(rel') /\ LabelsOf(rel') = ToSet(cols') \cup (IF rawAvail' THEN ToSet(Passthru) ELSE {})
      /\ \A i \in DOMAIN cte.items : TypeIn(rel', cte.items[i].label) = cte.items[i].type
  BY <1>1, <1>2, <1>3, ListedRelation
<1>5. ScopeIsSound'
  BY DEF ScopeIsSound, OrderReads
<1>6. \A c \in timeCols' : TypeIn(rel', c) \in {"ts", "agg"}
  <2> SUFFICES ASSUME NEW c \in timeCols' PROVE TypeIn(rel', c) \in {"ts", "agg"}
    OBVIOUS
  <2>1. PICK i \in DOMAIN cte.items : cte.items[i].label = c
    BY <1>3 DEF LabelsOf
  <2> QED
    BY <2>1, <1>4
<1>7. TimesAreTyped'
  BY <1>6 DEF TimesAreTyped
<1>8. (LabelsOf(rel) = ScopeNames)' /\ OneEach(rel)'
  BY <1>4 DEF ScopeNames
<1> QED
  BY <1>1, <1>5, <1>7, <1>8 DEF LoqlInv

-----------------------------------------------------------------------------
(* A column that is overwritten or added; the caller says what its type is *)
(* and whether it is a time from here on.                                  *)
LEMMA ColumnAdded ==
  ASSUME LoqlInv, NEW name, NEW item, item.label = name, IsList(item.binds), item.reads \subseteq ScopeNames,
         name # NoColumn, AddColumn(name, item, item.binds), UNCHANGED <<rawAvail, order>>,
         timeCols' \subseteq timeCols \cup {name}, name \in timeCols' => item.type \in {"ts", "agg"}
  PROVE  LoqlInv'
<1>1. ScopeIsSound /\ TimesAreTyped /\ OneEach(rel) /\ LabelsOf(rel) = ScopeNames /\ RejectCarried({name})
  BY DEF LoqlInv, AddColumn
<1>2. /\ IsList(cols) /\ Distinct(cols) /\ NoColumn \notin ToSet(cols) /\ rawAvail \in BOOLEAN
      /\ rawAvail => ToSet(cols) \cap ToSet(Passthru) = {}
      /\ ToSet(order) \subseteq ToSet(cols)
  BY <1>1 DEF ScopeIsSound, OrderReads
<1>3. /\ Len(cols) \in Nat /\ DOMAIN cols = 1..Len(cols) /\ cols = [i \in 1..Len(cols) |-> cols[i]]
      /\ \A i \in DOMAIN cols : cols[i] \in ToSet(cols)
  BY <1>2, ListFacts
<1>4. timeCols \subseteq ToSet(cols) /\ \A c \in timeCols : TypeIn(rel, c) \in {"ts", "agg"}
  BY <1>1 DEF TimesAreTyped
<1>5. CASE name \in ToSet(cols)
  <2> DEFINE items == [i \in DOMAIN cols |-> IF cols[i] = name THEN item ELSE AsIs(cols[i])]
             cte == Plain(FALSE, items, {})
             bound == [i \in DOMAIN items |-> items[i].binds]
  <2>1. Emit(cte, item.binds, BindsOf(items)) /\ cols' = cols
    BY <1>5 DEF AddColumn
  <2>2. \A i \in DOMAIN cols : items[i] = IF cols[i] = name THEN item ELSE AsIs(cols[i])
    OBVIOUS
  <2>3. items = [i \in 1..Len(cols) |-> items[i]]
    BY <1>3
  <2>4. BindsOf(items) = FlattenSeq(bound)
    BY DEF BindsOf
  <2>5. DOMAIN bound = DOMAIN items /\ \A i \in DOMAIN items : bound[i] = items[i].binds
    OBVIOUS
  <2>6. bound = [i \in DOMAIN items |-> bound[i]]
    OBVIOUS
  <2>7. cte.items = items /\ ~cte.star /\ cte.carried = rawAvail
    BY <1>2 DEF Plain
  <2>8. ASSUME \A i \in DOMAIN items : items[i].reads \subseteq ScopeNames PROVE cte.reads \subseteq ScopeNames
    <3> DEFINE none == {}
    <3>1. \/ cte.reads = none \cup ReadsOf(items)
          \/ rawAvail /\ cte.reads = none \cup ReadsOf(items) \cup ToSet(Passthru)
      BY <1>2 DEF Plain
    <3>2. none \subseteq ScopeNames
      OBVIOUS
    <3> HIDE DEF items, none, cte
    <3> QED
      BY <2>8, <3>1, <3>2, PlainReads
  <2> HIDE DEF items, bound, cte
  <2>9. IsList(items) /\ DOMAIN items = 1..Len(cols)
    BY <1>3, <2>3, ListMade
  <2>10. ASSUME NEW i \in DOMAIN cols, cols[i] # name
         PROVE  items[i].label = cols[i] /\ items[i].reads = {cols[i]} /\ items[i].binds = <<>> /\ items[i].type = TypeIn(rel, cols[i])
    <3>1. cols[i] \in ToSet(cols)
      BY <1>3
    <3>2. items[i] = AsIs(cols[i])
      BY <2>2, <2>10
    <3>3. Term(cols[i], 0).reads = {cols[i]} /\ Term(cols[i], 0).binds = <<>> /\ Term(cols[i], 0).type = TypeIn(rel, cols[i])
      BY <1>1, <3>1, StandingName
    <3> QED
      BY <3>2, <3>3 DEF AsIs, As
  <2>11. \A i \in DOMAIN cols : items[i].label = cols[i] /\ items[i].reads \subseteq ScopeNames
    <3> SUFFICES ASSUME NEW i \in DOMAIN cols PROVE items[i].label = cols[i] /\ items[i].reads \subseteq ScopeNames
      OBVIOUS
    <3>1. cols[i] \in ScopeNames
      BY <1>3 DEF ScopeNames
    <3> QED
      BY <3>1, <2>2, <2>10
  <2>12. PICK k \in DOMAIN cols : cols[k] = name
    BY <1>5 DEF ToSet
  <2>13. \A i \in DOMAIN bound : bound[i] = IF i = k THEN item.binds ELSE <<>>
    <3> SUFFICES ASSUME NEW i \in DOMAIN cols PROVE items[i].binds = IF i = k THEN item.binds ELSE <<>>
      BY <1>3, <2>5, <2>9
    <3>1. cols[i] = name <=> i = k
      BY <1>2, <2>12 DEF Distinct
    <3> QED
      BY <3>1, <2>2, <2>10
  <2>14. BindsOf(items) = item.binds
    <3>1. IsList(bound) /\ k \in DOMAIN bound
      BY <1>3, <2>5, <2>6, <2>9, <2>12, ListMade
    <3> QED
      BY <3>1, <2>4, <2>13, FlattenOne
  <2>15. Emit(cte, item.binds, item.binds) /\ cte.reads \subseteq ScopeNames
    BY <1>3, <2>1, <2>8, <2>9, <2>11, <2>14
  <2>16. \A i \in DOMAIN items : items[i].label \in timeCols' => items[i].type \in {"ts", "agg"}
    <3> SUFFICES ASSUME NEW i \in DOMAIN cols, items[i].label \in timeCols' PROVE items[i].type \in {"ts", "agg"}
      BY <1>3, <2>9
    <3>1. CASE cols[i] = name
      BY <3>1, <2>2
    <3>2. CASE cols[i] # name
      BY <3>2, <2>10, <1>4
    <3> QED
      BY <3>1, <3>2
  <2>17. timeCols' \subseteq ToSet(cols)
    BY <1>4, <1>5
  <2> QED
    BY <1>2, <1>3, <2>1, <2>7, <2>9, <2>11, <2>15, <2>16, <2>17, ColumnsListed
<1>6. CASE name \notin ToSet(cols)
  <2> DEFINE cte == Plain(TRUE, <<item>>, {})
  <2>1. Emit(cte, item.binds, item.binds) /\ cols' = Append(cols, name)
    BY <1>6 DEF AddColumn
  <2>2. cte.star /\ cte.items = <<item>> /\ ~cte.carried
    BY DEF Plain
  <2>3. cte.reads \subseteq ScopeNames
    <3>1. cte.reads = item.reads
      BY DEF Plain, ReadsOf
    <3> QED
      BY <3>1
  <2> HIDE DEF cte
  <2>4. /\ (OneEach(below) /\ lastCte.reads \subseteq LabelsOf(below) /\ params = placeholders)'
        /\ rel' = RelationOf(cte, rel)
    BY <2>1, <2>3, StageEmitted
  <2>5. name \notin ScopeNames
    BY <1>1, <1>6 DEF RejectCarried, ScopeNames
  <2>6. /\ OneEach(rel') /\ LabelsOf(rel') = LabelsOf(rel) \cup {name}
        /\ \A c \in LabelsOf(rel) : TypeIn(rel', c) = TypeIn(rel, c)
        /\ TypeIn(rel', name) = item.type
    BY <1>1, <2>2, <2>4, <2>5, WidenedRelation
  <2>7. IsList(<<name>>) /\ Len(<<name>>) = 1 /\ DOMAIN <<name>> = 1..1 /\ ToSet(<<name>>) = {name}
    BY DEF IsList, ToSet
  <2>8. Append(cols, name) = cols \o <<name>>
    <3>1. cols \in Seq(ToSet(cols) \cup {name})
      <4>1. cols \in Seq(ToSet(cols))
        BY <1>2 DEF IsList
      <4> QED
        BY <4>1, SeqMonotonic
    <3> QED
      BY <3>1, AppendIsConcat
  <2>9. /\ IsList(cols') /\ ToSet(cols') = ToSet(cols) \cup {name} /\ DOMAIN cols' = 1..(Len(cols) + 1)
        /\ \A i \in DOMAIN cols : cols'[i] = cols[i]
        /\ cols'[Len(cols) + 1] = name
    BY <1>2, <1>3, <2>1, <2>7, <2>8, Concatenated
  <2>10. Distinct(cols')
    <3> SUFFICES ASSUME NEW i \in 1..(Len(cols) + 1), NEW j \in 1..(Len(cols) + 1), cols'[i] = cols'[j] PROVE i = j
      BY <2>9 DEF Distinct
    <3>1. \A k \in 1..(Len(cols) + 1) : k \in DOMAIN cols \/ k = Len(cols) + 1
      BY <1>3
    <3>2. \A k \in DOMAIN cols : cols'[k] # name
      BY <1>3, <1>6, <2>9
    <3> QED
      BY <3>1, <3>2, <2>9, <1>2 DEF Distinct
  <2>11. ScopeIsSound'
    BY <1>1, <1>2, <2>9, <2>10 DEF ScopeIsSound, OrderReads, RejectCarried
  <2>12. TimesAreTyped'
    <3>1. timeCols \subseteq LabelsOf(rel)
      BY <1>1, <1>4 DEF ScopeNames
    <3>2. \A c \in timeCols' : TypeIn(rel', c) \in {"ts", "agg"}
      BY <3>1, <1>4, <2>6
    <3> QED
      BY <3>2, <1>4, <2>9 DEF TimesAreTyped
  <2>13. (OneEach(rel) /\ LabelsOf(rel) = ScopeNames)'
    BY <1>1, <2>6, <2>9 DEF ScopeNames
  <2> QED
    BY <2>4, <2>11, <2>12, <2>13 DEF LoqlInv
<1> QED
  BY <1>5, <1>6

-----------------------------------------------------------------------------
(* What a stage selects, and under which names; T are the columns that are *)
(* times from here on.                                                     *)
Fits(items, names, T) ==
    /\ IsList(items) /\ IsList(names) /\ DOMAIN items = DOMAIN names
    /\ \A i \in DOMAIN items :
          /\ items[i].label = names[i] /\ items[i].reads \subseteq ScopeNames
          /\ items[i].label \in T => items[i].type \in {"ts", "agg"}

LEMMA SameLength ==
  ASSUME NEW m \in Nat, NEW n \in Nat, 1..m = 1..n
  PROVE  m = n
<1>1. m \in 1..m \/ m = 0
  OBVIOUS
<1>2. n \in 1..n \/ n = 0
  OBVIOUS
<1>3. \A x : x \in 1..m <=> x \in 1..n
  OBVIOUS
<1>4. m <= n
  BY <1>1, <1>3
<1>5. n <= m
  BY <1>2, <1>3
<1> QED
  BY <1>4, <1>5

LEMMA FitsJoin ==
  ASSUME NEW xs, NEW ns, NEW ys, NEW ms, NEW T, Fits(xs, ns, T), Fits(ys, ms, T)
  PROVE  Fits(xs \o ys, ns \o ms, T)
<1> DEFINE items == xs \o ys
           names == ns \o ms
<1>1. DOMAIN xs = DOMAIN ns /\ DOMAIN ys = DOMAIN ms
  BY DEF Fits
<1>2. IsList(xs) /\ IsList(ys)
  BY DEF Fits
<1>3. IsList(ns) /\ IsList(ms)
  BY DEF Fits
<1>4. /\ Len(xs) \in Nat /\ DOMAIN xs = 1..Len(xs) /\ Len(ns) \in Nat /\ DOMAIN ns = 1..Len(ns)
      /\ Len(ys) \in Nat /\ DOMAIN ys = 1..Len(ys) /\ Len(ms) \in Nat /\ DOMAIN ms = 1..Len(ms)
  BY <1>2, <1>3, ListFacts
<1>5. Len(xs) = Len(ns) /\ Len(ys) = Len(ms)
  <2>1. 1..Len(xs) = 1..Len(ns) /\ 1..Len(ys) = 1..Len(ms)
    BY <1>1, <1>4
  <2> QED
    BY <1>4, <2>1, SameLength
<1>6. /\ IsList(items) /\ DOMAIN items = 1..(Len(xs) + Len(ys))
      /\ \A i \in DOMAIN xs : i \in DOMAIN items /\ items[i] = xs[i]
      /\ \A i \in DOMAIN items : i \in DOMAIN xs \/ (i - Len(xs) \in DOMAIN ys /\ items[i] = ys[i - Len(xs)])
  BY <1>2, Concatenated
<1>7. /\ IsList(names) /\ DOMAIN names = 1..(Len(ns) + Len(ms))
      /\ \A i \in DOMAIN ns : i \in DOMAIN names /\ names[i] = ns[i]
      /\ \A i \in DOMAIN ms : i + Len(ns) \in DOMAIN names /\ names[i + Len(ns)] = ms[i]
  BY <1>3, Concatenated
<1> HIDE DEF items, names
<1>8. ASSUME NEW i \in DOMAIN items
      PROVE  /\ items[i].label = names[i] /\ items[i].reads \subseteq ScopeNames
             /\ items[i].label \in T => items[i].type \in {"ts", "agg"}
  <2>1. CASE i \in DOMAIN xs
    <3>1. items[i] = xs[i] /\ names[i] = ns[i]
      BY <2>1, <1>1, <1>6, <1>7
    <3> QED
      BY <2>1, <3>1 DEF Fits
  <2>2. CASE i \notin DOMAIN xs
    <3>1. i - Len(xs) \in DOMAIN ys /\ items[i] = ys[i - Len(xs)]
      BY <2>2, <1>6
    <3>2. (i - Len(xs)) + Len(ns) = i
      BY <1>4, <1>5, <1>6
    <3>3. names[i] = ms[i - Len(xs)]
      BY <3>1, <3>2, <1>1, <1>7
    <3> QED
      BY <3>1, <3>3 DEF Fits
  <2> QED
    BY <2>1, <2>2
<1>9. DOMAIN items = DOMAIN names
  BY <1>5, <1>6, <1>7
<1> QED
  BY <1>6, <1>7, <1>8, <1>9 DEF Fits, items, names

LEMMA KeysFit ==
  ASSUME ScopeIsSound, TimesAreTyped, NEW by, IsList(by), AllResolvable(by), NEW at, NEW T,
         \A n \in ToSet(by) : n \in T => LiveColumn(n) \in timeCols
  PROVE  Fits(KeyItems(by, at), by, T) /\ ReadsOf(Terms(by, at)) \subseteq ScopeNames
<1> DEFINE items == KeyItems(by, at)
           terms == Terms(by, at)
<1>1. Len(by) \in Nat /\ DOMAIN by = 1..Len(by) /\ \A i \in DOMAIN by : by[i] \in ToSet(by)
  BY ListFacts
<1>2. DOMAIN terms = DOMAIN by /\ \A i \in DOMAIN by : \E k : terms[i] = Term(by[i], k)
  BY DEF Terms
<1>3. items = [i \in DOMAIN by |-> As(terms[i], by[i])]
  BY DEF KeyItems
<1> HIDE DEF items, terms
<1>4. IsList(items) /\ DOMAIN items = DOMAIN by
  <2>1. items = [i \in 1..Len(by) |-> items[i]]
    BY <1>1, <1>3
  <2> QED
    BY <1>1, <2>1, ListMade
<1>5. ASSUME NEW i \in DOMAIN by
      PROVE  /\ items[i].label = by[i] /\ items[i].reads \subseteq ScopeNames /\ terms[i].reads \subseteq ScopeNames
             /\ items[i].label \in T => items[i].type \in {"ts", "agg"}
  <2>1. PICK k : terms[i] = Term(by[i], k)
    BY <1>2
  <2>2. items[i].label = by[i] /\ items[i].reads = Term(by[i], k).reads /\ items[i].type = Term(by[i], k).type
    BY <1>3, <2>1 DEF As
  <2>3. Term(by[i], k).reads \subseteq ScopeNames
    <3>1. Resolvable(by[i]) /\ rawAvail \in BOOLEAN
      BY DEF AllResolvable, ScopeIsSound
    <3> QED
      BY <3>1, TermReads
  <2>4. by[i] \in T => Term(by[i], k).type \in {"ts", "agg"}
    BY <1>1, TermIsTime
  <2> QED
    BY <2>1, <2>2, <2>3, <2>4
<1>6. ReadsOf(terms) \subseteq ScopeNames
  BY <1>2, <1>5 DEF ReadsOf
<1> QED
  BY <1>4, <1>5, <1>6 DEF Fits, items, terms

LEMMA AggregateIs ==
  ASSUME NEW arg, NEW label
  PROVE  /\ AggItem(arg, label).label = label /\ AggItem(arg, label).type = "agg"
         /\ AggItem(arg, label).reads = IF arg = NoColumn THEN {} ELSE Term(arg, 0).reads
BY DEF AggItem

LEMMA AggregatesFit ==
  ASSUME ScopeIsSound, NEW aggs, IsList(aggs), AggsResolvable(aggs), NEW T
  PROVE  Fits(AggItems(aggs), AggLabels(aggs), T)
<1> DEFINE items == AggItems(aggs)
           labels == AggLabels(aggs)
<1>1. Len(aggs) \in Nat /\ DOMAIN aggs = 1..Len(aggs)
  BY ListFacts
<1>2. items = [i \in 1..Len(aggs) |-> items[i]] /\ \A i \in 1..Len(aggs) : items[i] = AggItem(aggs[i].arg, aggs[i].label)
  BY <1>1 DEF AggItems
<1>3. labels = [i \in 1..Len(aggs) |-> labels[i]] /\ \A i \in 1..Len(aggs) : labels[i] = aggs[i].label
  BY <1>1 DEF AggLabels
<1> HIDE DEF items, labels
<1>4. IsList(items) /\ DOMAIN items = 1..Len(aggs) /\ IsList(labels) /\ DOMAIN labels = 1..Len(aggs)
  BY <1>1, <1>2, <1>3, ListMade
<1>5. ASSUME NEW i \in DOMAIN aggs
      PROVE  items[i].label = labels[i] /\ items[i].reads \subseteq ScopeNames /\ items[i].type = "agg"
  <2>1. /\ items[i].label = labels[i] /\ items[i].type = "agg"
        /\ items[i].reads = IF aggs[i].arg = NoColumn THEN {} ELSE Term(aggs[i].arg, 0).reads
    BY <1>1, <1>2, <1>3, AggregateIs
  <2>2. aggs[i].arg # NoColumn => Term(aggs[i].arg, 0).reads \subseteq ScopeNames
    <3>1. aggs[i].arg # NoColumn => Resolvable(aggs[i].arg)
      BY DEF AggsResolvable
    <3>2. rawAvail \in BOOLEAN
      BY DEF ScopeIsSound
    <3> QED
      BY <3>1, <3>2, TermReads
  <2> QED
    BY <2>1, <2>2
<1> QED
  BY <1>1, <1>4, <1>5 DEF Fits, items, labels

(* A stage after which the rows are gone.                                  *)
LEMMA RowsGrouped ==
  ASSUME LoqlInv, NEW items, NEW names, NEW reads, NEW keys, NEW bound, Emit(Grouping(items, reads, keys), bound, bound),
         Fits(items, names, timeCols'), reads \subseteq ScopeNames, SetCols(names), NoColumn \notin ToSet(names),
         rawAvail' = FALSE, ToSet(order') \subseteq ToSet(names), timeCols' \subseteq ToSet(names)
  PROVE  LoqlInv'
<1> DEFINE cte == Grouping(items, reads, keys)
<1>1. ~cte.star /\ cte.items = items /\ cte.carried = FALSE /\ cte.reads = reads \cup ReadsOf(items)
  BY DEF Grouping
<1>2. Emit(cte, bound, bound)
  OBVIOUS
<1> HIDE DEF cte
<1>3. /\ IsList(items) /\ IsList(names) /\ DOMAIN items = DOMAIN names
      /\ \A i \in DOMAIN items :
            /\ items[i].label = names[i] /\ items[i].reads \subseteq ScopeNames
            /\ items[i].label \in timeCols' => items[i].type \in {"ts", "agg"}
  BY DEF Fits
<1>4. cte.reads \subseteq ScopeNames
  BY <1>1, <1>3 DEF ReadsOf
<1>5. cols' = names /\ Distinct(names)
  BY DEF SetCols
<1> QED
  BY <1>1, <1>2, <1>3, <1>4, <1>5, ColumnsListed

(* The columns that stand, under the labels that pairs gives them.         *)
LEMMA RelabelIs ==
  ASSUME NEW pairs \in Renamings, NEW c
  PROVE  \/ Relabel(pairs, c) = c /\ c \notin {LiveColumn(pairs[i][1]) : i \in DOMAIN pairs}
         \/ /\ c \in {LiveColumn(pairs[i][1]) : i \in DOMAIN pairs}
            /\ \E i \in DOMAIN pairs : Relabel(pairs, c) = pairs[i][2]
<1> DEFINE mine == {i \in DOMAIN pairs : LiveColumn(pairs[i][1]) = c}
<1>1. Relabel(pairs, c) = IF mine = {} THEN c ELSE pairs[Max(mine)][2]
  BY DEF Relabel
<1>2. CASE mine = {}
  BY <1>1, <1>2
<1>3. CASE mine # {}
  <2> DEFINE n == Len(pairs)
             T == {n - i : i \in mine}
  <2>1. n \in Nat /\ DOMAIN pairs = 1..n
    BY LoqlAssumption, ListFacts
  <2>2. mine \subseteq 1..n
    BY <2>1
  <2> HIDE DEF mine, n
  <2>3. T \in SUBSET Nat /\ T # {}
    BY <2>1, <2>2, <1>3
  <2>4. PICK x \in T : \A y \in T : x <= y
    <3> HIDE DEF T
    <3> QED
      BY <2>3, LeastRow
  <2>5. PICK k \in mine : x = n - k
    OBVIOUS
  <2>6. \A i \in mine : k >= i
    <3> SUFFICES ASSUME NEW i \in mine PROVE k >= i
      OBVIOUS
    <3>1. n - i \in T
      OBVIOUS
    <3>2. n - k <= n - i
      BY <3>1, <2>4, <2>5
    <3> QED
      BY <3>2, <2>1, <2>2
  <2>7. Max(mine) \in mine
    BY <2>6 DEF Max
  <2>8. Max(mine) \in DOMAIN pairs /\ LiveColumn(pairs[Max(mine)][1]) = c
    BY <2>7 DEF mine
  <2> QED
    BY <1>1, <1>3, <2>8
<1> QED
  BY <1>2, <1>3

-----------------------------------------------------------------------------
(* Each stage in turn.                                                     *)
LEMMA WhereKeeps ==
  ASSUME LoqlInv, Where
  PROVE  LoqlInv'
<1>1. PICK e \in Exprs : Filter(e)
  BY DEF Where
<1>2. /\ Expr(e).ok /\ Emit(Plain(TRUE, <<>>, Expr(e).reads), Expr(e).binds, Expr(e).binds)
      /\ UNCHANGED <<cols, rawAvail, timeCols>> /\ order' = order
  BY <1>1 DEF Filter, scope
<1>3. ScopeIsSound /\ TimesAreTyped
  BY DEF LoqlInv
<1>4. Expr(e).reads \subseteq ScopeNames
  BY <1>2, <1>3, ExprFits
<1>5. ToSet(order') \subseteq ToSet(cols)
  BY <1>2, <1>3 DEF ScopeIsSound, OrderReads
<1> QED
  BY <1>2, <1>4, <1>5, RowsFiltered

LEMMA EvalKeeps ==
  ASSUME LoqlInv, Eval
  PROVE  LoqlInv'
<1>1. PICK name \in Labels, e \in Exprs :
        /\ Expr(e).ok
        /\ AddColumn(name, [label |-> name, type |-> Expr(e).type, reads |-> Expr(e).reads, binds |-> Expr(e).binds, id |-> NoColumn],
                     Expr(e).binds)
        /\ timeCols' = EvalTimes(name, e)
        /\ UNCHANGED <<rawAvail, order, orderNamed, model>>
  BY DEF Eval
<1> DEFINE item == [label |-> name, type |-> Expr(e).type, reads |-> Expr(e).reads, binds |-> Expr(e).binds, id |-> NoColumn]
<1>2. /\ item.label = name /\ item.type = Expr(e).type /\ item.reads = Expr(e).reads /\ item.binds = Expr(e).binds
      /\ AddColumn(name, item, Expr(e).binds)
  BY <1>1
<1> HIDE DEF item
<1>3. ScopeIsSound /\ TimesAreTyped
  BY DEF LoqlInv
<1>4. Expr(e).reads \subseteq ScopeNames /\ IsList(Expr(e).binds) /\ (IsTime(e) => Expr(e).type \in {"ts", "agg"})
  BY <1>1, <1>3, ExprFits
<1>5. timeCols' \subseteq timeCols \cup {name} /\ (name \in timeCols' => IsTime(e))
  BY <1>1 DEF EvalTimes
<1>6. name # NoColumn
  BY LoqlAssumption
<1>7. AddColumn(name, item, item.binds) /\ UNCHANGED <<rawAvail, order>>
  BY <1>1, <1>2
<1> QED
  BY <1>2, <1>4, <1>5, <1>6, <1>7, ColumnAdded

LEMMA TimeColStands ==
  ASSUME TimesAreTyped, TimeCol # NoColumn
  PROVE  TimeCol \in ToSet(cols) /\ TimeCol \in ScopeNames /\ LiveColumn("_time") \in timeCols
BY DEF TimesAreTyped, TimeCol, ScopeNames

LEMMA BucketIs ==
  ASSUME NEW c, NEW label
  PROVE  /\ Bucket(c, label).label = label /\ Bucket(c, label).type = "ts"
         /\ Bucket(c, label).reads = {c} /\ Bucket(c, label).binds = <<"span">>
BY DEF Bucket

LEMMA BinKeeps ==
  ASSUME LoqlInv, Bin
  PROVE  LoqlInv'
<1>1. PICK label \in Labels \cup {"_time", "event_time"} :
        /\ TimeCol # NoColumn
        /\ AddColumn(label, Bucket(TimeCol, label), <<"span">>)
        /\ timeCols' = timeCols \cup {label}
        /\ UNCHANGED <<rawAvail, order, orderNamed, model>>
  BY DEF Bin
<1> DEFINE item == Bucket(TimeCol, label)
           span == <<"span">>
<1>2. IsList(span)
  BY DEF IsList, ToSet
<1>3. AddColumn(label, item, span)
  BY <1>1
<1>4. TimeCol \in ScopeNames
  BY <1>1, TimeColStands DEF LoqlInv
<1>5. item.label = label /\ item.type = "ts" /\ item.reads = {TimeCol} /\ item.binds = span
  BY BucketIs
<1> HIDE DEF item, span
<1>6. label # NoColumn
  BY LoqlAssumption DEF NoColumn
<1>7. timeCols' \subseteq timeCols \cup {label} /\ UNCHANGED <<rawAvail, order>>
  BY <1>1
<1>8. IsList(item.binds) /\ item.reads \subseteq ScopeNames /\ AddColumn(label, item, item.binds) /\ item.type \in {"ts", "agg"}
  BY <1>2, <1>3, <1>4, <1>5
<1> QED
  BY <1>5, <1>6, <1>7, <1>8, ColumnAdded

LEMMA LiveOfStands ==
  ASSUME NEW names, AllLive(names)
  PROVE  ToSet(LiveOf(names)) \subseteq ToSet(cols)
<1> SUFFICES ASSUME NEW c \in ToSet(LiveOf(names)) PROVE c \in ToSet(cols)
  OBVIOUS
<1>1. PICK i \in DOMAIN names : c = LiveColumn(names[i])
  BY DEF LiveOf, ToSet
<1> QED
  BY <1>1, LiveStands DEF AllLive

LEMMA ReordersKeep ==
  ASSUME LoqlInv, Sort \/ Head1 \/ Dedup
  PROVE  LoqlInv'
<1> DEFINE none == <<>>
<1>1. OrderReads \subseteq ToSet(cols) /\ ToSet(order) \subseteq ToSet(cols) /\ ToSet(cols) \subseteq ScopeNames
  BY DEF LoqlInv, ScopeIsSound, OrderReads, ScopeNames
<1>2. CASE Sort
  <2>1. PICK names \in Lists \ {<<>>} :
          /\ AllLive(names)
          /\ order' = LiveOf(names)
          /\ Emit(Plain(TRUE, <<>>, ToSet(LiveOf(names))), none, none)
          /\ UNCHANGED <<cols, rawAvail, timeCols>>
    BY <1>2 DEF Sort
  <2>2. ToSet(LiveOf(names)) \subseteq ToSet(cols)
    BY <2>1, LiveOfStands
  <2> HIDE DEF none
  <2>3. ToSet(LiveOf(names)) \subseteq ScopeNames /\ ToSet(order') \subseteq ToSet(cols)
    BY <1>1, <2>1, <2>2
  <2> QED
    BY <2>1, <2>3, RowsFiltered
<1>3. CASE Head1
  <2>1. Emit(Plain(TRUE, <<>>, OrderReads), none, none) /\ UNCHANGED <<cols, rawAvail, timeCols>> /\ order' = order
    BY <1>3 DEF Head1, scope
  <2> HIDE DEF none
  <2>2. OrderReads \subseteq ScopeNames /\ ToSet(order') \subseteq ToSet(cols)
    BY <1>1, <2>1
  <2> QED
    BY <2>1, <2>2, RowsFiltered
<1>4. CASE Dedup
  <2>1. PICK names \in Lists \ {<<>>} :
          /\ AllLive(names)
          /\ Emit(Plain(TRUE, <<>>, OrderReads \cup ToSet(LiveOf(names))), none, none)
          /\ UNCHANGED <<cols, rawAvail, timeCols>> /\ order' = order
    BY <1>4 DEF Dedup, scope
  <2>2. ToSet(LiveOf(names)) \subseteq ToSet(cols)
    BY <2>1, LiveOfStands
  <2> DEFINE reads == OrderReads \cup ToSet(LiveOf(names))
  <2>3. reads \subseteq ScopeNames /\ ToSet(order') \subseteq ToSet(cols) /\ Emit(Plain(TRUE, <<>>, reads), none, none)
    BY <1>1, <2>1, <2>2
  <2> HIDE DEF none, reads
  <2> QED
    BY <2>1, <2>3, RowsFiltered
<1> QED
  BY <1>2, <1>3, <1>4

LEMMA LabelledTerm ==
  ASSUME NEW term, NEW label
  PROVE  /\ As(term, label).label = label /\ As(term, label).reads = term.reads
         /\ As(term, label).binds = term.binds /\ As(term, label).type = term.type
BY DEF As

LEMMA FieldsKeeps ==
  ASSUME LoqlInv, Fields
  PROVE  LoqlInv'
<1>1. PICK names \in Lists \ {<<>>}, remove \in BOOLEAN :
        LET drop == {IF LiveColumn(n) = NoColumn THEN n ELSE LiveColumn(n) : n \in ToSet(names)}
            keep == IF remove THEN Dropping(cols, drop)
                    ELSE [i \in DOMAIN names |-> IF LiveColumn(names[i]) = NoColumn THEN names[i] ELSE LiveColumn(names[i])]
            items == [i \in DOMAIN keep |-> As(Term(keep[i], 0), keep[i])]
        IN  /\ keep # <<>> /\ \A i \in DOMAIN keep : Resolvable(keep[i])
            /\ RejectCarried(ToSet(keep)) /\ KeepsOrder(keep)
            /\ order' = OrderAfter(keep)
            /\ Emit(Plain(FALSE, items, {}), BindsOf(items), BindsOf(items))
            /\ SetCols(keep) /\ timeCols' = timeCols \cap ToSet(keep)
            /\ UNCHANGED <<rawAvail, orderNamed, model>>
  BY DEF Fields
<1> DEFINE drop == {IF LiveColumn(n) = NoColumn THEN n ELSE LiveColumn(n) : n \in ToSet(names)}
           kept == [i \in DOMAIN names |-> IF LiveColumn(names[i]) = NoColumn THEN names[i] ELSE LiveColumn(names[i])]
           keep == IF remove THEN Dropping(cols, drop) ELSE kept
           items == [i \in DOMAIN keep |-> As(Term(keep[i], 0), keep[i])]
           cte == Plain(FALSE, items, {})
           bound == BindsOf(items)
<1>2. /\ \A i \in DOMAIN keep : Resolvable(keep[i])
      /\ RejectCarried(ToSet(keep)) /\ order' = OrderAfter(keep)
      /\ Emit(cte, bound, bound)
      /\ SetCols(keep) /\ timeCols' = timeCols \cap ToSet(keep) /\ rawAvail' = rawAvail
  BY <1>1
<1>3. keep = Dropping(cols, drop) \/ keep = kept
  OBVIOUS
<1>4. /\ IsList(cols) /\ NoColumn \notin ToSet(cols) /\ rawAvail \in BOOLEAN /\ ScopeIsSound
      /\ timeCols \subseteq ToSet(cols) /\ \A c \in timeCols : TypeIn(rel, c) \in {"ts", "agg"}
  BY DEF LoqlInv, ScopeIsSound, TimesAreTyped
<1>5. Len(names) \in Nat /\ DOMAIN names = 1..Len(names) /\ \A i \in DOMAIN names : names[i] # NoColumn
  <2>1. IsList(names) /\ NoColumn \notin ToSet(names)
    BY LoqlAssumption
  <2> QED
    BY <2>1, ListFacts
<1>6. kept = [i \in 1..Len(names) |-> kept[i]] /\ \A i \in 1..Len(names) : kept[i] # NoColumn
  BY <1>5
<1>7. cte.items = items /\ ~cte.star /\ cte.carried = rawAvail
  BY <1>4 DEF Plain
<1>8. ASSUME \A i \in DOMAIN items : items[i].reads \subseteq ScopeNames PROVE cte.reads \subseteq ScopeNames
  <2> DEFINE none == {}
  <2>1. \/ cte.reads = none \cup ReadsOf(items)
        \/ rawAvail /\ cte.reads = none \cup ReadsOf(items) \cup ToSet(Passthru)
    BY <1>4 DEF Plain
  <2>2. none \subseteq ScopeNames
    OBVIOUS
  <2> HIDE DEF items, none, cte
  <2> QED
    BY <1>8, <2>1, <2>2, PlainReads
<1> HIDE DEF kept, drop, keep
<1>9. IsList(keep) /\ NoColumn \notin ToSet(keep)
  <2>1. CASE keep = Dropping(cols, drop)
    BY <2>1, <1>4, DroppingKeeps
  <2>2. CASE keep = kept
    <3>1. IsList(kept) /\ DOMAIN kept = 1..Len(names)
      BY <1>5, <1>6, ListMade
    <3> QED
      BY <2>2, <3>1, <1>6 DEF ToSet
  <2> QED
    BY <1>3, <2>1, <2>2
<1>10. Len(keep) \in Nat /\ DOMAIN keep = 1..Len(keep) /\ \A i \in DOMAIN keep : keep[i] \in ToSet(keep)
  BY <1>9, ListFacts
<1>11. DOMAIN items = DOMAIN keep /\ items = [i \in 1..Len(keep) |-> items[i]] /\ \A i \in DOMAIN keep : items[i] = As(Term(keep[i], 0), keep[i])
  BY <1>10
<1> HIDE DEF items, cte, bound
<1>12. IsList(items)
  BY <1>10, <1>11, ListMade
<1>13. ASSUME NEW i \in DOMAIN keep
       PROVE  /\ items[i].label = keep[i] /\ items[i].reads \subseteq ScopeNames
              /\ items[i].label \in timeCols' => items[i].type \in {"ts", "agg"}
  <2>1. items[i].label = keep[i] /\ items[i].reads = Term(keep[i], 0).reads /\ items[i].type = Term(keep[i], 0).type
    BY <1>11, LabelledTerm
  <2>2. Term(keep[i], 0).reads \subseteq ScopeNames
    BY <1>2, <1>4, TermReads
  <2>3. keep[i] \in timeCols => Term(keep[i], 0).type \in {"ts", "agg"}
    BY <1>4, StandingName
  <2> QED
    BY <2>1, <2>2, <2>3, <1>2
<1>14. cte.reads \subseteq ScopeNames
  BY <1>8, <1>11, <1>13
<1>15. ToSet(order') \subseteq ToSet(keep)
  BY <1>2, EmptyList DEF OrderAfter, OrderReads, Unsorted
<1>16. cols' = keep /\ Distinct(keep) /\ (rawAvail' => ToSet(keep) \cap ToSet(Passthru) = {}) /\ timeCols' \subseteq ToSet(keep)
  BY <1>2 DEF SetCols, RejectCarried
<1> QED
  BY <1>2, <1>4, <1>7, <1>9, <1>11, <1>12, <1>13, <1>14, <1>15, <1>16, ColumnsListed

LEMMA RenameKeeps ==
  ASSUME LoqlInv, Rename
  PROVE  LoqlInv'
<1>1. PICK pairs \in Renamings :
        LET renamed == [i \in DOMAIN cols |-> Relabel(pairs, cols[i])]
            items == [i \in DOMAIN cols |-> As(Term(cols[i], 0), renamed[i])]
            sources == {LiveColumn(pairs[i][1]) : i \in DOMAIN pairs}
        IN  /\ NoColumn \notin sources /\ RejectCarried({Relabel(pairs, c) : c \in sources})
            /\ Emit(Plain(FALSE, items, {}), <<>>, BindsOf(items))
            /\ SetCols(renamed) /\ timeCols' = {Relabel(pairs, c) : c \in timeCols}
            /\ order' = Reorder(pairs)
            /\ UNCHANGED <<rawAvail, orderNamed, model>>
  BY DEF Rename
<1> DEFINE renamed == [i \in DOMAIN cols |-> Relabel(pairs, cols[i])]
           items == [i \in DOMAIN cols |-> As(Term(cols[i], 0), renamed[i])]
           sources == {LiveColumn(pairs[i][1]) : i \in DOMAIN pairs}
           cte == Plain(FALSE, items, {})
           none == <<>>
           binds == [i \in DOMAIN items |-> items[i].binds]
<1>2. /\ RejectCarried({Relabel(pairs, c) : c \in sources})
      /\ Emit(cte, none, BindsOf(items))
      /\ SetCols(renamed) /\ timeCols' = {Relabel(pairs, c) : c \in timeCols}
      /\ order' = Reorder(pairs) /\ rawAvail' = rawAvail
  BY <1>1
<1>3. /\ IsList(cols) /\ NoColumn \notin ToSet(cols) /\ rawAvail \in BOOLEAN /\ ScopeIsSound
      /\ (rawAvail => ToSet(cols) \cap ToSet(Passthru) = {}) /\ ToSet(order) \subseteq ToSet(cols)
      /\ timeCols \subseteq ToSet(cols) /\ \A c \in timeCols : TypeIn(rel, c) \in {"ts", "agg"}
  BY DEF LoqlInv, ScopeIsSound, TimesAreTyped, OrderReads
<1>4. Len(cols) \in Nat /\ DOMAIN cols = 1..Len(cols) /\ \A i \in DOMAIN cols : cols[i] \in ToSet(cols)
  BY <1>3, ListFacts
<1>5. cte.items = items /\ ~cte.star /\ cte.carried = rawAvail
  BY <1>3 DEF Plain
<1>6. ASSUME \A i \in DOMAIN items : items[i].reads \subseteq ScopeNames PROVE cte.reads \subseteq ScopeNames
  <2> DEFINE empty == {}
  <2>1. \/ cte.reads = empty \cup ReadsOf(items)
        \/ rawAvail /\ cte.reads = empty \cup ReadsOf(items) \cup ToSet(Passthru)
    BY <1>3 DEF Plain
  <2>2. empty \subseteq ScopeNames
    OBVIOUS
  <2> HIDE DEF items, empty, cte
  <2> QED
    BY <1>6, <2>1, <2>2, PlainReads
<1>7. /\ renamed = [i \in 1..Len(cols) |-> renamed[i]] /\ items = [i \in 1..Len(cols) |-> items[i]]
      /\ \A i \in DOMAIN cols : renamed[i] = Relabel(pairs, cols[i])
      /\ \A i \in DOMAIN cols : items[i] = As(Term(cols[i], 0), renamed[i])
  BY <1>4
<1>8. binds = [i \in DOMAIN items |-> binds[i]] /\ \A i \in DOMAIN items : binds[i] = items[i].binds
  OBVIOUS
<1>9. BindsOf(items) = FlattenSeq(binds)
  BY DEF BindsOf
<1> HIDE DEF renamed, items, cte, none, binds
<1>10. IsList(renamed) /\ DOMAIN renamed = 1..Len(cols) /\ IsList(items) /\ DOMAIN items = 1..Len(cols)
  BY <1>4, <1>7, ListMade
<1>11. ASSUME NEW i \in DOMAIN cols
       PROVE  /\ items[i].label = renamed[i] /\ items[i].reads = {cols[i]} /\ items[i].binds = none
              /\ items[i].type = TypeIn(rel, cols[i])
  <2>1. /\ items[i].label = renamed[i] /\ items[i].reads = Term(cols[i], 0).reads
        /\ items[i].binds = Term(cols[i], 0).binds /\ items[i].type = Term(cols[i], 0).type
    <3>1. items[i] = As(Term(cols[i], 0), renamed[i])
      BY <1>7
    <3> QED
      BY <3>1, LabelledTerm
  <2>2. cols[i] \in ToSet(cols)
    BY <1>4
  <2> QED
    BY <2>1, <2>2, <1>3, StandingName DEF none
<1>12. BindsOf(items) = none
  <2>1. IsList(binds) /\ IsList(none)
    BY <1>4, <1>8, <1>10, ListMade, EmptyList DEF none
  <2>2. \A i \in DOMAIN binds : binds[i] = IF i = 0 THEN none ELSE <<>>
    BY <1>4, <1>8, <1>10, <1>11 DEF none
  <2>3. FlattenSeq(binds) = IF 0 \in DOMAIN binds THEN none ELSE <<>>
    BY <2>1, <2>2, FlattenOne
  <2> QED
    BY <2>3, <1>9 DEF none
<1>13. cols' = renamed /\ Distinct(renamed)
  BY <1>2 DEF SetCols
<1>14. ASSUME NEW i \in DOMAIN cols
       PROVE  renamed[i] # NoColumn /\ (rawAvail => renamed[i] \notin ToSet(Passthru))
  <2>1. renamed[i] = Relabel(pairs, cols[i]) /\ cols[i] \in ToSet(cols)
    BY <1>4, <1>7
  <2>2. CASE Relabel(pairs, cols[i]) = cols[i] /\ cols[i] \notin sources
    BY <2>1, <2>2, <1>3
  <2>3. CASE cols[i] \in sources /\ \E k \in DOMAIN pairs : Relabel(pairs, cols[i]) = pairs[k][2]
    <3>1. Relabel(pairs, cols[i]) # NoColumn
      BY <2>3, LoqlAssumption
    <3>2. rawAvail => Relabel(pairs, cols[i]) \notin ToSet(Passthru)
      <4>1. Relabel(pairs, cols[i]) \in {Relabel(pairs, c) : c \in sources}
        BY <2>3
      <4> QED
        BY <4>1, <1>2 DEF RejectCarried
    <3> QED
      BY <2>1, <3>1, <3>2
  <2> QED
    BY <2>2, <2>3, RelabelIs
<1>15. NoColumn \notin ToSet(renamed) /\ (rawAvail' => ToSet(renamed) \cap ToSet(Passthru) = {})
  BY <1>2, <1>4, <1>10, <1>14 DEF ToSet
<1>16. \A c \in ToSet(cols) : \E i \in DOMAIN cols : cols[i] = c /\ renamed[i] = Relabel(pairs, c) /\ Relabel(pairs, c) \in ToSet(renamed)
  <2> SUFFICES ASSUME NEW c \in ToSet(cols)
               PROVE  \E i \in DOMAIN cols : cols[i] = c /\ renamed[i] = Relabel(pairs, c) /\ Relabel(pairs, c) \in ToSet(renamed)
    OBVIOUS
  <2>1. PICK i \in DOMAIN cols : cols[i] = c
    BY DEF ToSet
  <2> QED
    BY <2>1, <1>4, <1>7, <1>10 DEF ToSet
<1>17. ToSet(order') \subseteq ToSet(renamed)
  <2> SUFFICES ASSUME NEW c \in ToSet(order') PROVE c \in ToSet(renamed)
    OBVIOUS
  <2>1. PICK i \in DOMAIN order : c = Relabel(pairs, order[i])
    BY <1>2 DEF Reorder, ToSet
  <2>2. order[i] \in ToSet(cols)
    BY <1>3 DEF ToSet
  <2> QED
    BY <2>1, <2>2, <1>16
<1>18. timeCols' \subseteq ToSet(renamed)
  BY <1>2, <1>3, <1>16
<1>19. ASSUME NEW i \in DOMAIN items, items[i].label \in timeCols' PROVE items[i].type \in {"ts", "agg"}
  <2>1. i \in DOMAIN cols /\ items[i].label = renamed[i] /\ items[i].type = TypeIn(rel, cols[i])
    BY <1>4, <1>10, <1>11
  <2>2. PICK c \in timeCols : renamed[i] = Relabel(pairs, c)
    BY <2>1, <1>2, <1>19
  <2>3. PICK j \in DOMAIN cols : cols[j] = c /\ renamed[j] = Relabel(pairs, c)
    BY <1>3, <1>16
  <2>4. i = j
    BY <2>1, <2>2, <2>3, <1>4, <1>10, <1>13 DEF Distinct
  <2> QED
    BY <2>1, <2>3, <2>4, <1>3
<1>20. \A i \in DOMAIN items : items[i].label = renamed[i] /\ items[i].reads \subseteq ScopeNames
  <2> SUFFICES ASSUME NEW i \in DOMAIN cols PROVE items[i].label = renamed[i] /\ items[i].reads \subseteq ScopeNames
    BY <1>4, <1>10
  <2>1. cols[i] \in ScopeNames
    BY <1>4 DEF ScopeNames
  <2> QED
    BY <2>1, <1>11
<1>21. cte.reads \subseteq ScopeNames
  BY <1>6, <1>20
<1>22. Emit(cte, none, none)
  BY <1>2, <1>12
<1>23. DOMAIN items = DOMAIN renamed
  BY <1>10
<1> QED
  BY <1>2, <1>3, <1>5, <1>10, <1>13, <1>15, <1>17, <1>18, <1>19, <1>20, <1>21, <1>22, <1>23, ColumnsListed

(* The names that a stage groups by, and what it calls its aggregates.     *)
LEMMA LabelsListed ==
  ASSUME NEW aggs \in AggLists
  PROVE  IsList(aggs) /\ IsList(AggLabels(aggs)) /\ NoColumn \notin ToSet(AggLabels(aggs))
<1> DEFINE labels == AggLabels(aggs)
           n == Len(aggs)
<1>1. IsList(aggs) /\ \A i \in DOMAIN aggs : aggs[i].label # NoColumn
  BY LoqlAssumption
<1>2. n \in Nat /\ DOMAIN aggs = 1..n
  BY <1>1, ListFacts
<1>3. labels = [i \in 1..n |-> labels[i]] /\ \A i \in 1..n : labels[i] = aggs[i].label
  BY <1>2 DEF AggLabels
<1> HIDE DEF labels, n
<1>4. IsList(labels) /\ DOMAIN labels = 1..n
  BY <1>2, <1>3, ListMade
<1>5. NoColumn \notin ToSet(labels)
  BY <1>1, <1>2, <1>3, <1>4 DEF ToSet
<1> QED
  BY <1>1, <1>4, <1>5 DEF labels

LEMMA TimesGroupedBy ==
  ASSUME LoqlInv, NEW by, NEW names, ToSet(by) \subseteq ToSet(names),
         timeCols' = (timeCols \cap ToSet(names)) \cup TimedBy(by)
  PROVE  timeCols' \subseteq ToSet(names) /\ \A n \in ToSet(by) : n \in timeCols' => LiveColumn(n) \in timeCols
<1>1. ScopeIsSound /\ timeCols \subseteq ToSet(cols)
  BY DEF LoqlInv, TimesAreTyped
<1>2. \A n \in timeCols : LiveColumn(n) = n
  BY <1>1, StandingName
<1> QED
  BY <1>2 DEF TimedBy

LEMMA StatsKeeps ==
  ASSUME LoqlInv, Stats
  PROVE  LoqlInv'
<1>1. PICK by \in Lists, aggs \in AggLists :
        LET items == KeyItems(by, Len(params) + 1)
            added == AggItems(aggs)
            keys == Terms(by, Len(params) + Len(BindsOf(items)) + Len(BindsOf(added)) + 1)
            names == by \o AggLabels(aggs)
        IN  /\ AllResolvable(by) /\ AggsResolvable(aggs)
            /\ Emit(Grouping(items \o added, ReadsOf(keys), {keys[i].id : i \in DOMAIN keys}),
                    StatsBound(items, added, keys), BindsOf(items) \o BindsOf(added) \o BindsOf(keys))
            /\ SetCols(names)
            /\ timeCols' = (timeCols \cap ToSet(names)) \cup TimedBy(by)
            /\ order' = Unsorted /\ Aggregated
  BY DEF Stats
<1> DEFINE items == KeyItems(by, Len(params) + 1)
           added == AggItems(aggs)
           at == Len(params) + Len(BindsOf(items)) + Len(BindsOf(added)) + 1
           keys == Terms(by, at)
           labels == AggLabels(aggs)
           names == by \o labels
           ids == {keys[i].id : i \in DOMAIN keys}
           bound == StatsBound(items, added, keys)
           all == items \o added
           reads == ReadsOf(keys)
<1>2. /\ AllResolvable(by) /\ AggsResolvable(aggs) /\ SetCols(names)
      /\ timeCols' = (timeCols \cap ToSet(names)) \cup TimedBy(by)
      /\ order' = <<>> /\ rawAvail' = FALSE
  BY <1>1 DEF Unsorted, Aggregated
<1>3. Emit(Grouping(all, reads, ids), bound, bound)
  BY <1>1 DEF StatsBound
<1>4. ScopeIsSound /\ TimesAreTyped
  BY DEF LoqlInv
<1>5. IsList(by) /\ NoColumn \notin ToSet(by)
  BY LoqlAssumption
<1>6. IsList(aggs) /\ IsList(labels) /\ NoColumn \notin ToSet(labels)
  BY LabelsListed
<1>7. Fits(added, labels, timeCols')
  BY <1>2, <1>4, <1>6, AggregatesFit
<1> HIDE DEF added, labels
<1>8. ToSet(names) = ToSet(by) \cup ToSet(labels)
  BY <1>5, <1>6, Concatenated
<1> HIDE DEF names
<1>9. ToSet(by) \subseteq ToSet(names)
  BY <1>8
<1>10. timeCols' \subseteq ToSet(names) /\ \A n \in ToSet(by) : n \in timeCols' => LiveColumn(n) \in timeCols
  BY <1>2, <1>9, TimesGroupedBy
<1>11. Fits(items, by, timeCols')
  BY <1>2, <1>4, <1>5, <1>10, KeysFit
<1> HIDE DEF items, at
<1>12. reads \subseteq ScopeNames
  BY <1>2, <1>4, <1>5, <1>10, KeysFit
<1> HIDE DEF ids, bound, reads
<1>13. Fits(all, names, timeCols')
  BY <1>7, <1>11, FitsJoin DEF names
<1> HIDE DEF all
<1>14. NoColumn \notin ToSet(names)
  BY <1>5, <1>6, <1>8
<1>15. ToSet(order') \subseteq ToSet(names)
  BY <1>2, EmptyList
<1> QED
  BY <1>2, <1>3, <1>10, <1>12, <1>13, <1>14, <1>15, RowsGrouped

LEMMA TimechartKeeps ==
  ASSUME LoqlInv, Timechart
  PROVE  LoqlInv'
<1>1. PICK by \in {l \in Lists : Len(l) <= 1}, aggs \in AggLists :
        LET keys == <<Bucket(TimeCol, "_time")>> \o KeyItems(by, Len(params) + 2)
            items == keys \o AggItems(aggs)
        IN  /\ TimeCol # NoColumn
            /\ AllResolvable(by) /\ AggsResolvable(aggs)
            /\ Emit(Grouping(items, {}, {keys[i].id : i \in DOMAIN keys}), BindsOf(items), BindsOf(items))
            /\ SetCols(<<"_time">> \o by \o AggLabels(aggs))
            /\ timeCols' = {"_time"}
            /\ order' = <<"_time">> /\ Aggregated
  BY DEF Timechart
<1> DEFINE time == <<"_time">>
           bucket == <<Bucket(TimeCol, "_time")>>
           groups == KeyItems(by, Len(params) + 2)
           added == AggItems(aggs)
           keys == bucket \o groups
           items == keys \o added
           labels == AggLabels(aggs)
           some == time \o by
           names == some \o labels
           ids == {keys[i].id : i \in DOMAIN keys}
           bound == BindsOf(items)
           none == {}
<1>2. /\ TimeCol # NoColumn /\ AllResolvable(by) /\ AggsResolvable(aggs) /\ SetCols(names)
      /\ timeCols' = {"_time"} /\ order' = time /\ rawAvail' = FALSE
  BY <1>1 DEF Aggregated
<1>3. Emit(Grouping(items, none, ids), bound, bound)
  BY <1>1
<1>4. ScopeIsSound /\ TimesAreTyped
  BY DEF LoqlInv
<1>5. TimeCol \in ScopeNames /\ LiveColumn("_time") \in timeCols
  BY <1>2, <1>4, TimeColStands
<1>6. IsList(by) /\ NoColumn \notin ToSet(by)
  BY LoqlAssumption
<1>7. IsList(aggs) /\ IsList(labels) /\ NoColumn \notin ToSet(labels)
  BY LabelsListed
<1>8. IsList(time) /\ ToSet(time) = {"_time"} /\ DOMAIN time = 1..1 /\ time[1] = "_time"
  BY DEF IsList, ToSet
<1>9. IsList(bucket) /\ DOMAIN bucket = 1..1 /\ bucket[1] = Bucket(TimeCol, "_time")
  BY DEF IsList, ToSet
<1>10. NoColumn # "_time"
  BY DEF NoColumn
<1> HIDE DEF time, bucket
<1>11. Fits(bucket, time, timeCols')
  BY <1>5, <1>8, <1>9, BucketIs DEF Fits
<1>12. Fits(groups, by, timeCols')
  BY <1>2, <1>4, <1>5, <1>6, KeysFit
<1> HIDE DEF groups
<1>13. Fits(added, labels, timeCols')
  BY <1>2, <1>4, <1>7, AggregatesFit
<1> HIDE DEF added, labels, ids, bound
<1>14. Fits(keys, some, timeCols')
  BY <1>11, <1>12, FitsJoin
<1>15. ToSet(some) = ToSet(time) \cup ToSet(by) /\ IsList(some)
  BY <1>6, <1>8, Concatenated
<1> HIDE DEF keys, some
<1>16. Fits(items, names, timeCols')
  BY <1>13, <1>14, FitsJoin
<1>17. ToSet(names) = ToSet(some) \cup ToSet(labels)
  BY <1>7, <1>15, Concatenated
<1>18. none \subseteq ScopeNames
  OBVIOUS
<1> HIDE DEF items, names, none
<1>19. NoColumn \notin ToSet(names)
  BY <1>6, <1>7, <1>8, <1>10, <1>15, <1>17
<1>20. ToSet(order') \subseteq ToSet(names) /\ timeCols' \subseteq ToSet(names)
  BY <1>2, <1>8, <1>15, <1>17
<1> QED
  BY <1>2, <1>3, <1>16, <1>18, <1>19, <1>20, RowsGrouped

LEMMA TopKeeps ==
  ASSUME LoqlInv, Top
  PROVE  LoqlInv'
<1>1. PICK field \in Names, by \in Lists :
        LET all == <<field>> \o by
            items == KeyItems(all, Len(params) + 1)
            over == Terms(by, Len(params) + Len(BindsOf(items)) + 1)
            added == <<AggItem(NoColumn, "count"), [AggItem(NoColumn, "percent") EXCEPT !.reads = ReadsOf(over)]>>
            names == all \o <<"count", "percent">>
        IN  /\ AllResolvable(all)
            /\ Emit(Grouping(items \o added, {}, {items[i].id : i \in DOMAIN items}),
                    BindsOf(items) \o BindsOf(over), BindsOf(items) \o BindsOf(over))
            /\ SetCols(names)
            /\ timeCols' = (timeCols \cap ToSet(names)) \cup TimedBy(all)
            /\ order' = <<"count">> /\ Aggregated
  BY DEF Top
<1> DEFINE one == <<field>>
           all == one \o by
           items == KeyItems(all, Len(params) + 1)
           at == Len(params) + Len(BindsOf(items)) + 1
           over == Terms(by, at)
           count == AggItem(NoColumn, "count")
           percent == [AggItem(NoColumn, "percent") EXCEPT !.reads = ReadsOf(over)]
           added == <<count, percent>>
           labels == <<"count", "percent">>
           names == all \o labels
           ids == {items[i].id : i \in DOMAIN items}
           bound == BindsOf(items) \o BindsOf(over)
           written == items \o added
           sorted == <<"count">>
           none == {}
<1>2. /\ AllResolvable(all) /\ SetCols(names)
      /\ timeCols' = (timeCols \cap ToSet(names)) \cup TimedBy(all)
      /\ order' = sorted /\ rawAvail' = FALSE
  BY <1>1 DEF Aggregated
<1>3. Emit(Grouping(written, none, ids), bound, bound)
  BY <1>1
<1>4. ScopeIsSound /\ TimesAreTyped
  BY DEF LoqlInv
<1>5. IsList(by) /\ NoColumn \notin ToSet(by) /\ field # NoColumn
  BY LoqlAssumption
<1>6. IsList(one) /\ ToSet(one) = {field} /\ DOMAIN one = 1..1 /\ Len(one) = 1
  BY DEF IsList, ToSet
<1>7. IsList(labels) /\ ToSet(labels) = {"count", "percent"} /\ DOMAIN labels = 1..2 /\ labels[1] = "count" /\ labels[2] = "percent"
  BY DEF IsList, ToSet
<1>8. IsList(added) /\ DOMAIN added = 1..2 /\ added[1] = count /\ added[2] = percent
  <2> HIDE DEF count, percent
  <2> QED
    BY DEF IsList, ToSet
<1>9. count.label = "count" /\ count.type = "agg" /\ count.reads = {}
  BY DEF AggItem
<1>10. percent.label = "percent" /\ percent.type = "agg" /\ percent.reads = ReadsOf(over)
  <2> HIDE DEF over
  <2> QED
    BY DEF AggItem
<1>11. NoColumn # "count" /\ NoColumn # "percent" /\ ToSet(sorted) = {"count"}
  BY DEF NoColumn, ToSet
<1> HIDE DEF one, labels, added, count, percent, sorted
<1>12. /\ IsList(all) /\ ToSet(all) = ToSet(one) \cup ToSet(by)
       /\ \A i \in DOMAIN by : i + Len(one) \in DOMAIN all /\ all[i + Len(one)] = by[i]
  BY <1>5, <1>6, Concatenated
<1> HIDE DEF all
<1>13. AllResolvable(by)
  BY <1>2, <1>12 DEF AllResolvable
<1>14. ToSet(names) = ToSet(all) \cup ToSet(labels)
  BY <1>7, <1>12, Concatenated
<1> HIDE DEF names
<1>15. ToSet(all) \subseteq ToSet(names)
  BY <1>14
<1>16. timeCols' \subseteq ToSet(names) /\ \A n \in ToSet(all) : n \in timeCols' => LiveColumn(n) \in timeCols
  BY <1>2, <1>15, TimesGroupedBy
<1>17. Fits(items, all, timeCols')
  BY <1>2, <1>4, <1>12, <1>16, KeysFit
<1> HIDE DEF items, at
<1>18. ReadsOf(over) \subseteq ScopeNames
  <2>1. \A n \in ToSet(by) : n \in timeCols' => LiveColumn(n) \in timeCols
    BY <1>12, <1>16
  <2> QED
    BY <2>1, <1>4, <1>5, <1>13, KeysFit
<1> HIDE DEF over, ids, bound
<1>19. Fits(added, labels, timeCols')
  <2>1. \A i \in 1..2 : i = 1 \/ i = 2
    OBVIOUS
  <2> QED
    BY <2>1, <1>7, <1>8, <1>9, <1>10, <1>18 DEF Fits
<1>20. Fits(written, names, timeCols')
  BY <1>17, <1>19, FitsJoin DEF names
<1>21. none \subseteq ScopeNames
  OBVIOUS
<1> HIDE DEF written, none
<1>22. NoColumn \notin ToSet(names)
  BY <1>5, <1>6, <1>7, <1>11, <1>12, <1>14
<1>23. ToSet(order') \subseteq ToSet(names)
  BY <1>2, <1>7, <1>11, <1>14
<1> QED
  BY <1>2, <1>3, <1>16, <1>20, <1>21, <1>22, <1>23, RowsGrouped

-----------------------------------------------------------------------------
LEMMA LabelledRelation ==
  ASSUME NEW names, IsList(names), Distinct(names)
  PROVE  /\ OneEach(Labelled(names)) /\ LabelsOf(Labelled(names)) = ToSet(names)
         /\ "event_time" \in ToSet(names) => TypeIn(Labelled(names), "event_time") = "ts"
<1> DEFINE L == Labelled(names)
           n == Len(names)
<1>1. n \in Nat /\ DOMAIN names = 1..n
  BY ListFacts
<1>2. /\ L = [i \in 1..n |-> L[i]] /\ \A i \in 1..n : L[i].label = names[i]
      /\ \A i \in 1..n : names[i] = "event_time" => L[i].type = "ts"
  BY <1>1 DEF Labelled
<1> HIDE DEF L, n
<1>3. IsList(L) /\ DOMAIN L = 1..n
  BY <1>1, <1>2, ListMade
<1>4. OneEach(L)
  BY <1>1, <1>2, <1>3 DEF OneEach, Distinct
<1>5. LabelsOf(L) = ToSet(names)
  BY <1>1, <1>2, <1>3 DEF LabelsOf, ToSet
<1>6. ASSUME "event_time" \in ToSet(names) PROVE TypeIn(L, "event_time") = "ts"
  <2>1. PICK i \in 1..n : names[i] = "event_time"
    BY <1>1, <1>6 DEF ToSet
  <2>2. L[i].label = "event_time" /\ L[i].type = "ts" /\ i \in DOMAIN L
    BY <2>1, <1>2, <1>3
  <2> QED
    BY <2>2, <1>4, RowType
<1> QED
  BY <1>4, <1>5, <1>6 DEF L

LEMMA CarriedBehind ==
  ASSUME NEW names, IsList(names), Distinct(names), ToSet(names) \cap ToSet(Passthru) = {}
  PROVE  /\ IsList(names \o Passthru) /\ Distinct(names \o Passthru)
         /\ ToSet(names \o Passthru) = ToSet(names) \cup ToSet(Passthru)
<1> DEFINE all == names \o Passthru
           n == Len(names)
<1>1. IsList(Passthru) /\ Distinct(Passthru)
  BY LoqlAssumption
<1>2. n \in Nat /\ DOMAIN names = 1..n /\ \A i \in DOMAIN names : names[i] \in ToSet(names)
  BY ListFacts
<1>3. Len(Passthru) \in Nat /\ DOMAIN Passthru = 1..Len(Passthru) /\ \A i \in DOMAIN Passthru : Passthru[i] \in ToSet(Passthru)
  BY <1>1, ListFacts
<1>4. /\ IsList(all) /\ DOMAIN all = 1..(n + Len(Passthru))
      /\ \A i \in DOMAIN names : i \in DOMAIN all /\ all[i] = names[i]
      /\ \A i \in DOMAIN all : i \in DOMAIN names \/ (i - n \in DOMAIN Passthru /\ all[i] = Passthru[i - n])
      /\ ToSet(all) = ToSet(names) \cup ToSet(Passthru)
  BY <1>1, Concatenated
<1> HIDE DEF all, n
<1>5. Distinct(all)
  <2> SUFFICES ASSUME NEW i \in DOMAIN all, NEW j \in DOMAIN all, all[i] = all[j] PROVE i = j
    BY DEF Distinct
  <2>1. CASE i \in DOMAIN names /\ j \in DOMAIN names
    BY <2>1, <1>4 DEF Distinct
  <2>2. CASE i \notin DOMAIN names /\ j \notin DOMAIN names
    <3>1. i - n = j - n
      BY <2>2, <1>1, <1>4 DEF Distinct
    <3> QED
      BY <3>1, <1>2, <1>3, <1>4
  <2>3. CASE i \in DOMAIN names /\ j \notin DOMAIN names
    BY <2>3, <1>2, <1>3, <1>4
  <2>4. CASE i \notin DOMAIN names /\ j \in DOMAIN names
    BY <2>4, <1>2, <1>3, <1>4
  <2> QED
    BY <2>1, <2>2, <2>3, <2>4
<1> QED
  BY <1>4, <1>5 DEF all

LEMMA QueriesBegin ==
  ASSUME LoqlInit
  PROVE  LoqlInv
<1>1. /\ rawAvail = TRUE /\ order = <<>> /\ timeCols = {"event_time"} /\ (cols = ModelCols \/ cols = BaseCols)
      /\ rel = Labelled(cols \o Passthru) /\ below = Labelled(BaseCols \o Passthru)
      /\ lastCte.reads = ToSet(BaseCols) /\ params = placeholders
  BY DEF LoqlInit, SourceRelation, Unsorted
<1>2. /\ IsList(cols) /\ Distinct(cols) /\ "event_time" \in ToSet(cols)
      /\ ToSet(cols) \cap ToSet(Passthru) = {} /\ NoColumn \notin ToSet(cols)
  BY <1>1, LoqlAssumption
<1>3. /\ IsList(BaseCols) /\ Distinct(BaseCols) /\ ToSet(BaseCols) \cap ToSet(Passthru) = {}
  BY LoqlAssumption
<1>4. /\ IsList(cols \o Passthru) /\ Distinct(cols \o Passthru)
      /\ ToSet(cols \o Passthru) = ToSet(cols) \cup ToSet(Passthru)
  BY <1>2, CarriedBehind
<1>5. /\ IsList(BaseCols \o Passthru) /\ Distinct(BaseCols \o Passthru)
      /\ ToSet(BaseCols \o Passthru) = ToSet(BaseCols) \cup ToSet(Passthru)
  BY <1>3, CarriedBehind
<1>6. /\ OneEach(rel) /\ LabelsOf(rel) = ToSet(cols) \cup ToSet(Passthru) /\ TypeIn(rel, "event_time") = "ts"
  BY <1>1, <1>2, <1>4, LabelledRelation
<1>7. OneEach(below) /\ LabelsOf(below) = ToSet(BaseCols) \cup ToSet(Passthru)
  BY <1>1, <1>5, LabelledRelation
<1>8. ScopeIsSound
  BY <1>1, <1>2, EmptyList DEF ScopeIsSound, OrderReads
<1>9. TimesAreTyped
  BY <1>1, <1>2, <1>6 DEF TimesAreTyped
<1>10. LabelsOf(rel) = ScopeNames
  BY <1>1, <1>6 DEF ScopeNames
<1> QED
  BY <1>1, <1>6, <1>7, <1>8, <1>9, <1>10 DEF LoqlInv

LEMMA LoqlKeeps ==
  ASSUME LoqlInv, [LoqlNext]_loqlVars
  PROVE  LoqlInv'
<1>1. CASE LoqlNext
  BY <1>1, WhereKeeps, EvalKeeps, FieldsKeeps, RenameKeeps, ReordersKeep, StatsKeeps, TimechartKeeps, BinKeeps, TopKeeps
     DEF LoqlNext
<1>2. CASE UNCHANGED loqlVars
  BY <1>2 DEF loqlVars, LoqlInv, ScopeIsSound, TimesAreTyped, ScopeNames, OrderReads, LiveColumn
<1> QED
  BY <1>1, <1>2

(* A label of a relation that has each once is answered by one row.        *)
LEMMA OneAnswer ==
  ASSUME NEW r, OneEach(r), NEW c \in LabelsOf(r)
  PROVE  Cardinality(Answering(r, c)) = 1
<1>1. PICK i \in DOMAIN r : r[i].label = c
  BY DEF LabelsOf
<1>2. Answering(r, c) = {i}
  BY <1>1 DEF Answering, OneEach
<1> QED
  BY <1>2, FS_Singleton

LEMMA AsManyLabels ==
  ASSUME NEW r, OneEach(r)
  PROVE  Len(r) = Cardinality(LabelsOf(r))
<1> DEFINE n == Len(r)
           L == LabelsOf(r)
           f == [i \in 1..n |-> r[i].label]
<1>1. n \in Nat /\ DOMAIN r = 1..n
  BY ListFacts DEF OneEach
<1>2. /\ f \in [1..n -> L] /\ \A t \in L : \E i \in 1..n : f[i] = t
      /\ \A i, j \in 1..n : f[i] = f[j] => i = j
  BY <1>1 DEF LabelsOf, OneEach
<1> HIDE DEF f, L, n
<1>3. f \in Injection(1..n, L) /\ f \in Surjection(1..n, L)
  BY <1>2 DEF Injection, Surjection, IsInjective
<1>4. IsFiniteSet(1..n) /\ Cardinality(1..n) = n
  BY <1>1, FS_Interval
<1>5. Cardinality(L) = Cardinality(1..n)
  BY <1>3, <1>4, FS_Surjection
<1> QED
  BY <1>4, <1>5 DEF L, n

LEMMA SoundMeansText ==
  ASSUME LoqlInv
  PROVE  QueriesMeanTheirText
<1>1. /\ OneEach(rel) /\ LabelsOf(rel) = ScopeNames /\ OneEach(below) /\ lastCte.reads \subseteq LabelsOf(below)
      /\ params = placeholders /\ OrderReads \subseteq ToSet(cols)
  BY DEF LoqlInv, ScopeIsSound
<1>2. ScopeIsTheRelation
  BY <1>1, AsManyLabels DEF ScopeIsTheRelation, LabelsOf, ScopeNames
<1>3. EveryNameResolves
  <2>1. OrderReads \subseteq LabelsOf(rel)
    BY <1>1 DEF ScopeNames
  <2> QED
    BY <1>1, <2>1, OneAnswer DEF EveryNameResolves
<1>4. TimeColsAreTimestamps
  BY DEF LoqlInv, TimesAreTyped, TimeColsAreTimestamps
<1> QED
  BY <1>1, <1>2, <1>3, <1>4 DEF QueriesMeanTheirText, PlaceholdersInOrder

(* A query means its text: whatever the schema, the aliases, the names and *)
(* the pipeline, what the compiler believes it can name is what the SQL it *)
(* has emitted has, every name resolves to exactly one column, a column    *)
(* compared as a time is one, and every value is bound to its own          *)
(* placeholder (app/loql/compiler.py).                                     *)
THEOREM QueriesStayTrue == LoqlSpec => []QueriesMeanTheirText
<1>1. LoqlInit => LoqlInv
  BY QueriesBegin
<1>2. LoqlInv /\ [LoqlNext]_loqlVars => LoqlInv'
  BY LoqlKeeps
<1>3. LoqlInv => QueriesMeanTheirText
  BY SoundMeansText
<1> QED
  BY <1>1, <1>2, <1>3, PTL DEF LoqlSpec
=============================================================================
