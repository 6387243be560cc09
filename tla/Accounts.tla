------------------------------ MODULE Accounts ------------------------------
(***************************************************************************)
(* Users, sessions and the administrators' requests (app/main.py) over the *)
(* users and sessions tables (app/db.py). A request that takes an          *)
(* administrator away first asks is_last_admin, two statements at READ     *)
(* COMMITTED, and writes in another transaction.                           *)
(***************************************************************************)
EXTENDS Integers, Sequences, FiniteSets

CONSTANTS UserNames,   \* names a form may hold
          Requests,    \* requests the thread pool has in flight
          MaxUsers, MaxRequests

ASSUME AccountsAssumption == MaxUsers \in Nat \ {0} /\ MaxRequests \in Nat

VARIABLES
  users,      \* the rows, a sequence indexed by id
  sessions,   \* ids of the users a live session token belongs to
  pending,    \* request -> what it is in the middle of
  begun,      \* requests begun, up to MaxRequests
  overlapped  \* a removal was written between another's check and its write

accountVars == <<users, sessions, pending, begun, overlapped>>

Roles == <<"viewer", "analyst", "admin">>
Rank(role) == CHOOSE i \in DOMAIN Roles : Roles[i] = role
RoleAtLeast(role, required) == Rank(role) >= Rank(required)

NoRequest == [at |-> "idle"]
UserRow(name, role) == [name |-> name, role |-> role, enabled |-> TRUE]
EnabledAdmin(row) == row.role = "admin" /\ row.enabled
NameTaken(name) == \E u \in DOMAIN users : users[u].name = name

AccountInit ==
    /\ users = <<>> /\ sessions = {}
    /\ pending = [r \in Requests |-> NoRequest]
    /\ begun = 0 /\ overlapped = FALSE

Continue(r, rec) == pending' = [pending EXCEPT ![r] = rec]
Begin(r, rec) ==
    /\ pending[r] = NoRequest /\ begun < MaxRequests
    /\ begun' = begun + 1
    /\ Continue(r, rec)

\* main.lifespan: an empty table gets the configured administrator.
Bootstrap(name) ==
    /\ users = <<>>
    /\ users' = <<UserRow(name, "admin")>>
    /\ UNCHANGED <<sessions, pending, begun, overlapped>>

\* get_session_user: the token, and the user still enabled when it is used.
SessionUser(u) == u \in sessions /\ users[u].enabled

-----------------------------------------------------------------------------
\* POST /login reads the row and checks the password, then stores a session.
LoginRead(r, u) ==
    /\ u \in DOMAIN users /\ users[u].enabled
    /\ Begin(r, [at |-> "session", user |-> u])
    /\ UNCHANGED <<users, sessions, overlapped>>

LoginGrant(r) ==
    /\ pending[r].at = "session"
    /\ sessions' = sessions \cup {pending[r].user}
    /\ Continue(r, NoRequest)
    /\ UNCHANGED <<users, begun, overlapped>>

\* GET /logout, or the token's expiry.
SessionEnds(u) ==
    /\ sessions' = sessions \ {u}
    /\ sessions' # sessions
    /\ UNCHANGED <<users, pending, begun, overlapped>>

-----------------------------------------------------------------------------
\* require_role("admin"), on the row the auth guard read for this request.
MayAdminister(u) == SessionUser(u) /\ RoleAtLeast(users[u].role, "admin")

\* Only a change that takes an administrator away is checked first.
Removes(change) == IF change.kind = "role" THEN change.to # "admin" ELSE change.to = FALSE

ChangeUser(r, u, change) ==
    /\ MayAdminister(u) /\ change.user \in DOMAIN users
    /\ Begin(r, [at |-> IF Removes(change) THEN "me" ELSE "write", change |-> change])
    /\ UNCHANGED <<users, sessions, overlapped>>

\* is_last_admin, first statement: the user's own row.
CheckMe(r) ==
    /\ pending[r].at = "me"
    /\ Continue(r, [at |-> "others", change |-> pending[r].change,
                    me |-> EnabledAdmin(users[pending[r].change.user])])
    /\ UNCHANGED <<users, sessions, begun, overlapped>>

AnyOtherAdmins(user) == {u \in DOMAIN users \ {user} : users[u].role = "admin"}

\* is_last_admin, second statement: the other enabled administrators.
OtherAdmins(user) == {u \in DOMAIN users \ {user} : EnabledAdmin(users[u])}

CheckOthers(r) ==
    /\ pending[r].at = "others"
    /\ IF pending[r].me /\ OtherAdmins(pending[r].change.user) = {}
         THEN Continue(r, NoRequest)                      \* denied, audited
         ELSE Continue(r, [at |-> "write", change |-> pending[r].change])
    /\ UNCHANGED <<users, sessions, begun, overlapped>>

MidRemoval(r) == pending[r].at \in {"others", "write"} /\ Removes(pending[r].change)

Apply(row, change) ==
    IF change.kind = "role" THEN [row EXCEPT !.role = change.to]
                            ELSE [row EXCEPT !.enabled = change.to]

\* set_user_role or set_user_enabled; sessions are left as they are.
WriteChange(r) ==
    /\ pending[r].at = "write"
    /\ LET c == pending[r].change
       IN  /\ users' = [users EXCEPT ![c.user] = Apply(@, c)]
           /\ overlapped' = (\/ overlapped
                             \/ Removes(c) /\ \E s \in Requests \ {r} : MidRemoval(s))
    /\ Continue(r, NoRequest)
    /\ UNCHANGED <<sessions, begun>>

-----------------------------------------------------------------------------
\* POST /admin/users looks the name up, hashes the password and inserts.
CreateRead(r, u, name, role) ==
    /\ MayAdminister(u) /\ ~NameTaken(name) /\ Len(users) < MaxUsers
    /\ Begin(r, [at |-> "insert", row |-> UserRow(name, role)])
    /\ UNCHANGED <<users, sessions, overlapped>>

AlwaysInsertable(row) == TRUE

\* UNIQUE (username): the second of two inserts fails with its request.
Insertable(row) == ~NameTaken(row.name)

CreateInsert(r) ==
    /\ pending[r].at = "insert"
    /\ users' = IF Insertable(pending[r].row) THEN Append(users, pending[r].row) ELSE users
    /\ Continue(r, NoRequest)
    /\ UNCHANGED <<sessions, begun, overlapped>>

Changes ==
    [kind : {"role"}, user : 1..MaxUsers, to : {"viewer", "admin"}]
        \cup [kind : {"toggle"}, user : 1..MaxUsers, to : BOOLEAN]

RequestStep(r) ==
    LoginGrant(r) \/ CheckMe(r) \/ CheckOthers(r) \/ WriteChange(r) \/ CreateInsert(r)

AccountNext ==
    \/ \E name \in UserNames : Bootstrap(name)
    \/ \E r \in Requests, u \in 1..MaxUsers : LoginRead(r, u)
    \/ \E u \in 1..MaxUsers : SessionEnds(u)
    \/ \E r \in Requests, u \in DOMAIN users :
          \/ \E c \in Changes : ChangeUser(r, u, c)
          \/ \E name \in UserNames, role \in {"viewer", "admin"} : CreateRead(r, u, name, role)
    \/ \E r \in Requests : RequestStep(r)

AccountSpec == AccountInit /\ [][AccountNext]_accountVars

-----------------------------------------------------------------------------
AccountTypeOK ==
    /\ \A u \in DOMAIN users :
          users[u].role \in {Roles[i] : i \in DOMAIN Roles} /\ users[u].enabled \in BOOLEAN
    /\ sessions \subseteq DOMAIN users
    /\ begun \in 0..MaxRequests

(* is_last_admin: whatever sequence of promotions, demotions and toggles   *)
(* the requests make, an enabled administrator is left, unless two         *)
(* removals overlapped: then each may have counted on the other.           *)
AnAdminRemains ==
    users = <<>> \/ overlapped \/ \E u \in DOMAIN users : EnabledAdmin(users[u])

(* create_user: get_user_by_name answers with at most one row, although    *)
(* two requests for one name may both have found it free.                  *)
NamesAreUnique ==
    \A u, v \in DOMAIN users : users[u].name = users[v].name => u = v

(* Concurrent requests over the user rows leave an administrator and one   *)
(* row to a name.                                                          *)
AccountsAreSafe == AccountTypeOK /\ AnAdminRemains /\ NamesAreUnique
=============================================================================
