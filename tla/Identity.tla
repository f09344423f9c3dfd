------------------------------ MODULE Identity ------------------------------
(***************************************************************************)
(* The identity service: users, refresh sessions and the signing key.      *)
(*                                                                         *)
(* A refresh token stands for its session row, which it is looked up by;   *)
(* rows are numbered in the order of their commits and a family by its     *)
(* first row.  Statements on their own are steps; the rotation's           *)
(* transaction is cut where it takes the lock on the old row, and an       *)
(* UPDATE of a family where it takes its snapshot, because rows that       *)
(* commit in between are not in it.                                        *)
(***************************************************************************)
EXTENDS Naturals, Sequences

CONSTANTS
  Users,       \* emails; a user's id stands for the email
  Seeded,      \* roles of the users the migration creates
  Kids,        \* ids of signing keys, in the order they are put in place
  Callers,     \* concurrent calls of Refresh, Logout and RevokeSession
  MaxSessions  \* bound on session rows

ASSUME IdentityAssumption ==
  /\ DOMAIN Seeded \subseteq Users
  /\ Kids \in Seq(STRING) /\ Kids # <<>>
  /\ MaxSessions \in Nat

VARIABLES
  users,       \* roles by registered user
  registered,  \* CustomerRegistered events
  sessions,    \* session rows; rotatedTo is 0 for NULL, expired stands for the clock
  call,        \* where each call stands
  keyNo,       \* which key private.pem holds
  signed,      \* access tokens that were signed
  tokens       \* those that have not expired

ivars == <<users, registered, sessions, call, keyNo, signed, tokens>>

Idle == [at |-> "idle"]

Kid == Kids[keyNo]
Live(s) == ~sessions[s].revoked
Family(f) == {s \in DOMAIN sessions : sessions[s].family = f}

IdentityInit ==
  /\ users = Seeded
  /\ registered = {}
  /\ sessions = <<>>
  /\ call = [c \in Callers |-> Idle]
  /\ keyNo = 1
  /\ signed = {} /\ tokens = {}

-----------------------------------------------------------------------------
(* Statements *)

GetUserByEmail(u) == {v \in DOMAIN users : v = u}

GetRoles(user) == users[user]

\* The users with a row more; CreateUser fails on an email that is taken.
CreateUser(u) == [v \in DOMAIN users \cup {u} |-> IF v = u THEN {} ELSE users[v]]

AddRole(rows, u, role) == [rows EXCEPT ![u] = @ \cup {role}]

GetSession(s) == sessions[s]

\* CreateSession.  Rows reserved by open rotations count against the bound.
CreateSession(user, family) ==
  [user |-> user, family |-> family, rotatedTo |-> 0, revoked |-> FALSE, expired |-> FALSE]

RoomFor(n) ==
  Len(sessions) + n <= MaxSessions

\* Variant: without "revoked_at IS NULL".
MarkSessionRotatedBlind(s, next) ==
  [sessions EXCEPT ![s].rotatedTo = next, ![s].revoked = TRUE]

\* MarkSessionRotated: the rows after it; a revoked row is not touched.
MarkSessionRotated(s, next) ==
  IF sessions[s].revoked THEN sessions
  ELSE [sessions EXCEPT ![s].rotatedTo = next, ![s].revoked = TRUE]

\* RevokeSessionFamily on the rows of its snapshot.
RevokeSessionFamily(snap) ==
  [s \in DOMAIN sessions |->
     IF s \in snap THEN [sessions[s] EXCEPT !.revoked = TRUE] ELSE sessions[s]]

ListActiveSessions(user) ==
  {s \in DOMAIN sessions : sessions[s].user = user /\ Live(s) /\ ~sessions[s].expired}

\* GetMe: the caller's roles as they are now; unknown to anyone else.
GetMe(user) == UNION {GetRoles(u) : u \in GetUserByEmail(user)}

\* SignAccess: the claims of the token and the key that signs it.
SignAccess(user, roles) == [user |-> user, roles |-> roles, kid |-> Kid]

Issue(user) ==
  LET token == SignAccess(user, GetRoles(user))
  IN  signed' = signed \cup {token} /\ tokens' = tokens \cup {token}

-----------------------------------------------------------------------------
(* Register and Login *)

\* The user, the role and CustomerRegistered in one transaction.
Register(u) ==
  /\ GetUserByEmail(u) = {}
  /\ users' = AddRole(CreateUser(u), u, "customer")
  /\ registered' = registered \cup {u}
  /\ UNCHANGED <<sessions, call, keyNo, signed, tokens>>

\* The right password of a known user; a new family.
Login(u) ==
  /\ GetUserByEmail(u) # {}
  /\ RoomFor(1)
  /\ sessions' = Append(sessions, CreateSession(u, Len(sessions) + 1))
  /\ Issue(u)
  /\ UNCHANGED <<users, registered, call, keyNo>>

-----------------------------------------------------------------------------
(* Refresh *)

DecideRefresh(s) ==
  IF s.revoked THEN IF s.rotatedTo # 0 THEN "reuse" ELSE "denied"
  ELSE IF s.expired THEN "expired"
  ELSE "rotate"

\* The row is read and judged; a denied or expired token ends the call here.
RefreshRead(c, s) ==
  /\ call[c] = Idle
  /\ \/ /\ DecideRefresh(GetSession(s)) = "reuse"
        /\ call' = [call EXCEPT ![c] = [at |-> "kill", family |-> GetSession(s).family]]
     \/ /\ DecideRefresh(GetSession(s)) = "rotate"
        /\ call' = [call EXCEPT ![c] = [at |-> "read", sess |-> s]]
  /\ UNCHANGED <<users, registered, sessions, keyNo, signed, tokens>>

Locked(s) == \E c \in Callers : call[c].at = "marked" /\ call[c].sess = s

\* The transaction up to MarkSessionRotated, which waits for the row and looks at it
\* again.  The loser of a race finds it revoked: it revokes the family, returns the
\* error, and the rollback that the error causes undoes the revocation.
RefreshMark(c) ==
  /\ call[c].at = "read"
  /\ ~Locked(call[c].sess)
  /\ \/ /\ MarkSessionRotated(call[c].sess, MaxSessions) = sessions
        /\ call' = [call EXCEPT ![c] = Idle]
     \/ /\ MarkSessionRotated(call[c].sess, MaxSessions) # sessions
        /\ call' = [call EXCEPT ![c].at = "marked"]
  /\ UNCHANGED <<users, registered, sessions, keyNo, signed, tokens>>

\* It commits: the old row points to the new one, and an access token is signed.
RefreshCommit(c) ==
  LET old == call[c].sess
      row == sessions[old]
  IN  /\ call[c].at = "marked"
      /\ RoomFor(1)
      /\ sessions' = Append(MarkSessionRotated(old, Len(sessions) + 1),
                            CreateSession(row.user, row.family))
      /\ Issue(row.user)
      /\ call' = [call EXCEPT ![c] = Idle]
      /\ UNCHANGED <<users, registered, keyNo>>

\* Any statement of the transaction or its commit fails, or the process dies.
RefreshFails(c) ==
  /\ call[c].at \in {"read", "marked"}
  /\ call' = [call EXCEPT ![c] = Idle]
  /\ UNCHANGED <<users, registered, sessions, keyNo, signed, tokens>>

-----------------------------------------------------------------------------
(* Revocation: Logout, RevokeSession and a reused token *)

\* Logout looks the family up; an unknown token is a success without effect.
LogoutRead(c, s) ==
  /\ call[c] = Idle
  /\ call' = [call EXCEPT ![c] = [at |-> "kill", family |-> GetSession(s).family]]
  /\ UNCHANGED <<users, registered, sessions, keyNo, signed, tokens>>

\* RevokeSession: by the owner only.
RevokeSessionRead(c, caller, s) ==
  /\ GetSession(s).user = caller
  /\ LogoutRead(c, s)

\* The UPDATE takes its snapshot of the rows that are committed.
RevokeStart(c) ==
  /\ call[c].at = "kill"
  /\ call' = [call EXCEPT ![c] = [at |-> "revoke", snap |-> Family(@.family)]]
  /\ UNCHANGED <<users, registered, sessions, keyNo, signed, tokens>>

\* It waits for the rows that rotations hold, and ends.
RevokeEnd(c) ==
  /\ call[c].at = "revoke"
  /\ \A s \in call[c].snap : ~Locked(s)
  /\ sessions' = RevokeSessionFamily(call[c].snap)
  /\ call' = [call EXCEPT ![c] = Idle]
  /\ UNCHANGED <<users, registered, keyNo, signed, tokens>>

-----------------------------------------------------------------------------
(* The clock and the key *)

SessionExpires(s) ==
  /\ ~sessions[s].expired
  /\ sessions' = [sessions EXCEPT ![s].expired = TRUE]
  /\ UNCHANGED <<users, registered, call, keyNo, signed, tokens>>

TokenExpires(t) ==
  /\ tokens' = tokens \ {t}
  /\ UNCHANGED <<users, registered, sessions, call, keyNo, signed>>

\* Load after the key file was removed: a new key, under a new id.
ReplaceKey ==
  /\ keyNo < Len(Kids)
  /\ keyNo' = keyNo + 1
  /\ UNCHANGED <<users, registered, sessions, call, signed, tokens>>

\* The document at /.well-known/jwks.json.
JWKS == {Kid}

IdentityNext ==
  \/ \E u \in Users : Register(u) \/ Login(u)
  \/ \E c \in Callers, s \in DOMAIN sessions :
       \/ RefreshRead(c, s) \/ LogoutRead(c, s)
       \/ \E u \in Users : RevokeSessionRead(c, u, s)
  \/ \E c \in Callers : \/ RefreshMark(c) \/ RefreshCommit(c) \/ RefreshFails(c)
                        \/ RevokeStart(c) \/ RevokeEnd(c)
  \/ \E s \in DOMAIN sessions : SessionExpires(s)
  \/ \E t \in tokens : TokenExpires(t)

\* The sessions do not depend on the key: ReplaceKey is a step of the gateway's
\* specification.
IdentitySpec == IdentityInit /\ [][IdentityNext]_ivars

-----------------------------------------------------------------------------
(* Properties *)

\* Whoever refreshes, logs out or replays a token at the same time, a family has one
\* live refresh token at most, and a rotated token points to the one row that
\* replaced it (MarkSessionRotated lets one rotation win); a user's list of sessions
\* shows those that Refresh would still rotate.
SingleHolder ==
  /\ \A s, t \in DOMAIN sessions :
       /\ sessions[s].family = sessions[t].family /\ Live(s) /\ Live(t) => s = t
       /\ sessions[s].rotatedTo = t => sessions[t].family = sessions[s].family /\ s < t
       /\ sessions[s].rotatedTo # 0 /\ sessions[s].rotatedTo = sessions[t].rotatedTo => s = t
  /\ \A u \in Users, s \in DOMAIN sessions :
       s \in ListActiveSessions(u) <=>
         sessions[s].user = u /\ DecideRefresh(sessions[s]) = "rotate"

\* A family none of whose tokens is live stays so: a token that a rotation read as
\* live, and that a logout revoked meanwhile, is not rotated.
NoRevival ==
  [][\A f \in 1..MaxSessions :
       Family(f) # {} /\ (\A s \in Family(f) : ~Live(s)) =>
         \A s \in DOMAIN sessions' : sessions'[s].family = f => sessions'[s].revoked]_ivars

=============================================================================
