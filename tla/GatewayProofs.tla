--------------------------- MODULE GatewayProofs ----------------------------
(***************************************************************************)
(* Proofs about the identity service and the gateway in front of it.       *)
(***************************************************************************)
EXTENDS Gateway, TLAPS

-----------------------------------------------------------------------------
(* Identity: one live refresh token per family.                            *)
(*                                                                         *)
(* A rotation that holds its row's lock ("marked") found the row live, and *)
(* nobody revokes it before the lock is given back; this is what the       *)
(* commit relies on when it adds a live row to the family.                 *)

Row == [user : Users, family : Nat, rotatedTo : Nat, revoked : BOOLEAN, expired : BOOLEAN]

CallState ==
  {Idle} \cup [at : {"kill"}, family : Nat] \cup [at : {"read", "marked"}, sess : Nat]
         \cup [at : {"revoke"}, snap : SUBSET Nat]

IdentityTypes == sessions \in Seq(Row) /\ call \in [Callers -> CallState]

Marked(c) == call[c].at = "marked"

\* A family is numbered by a row that is not younger.
FamiliesAreOld == \A s \in DOMAIN sessions : sessions[s].family <= s

OneLive ==
  \A s, t \in DOMAIN sessions :
    sessions[s].family = sessions[t].family /\ Live(s) /\ Live(t) => s = t

\* A rotated row is revoked and points to a younger row of its family, its own.
Links ==
  /\ \A s \in DOMAIN sessions : sessions[s].rotatedTo # 0 =>
       LET n == sessions[s].rotatedTo
       IN  n \in DOMAIN sessions /\ s < n /\ sessions[n].family = sessions[s].family
  /\ \A s, t \in DOMAIN sessions :
       sessions[s].rotatedTo # 0 /\ sessions[s].rotatedTo = sessions[t].rotatedTo => s = t

\* A call names a row that exists.
CallsNameRows ==
  \A c \in Callers : call[c].at \in {"read", "marked"} => call[c].sess \in DOMAIN sessions

MarkedIsLive ==
  /\ \A c \in Callers : Marked(c) => Live(call[c].sess)
  /\ \A c, d \in Callers : Marked(c) /\ Marked(d) /\ call[c].sess = call[d].sess => c = d

IdentityInv ==
  IdentityTypes /\ FamiliesAreOld /\ OneLive /\ Links /\ CallsNameRows /\ MarkedIsLive

\* The rows of s after a step of an UPDATE or of the clock: only revoked goes up, and
\* expired.
Fades(new) ==
  /\ new \in Seq(Row) /\ DOMAIN new = DOMAIN sessions
  /\ \A s \in DOMAIN sessions :
       /\ new[s].user = sessions[s].user /\ new[s].family = sessions[s].family
       /\ new[s].rotatedTo = sessions[s].rotatedTo
       /\ sessions[s].revoked => new[s].revoked

\* The fields of a call that moves on.
LEMMA CallFields ==
  /\ Idle.at = "idle" /\ Idle \in CallState
  /\ \A f \in Nat : /\ [at |-> "kill", family |-> f] \in CallState
                    /\ [at |-> "kill", family |-> f].at = "kill"
  /\ \A s \in Nat : /\ [at |-> "read", sess |-> s] \in CallState
                    /\ [at |-> "read", sess |-> s].at = "read"
                    /\ [at |-> "read", sess |-> s].sess = s
  /\ \A x \in SUBSET Nat : /\ [at |-> "revoke", snap |-> x] \in CallState
                           /\ [at |-> "revoke", snap |-> x].at = "revoke"
  /\ \A p \in CallState : p.at = "kill" => p.family \in Nat
  /\ \A p \in CallState : p.at = "read" =>
       /\ [p EXCEPT !.at = "marked"] \in CallState
       /\ [p EXCEPT !.at = "marked"].at = "marked"
       /\ [p EXCEPT !.at = "marked"].sess = p.sess
  /\ \A p \in CallState : p.at \in {"read", "marked"} => p.sess \in Nat
  /\ \A p \in CallState : p.at = "revoke" => p.snap \in SUBSET Nat
BY DEF Idle, CallState

\* A step that moves calls only, and marks none, keeps the invariant.
LEMMA CallsMove ==
  ASSUME IdentityInv, UNCHANGED sessions,
         NEW c \in Callers, NEW p \in CallState, call' = [call EXCEPT ![c] = p],
         p.at # "marked", p.at = "read" => p.sess \in DOMAIN sessions
  PROVE  IdentityInv'
<1> USE DEF IdentityInv, IdentityTypes
<1>1. call' \in [Callers -> CallState] /\ \A d \in Callers : call'[d] = IF d = c THEN p ELSE call[d]
  OBVIOUS
<1>2. IdentityTypes' BY <1>1
<1>3. (FamiliesAreOld /\ OneLive /\ Links)'
  BY DEF FamiliesAreOld, OneLive, Links, Live
<1>4. CallsNameRows' BY <1>1 DEF CallsNameRows
<1>5. MarkedIsLive' BY <1>1 DEF MarkedIsLive, Marked, Live
<1> QED BY <1>2, <1>3, <1>4, <1>5

\* Rows that only fade keep the invariant if no marked row is revoked.
LEMMA RowsFade ==
  ASSUME IdentityInv, Fades(sessions'), UNCHANGED call,
         \A c \in Callers : Marked(c) => ~sessions'[call[c].sess].revoked
  PROVE  IdentityInv'
<1> USE DEF IdentityInv, IdentityTypes
<1>1. IdentityTypes' BY DEF Fades
<1>2. FamiliesAreOld' BY DEF FamiliesAreOld, Fades
<1>3. OneLive' BY DEF OneLive, Fades, Live
<1>4. Links'
  <2>1. \A s \in DOMAIN sessions : /\ sessions'[s].rotatedTo = sessions[s].rotatedTo
                                   /\ sessions'[s].family = sessions[s].family
    BY DEF Fades
  <2>2. DOMAIN sessions' = DOMAIN sessions BY DEF Fades
  <2> QED BY <2>1, <2>2 DEF Links
<1>5. CallsNameRows' BY DEF CallsNameRows, Fades
<1>6. MarkedIsLive' BY DEF MarkedIsLive, Marked, Live
<1> QED BY <1>1, <1>2, <1>3, <1>4, <1>5, <1>6

\* Users are registered ones: the row of a login names one of them.
LEMMA LoginKeeps ==
  ASSUME IdentityInv, NEW u \in Users, UNCHANGED call,
         sessions' = Append(sessions, CreateSession(u, Len(sessions) + 1))
  PROVE  IdentityInv'
<1> USE DEF IdentityInv, IdentityTypes
<1> DEFINE n == Len(sessions) + 1
<1>1. /\ n \in Nat /\ DOMAIN sessions = 1..(n - 1)
      /\ \A s \in DOMAIN sessions : sessions[s] \in Row
  OBVIOUS
<1>2. CreateSession(u, n) \in Row BY <1>1 DEF CreateSession, Row
<1>3. /\ DOMAIN sessions' = 1..n /\ sessions' \in Seq(Row)
      /\ \A s \in 1..(n - 1) : sessions'[s] = sessions[s]
      /\ sessions'[n] = CreateSession(u, n)
  BY <1>2
<1>4. /\ sessions'[n].family = n /\ sessions'[n].rotatedTo = 0 /\ ~sessions'[n].revoked
  BY <1>3 DEF CreateSession
<1> HIDE DEF n
<1>5. \A s \in 1..(n - 1) : sessions[s].family # n BY <1>1 DEF FamiliesAreOld, Row
<1>6. IdentityTypes' BY <1>3
<1>7. FamiliesAreOld' BY <1>1, <1>3, <1>4 DEF FamiliesAreOld
<1>8. OneLive' BY <1>1, <1>3, <1>4, <1>5 DEF OneLive, Live
<1>9. Links'
  <2>1. \A s \in DOMAIN sessions' : s \in DOMAIN sessions \/ s = n BY <1>1, <1>3
  <2>2. \A s \in DOMAIN sessions : s \in DOMAIN sessions' /\ sessions'[s] = sessions[s] BY <1>1, <1>3
  <2> QED BY <2>1, <2>2, <1>4 DEF Links
<1>10. CallsNameRows' BY <1>1, <1>3 DEF CallsNameRows
<1>11. MarkedIsLive' BY <1>1, <1>3 DEF MarkedIsLive, CallsNameRows, Marked, Live
<1> QED BY <1>6, <1>7, <1>8, <1>9, <1>10, <1>11

\* The rows after the commit of a rotation: the old row was live, is revoked and
\* points to the new one, which is live and of the same family.
LEMMA RotatedRows ==
  ASSUME IdentityInv, NEW c \in Callers, RefreshCommit(c), NEW n, n = Len(sessions) + 1,
         NEW old, old = call[c].sess
  PROVE  /\ n \in Nat \ {0} /\ DOMAIN sessions = 1..(n - 1)
         /\ old \in DOMAIN sessions /\ Live(old)
         /\ DOMAIN sessions' = 1..n /\ sessions' \in Seq(Row)
         /\ \A s \in 1..(n - 1) : s # old => sessions'[s] = sessions[s]
         /\ sessions'[old].family = sessions[old].family /\ sessions'[old].rotatedTo = n
         /\ sessions'[old].revoked /\ sessions'[n].family = sessions[old].family
         /\ sessions'[n].rotatedTo = 0
<1> USE DEF IdentityInv, IdentityTypes
<1> DEFINE row == sessions[old]
           new == CreateSession(row.user, row.family)
<1>1. /\ n \in Nat \ {0} /\ DOMAIN sessions = 1..(n - 1)
      /\ \A s \in DOMAIN sessions : sessions[s] \in Row
  OBVIOUS
<1>2. old \in DOMAIN sessions /\ Live(old)
  BY DEF RefreshCommit, CallsNameRows, MarkedIsLive, Marked
<1>3. sessions' = Append([sessions EXCEPT ![old].rotatedTo = n, ![old].revoked = TRUE], new)
  BY <1>2 DEF RefreshCommit, MarkSessionRotated, Live
<1>4. new \in Row BY <1>1, <1>2 DEF CreateSession, Row
<1>5. /\ new.family = row.family /\ new.rotatedTo = 0 /\ ~new.revoked
  BY DEF CreateSession
<1> DEFINE mid == [sessions EXCEPT ![old].rotatedTo = n, ![old].revoked = TRUE]
<1> HIDE DEF row, new
<1>7. /\ mid \in Seq(Row) /\ Len(mid) = n - 1
      /\ \A s \in 1..(n - 1) : s # old => mid[s] = sessions[s]
      /\ mid[old].family = sessions[old].family /\ mid[old].rotatedTo = n /\ mid[old].revoked
  <2>1. DOMAIN mid = 1..(n - 1) BY <1>1
  <2>2. \A s \in 1..(n - 1) : s # old => mid[s] = sessions[s] BY <1>1
  <2>3. mid[old] = [sessions[old] EXCEPT !.rotatedTo = n, !.revoked = TRUE] BY <1>2
  <2>4. mid[old] \in Row BY <1>1, <1>2, <2>3 DEF Row
  <2>5. mid[old].family = sessions[old].family /\ mid[old].rotatedTo = n /\ mid[old].revoked
    BY <1>1, <1>2, <2>3 DEF Row
  <2>6. Len(sessions) = n - 1 /\ Len(sessions) \in Nat OBVIOUS
  <2>7. mid \in Seq(Row)
    <3>1. mid = [s \in 1..(n - 1) |-> mid[s]] BY <2>1
    <3>2. \A s \in 1..(n - 1) : mid[s] \in Row BY <1>1, <2>2, <2>4
    <3>3. \A m \in Nat : \A f \in [1..m -> Row] : f \in Seq(Row) OBVIOUS
    <3>4. mid \in [1..(n - 1) -> Row] BY <3>1, <3>2
    <3>5. n - 1 \in Nat BY <1>1
    <3> HIDE DEF mid
    <3> QED BY <3>3, <3>4, <3>5
  <2> QED BY <2>1, <2>2, <2>5, <2>6, <2>7
<1> HIDE DEF mid
<1>8. /\ DOMAIN sessions' = 1..n /\ sessions' \in Seq(Row)
      /\ \A s \in 1..(n - 1) : sessions'[s] = mid[s]
      /\ sessions'[n] = new
  <2>1. sessions' = Append(mid, new) BY <1>3 DEF mid
  <2>2. mid \in Seq(Row) /\ Len(mid) = n - 1 /\ n \in Nat \ {0} BY <1>1, <1>7
  <2>3. DOMAIN mid = 1..(n - 1) BY <2>2
  <2> QED BY <2>1, <2>2, <2>3, <1>4
<1>9. /\ \A s \in 1..(n - 1) : s # old => sessions'[s] = sessions[s]
      /\ sessions'[old].family = sessions[old].family /\ sessions'[old].rotatedTo = n
      /\ sessions'[old].revoked /\ sessions'[n].family = sessions[old].family
      /\ sessions'[n].rotatedTo = 0
  BY <1>1, <1>2, <1>5, <1>7, <1>8 DEF row
<1> QED BY <1>1, <1>2, <1>8, <1>9

\* The commit of a rotation: the old row was live until now, so the new row is the
\* only live one of the family, and no other row points to it.
LEMMA RotationKeeps ==
  ASSUME IdentityInv, NEW c \in Callers, RefreshCommit(c)
  PROVE  IdentityInv'
<1> USE DEF IdentityInv, IdentityTypes
<1> DEFINE n == Len(sessions) + 1
           old == call[c].sess
<1>1. /\ n \in Nat \ {0} /\ DOMAIN sessions = 1..(n - 1)
      /\ \A s \in DOMAIN sessions : sessions[s] \in Row
  OBVIOUS
<1>6. call' \in [Callers -> CallState] /\ \A d \in Callers : call'[d] = IF d = c THEN Idle ELSE call[d]
  BY CallFields DEF RefreshCommit
<1> HIDE DEF n, old
<1>2. old \in DOMAIN sessions /\ Live(old) BY RotatedRows DEF n, old
<1>8. DOMAIN sessions' = 1..n /\ sessions' \in Seq(Row) BY RotatedRows DEF n, old
<1>9. /\ \A s \in 1..(n - 1) : s # old => sessions'[s] = sessions[s]
      /\ sessions'[old].family = sessions[old].family /\ sessions'[old].rotatedTo = n
      /\ sessions'[old].revoked /\ sessions'[n].family = sessions[old].family
      /\ sessions'[n].rotatedTo = 0
  BY RotatedRows DEF n, old
<1>10. \A s \in 1..n : s \in DOMAIN sessions \/ s = n BY <1>1
<1>11. IdentityTypes' BY <1>6, <1>8
<1>12. FamiliesAreOld'
  <2>1. \A s \in DOMAIN sessions : sessions'[s].family = sessions[s].family
    BY <1>1, <1>9
  <2>2. sessions[old].family <= old /\ old \in Nat /\ old < n /\ sessions[old].family \in Nat
    BY <1>1, <1>2 DEF FamiliesAreOld, Row
  <2>3. sessions'[n].family <= n BY <2>2, <1>1, <1>9
  <2> QED BY <2>1, <2>3, <1>8, <1>10 DEF FamiliesAreOld
<1>13. OneLive'
  <2>1. \A s \in DOMAIN sessions : s # old => sessions'[s] = sessions[s] BY <1>1, <1>9
  <2>2. \A s \in DOMAIN sessions : ~sessions'[s].revoked =>
          s # old /\ ~sessions[s].revoked /\ sessions[s].family # sessions[old].family
    BY <2>1, <1>2, <1>9 DEF OneLive, Live
  <2>3. SUFFICES ASSUME NEW s \in 1..n, NEW t \in 1..n,
                        sessions'[s].family = sessions'[t].family,
                        ~sessions'[s].revoked, ~sessions'[t].revoked
                 PROVE  s = t
    BY <1>8 DEF OneLive, Live
  <2>4. CASE s \in DOMAIN sessions /\ t \in DOMAIN sessions BY <2>1, <2>2, <2>3, <2>4 DEF OneLive, Live
  <2>5. CASE s = n /\ t \in DOMAIN sessions BY <2>1, <2>2, <2>3, <2>5, <1>9
  <2>6. CASE s \in DOMAIN sessions /\ t = n BY <2>1, <2>2, <2>3, <2>6, <1>9
  <2> QED BY <2>4, <2>5, <2>6, <1>10
<1>14. Links'
  <2>1. \A s \in DOMAIN sessions : sessions'[s].family = sessions[s].family BY <1>1, <1>9
  <2>2. \A s \in DOMAIN sessions : s # old => sessions'[s].rotatedTo = sessions[s].rotatedTo
    BY <1>1, <1>9
  <2>3. old < n /\ n \notin DOMAIN sessions BY <1>1, <1>2
  <2>4. \A s \in DOMAIN sessions : s # old => sessions'[s].rotatedTo # n
    BY <2>2, <2>3, <1>1 DEF Links
  <2>5. ASSUME NEW s \in 1..n, sessions'[s].rotatedTo # 0
        PROVE  /\ sessions'[s].rotatedTo \in 1..n /\ s < sessions'[s].rotatedTo
               /\ sessions'[sessions'[s].rotatedTo].family = sessions'[s].family
    <3>1. CASE s = old BY <3>1, <2>3, <1>1, <1>9
    <3>2. CASE s \in DOMAIN sessions /\ s # old
      <4>1. /\ sessions[s].rotatedTo \in DOMAIN sessions /\ s < sessions[s].rotatedTo
            /\ sessions[sessions[s].rotatedTo].family = sessions[s].family
        BY <2>2, <2>5, <3>2 DEF Links
      <4> QED BY <4>1, <3>2, <2>1, <2>2, <1>1
    <3> QED BY <3>1, <3>2, <2>5, <1>9, <1>10
  <2>6. ASSUME NEW s \in 1..n, NEW t \in 1..n, sessions'[s].rotatedTo # 0,
               sessions'[s].rotatedTo = sessions'[t].rotatedTo
        PROVE  s = t
    <3>1. s # n /\ t # n BY <2>6, <1>9
    <3>2. s \in DOMAIN sessions /\ t \in DOMAIN sessions BY <3>1, <1>10
    <3>3. CASE s = old \/ t = old BY <3>2, <3>3, <2>4, <2>6, <1>9
    <3>4. CASE s # old /\ t # old BY <3>2, <3>4, <2>2, <2>6 DEF Links
    <3> QED BY <3>3, <3>4
  <2> QED BY <2>5, <2>6, <1>8 DEF Links
<1>15. CallsNameRows' BY <1>1, <1>6, <1>8, CallFields DEF CallsNameRows
<1>16. MarkedIsLive'
  <2>1. \A d \in Callers : call'[d].at = "marked" => d # c /\ call[d].at = "marked" /\ call'[d] = call[d]
    BY <1>6, CallFields
  <2>2. \A d \in Callers : call'[d].at = "marked" => call[d].sess # old
    BY <2>1 DEF MarkedIsLive, Marked, RefreshCommit, old
  <2>3. \A d \in Callers : call'[d].at = "marked" => ~sessions'[call'[d].sess].revoked
    BY <2>1, <2>2, <1>1, <1>9 DEF MarkedIsLive, Marked, Live, CallsNameRows
  <2> QED BY <2>1, <2>3 DEF MarkedIsLive, Marked, Live
<1> QED BY <1>11, <1>12, <1>13, <1>14, <1>15, <1>16
--------------------------------------------------------
\* The UPDATE of a family ends: its rows are revoked, and none of them is marked.
LEMMA RevocationKeeps ==
  ASSUME IdentityInv, NEW c \in Callers, RevokeEnd(c)
  PROVE  IdentityInv' /\ Fades(sessions')
<1> DEFINE snap == call[c].snap
           R == RevokeSessionFamily(snap)
<1>1. sessions \in Seq(Row) /\ call \in [Callers -> CallState] BY DEF IdentityInv, IdentityTypes
<1>2. sessions' = R /\ \A s \in snap : ~Locked(s) BY DEF RevokeEnd
<1>3. DOMAIN R = DOMAIN sessions /\ \A s \in DOMAIN sessions :
        R[s] = IF s \in snap THEN [sessions[s] EXCEPT !.revoked = TRUE] ELSE sessions[s]
  BY DEF RevokeSessionFamily
<1> HIDE DEF snap, R
<1>4. \A s \in DOMAIN sessions : sessions[s] \in Row BY <1>1
<1>5. \A x \in Row : LET y == [x EXCEPT !.revoked = TRUE]
                     IN  /\ y \in Row /\ y.user = x.user /\ y.family = x.family
                         /\ y.rotatedTo = x.rotatedTo /\ y.revoked
  BY DEF Row
<1>6. \A s \in DOMAIN sessions :
        /\ R[s] \in Row /\ R[s].user = sessions[s].user /\ R[s].family = sessions[s].family
        /\ R[s].rotatedTo = sessions[s].rotatedTo /\ (sessions[s].revoked => R[s].revoked)
  BY <1>3, <1>4, <1>5
<1>7. R \in Seq(Row)
  <2>1. DOMAIN sessions = 1..Len(sessions) /\ Len(sessions) \in Nat BY <1>1
  <2>2. \A m \in Nat : \A f \in [1..m -> Row] : f \in Seq(Row) OBVIOUS
  <2>3. R = [s \in DOMAIN sessions |-> R[s]] BY DEF R, RevokeSessionFamily
  <2>4. R \in [1..Len(sessions) -> Row] BY <2>1, <2>3, <1>6
  <2> QED BY <2>1, <2>2, <2>4
<1>8. Fades(R) BY <1>3, <1>6, <1>7 DEF Fades
<1>9. \A d \in Callers : Marked(d) => call[d].sess \in DOMAIN sessions /\ call[d].sess \notin snap
  BY <1>2 DEF Locked, Marked, IdentityInv, CallsNameRows
<1>10. \A d \in Callers : Marked(d) => ~R[call[d].sess].revoked
  BY <1>3, <1>9 DEF IdentityInv, MarkedIsLive, Live
<1>11. \A d \in Callers : call'[d] = IF d = c THEN Idle ELSE call[d]
  BY <1>1 DEF RevokeEnd
<1>12. call' \in [Callers -> CallState] BY <1>1, CallFields DEF RevokeEnd
<1>13. IdentityTypes' BY <1>2, <1>7, <1>12 DEF IdentityTypes
<1>14. FamiliesAreOld' BY <1>2, <1>3, <1>6 DEF FamiliesAreOld, IdentityInv
<1>15. OneLive' BY <1>2, <1>3, <1>6 DEF OneLive, Live, IdentityInv
<1>16. Links' BY <1>2, <1>3, <1>6 DEF Links, IdentityInv
<1>17. CallsNameRows' BY <1>2, <1>3, <1>11, CallFields DEF CallsNameRows, IdentityInv
<1>18. MarkedIsLive' BY <1>2, <1>10, <1>11, CallFields DEF MarkedIsLive, Marked, Live, IdentityInv
<1> QED BY <1>2, <1>8, <1>13, <1>14, <1>15, <1>16, <1>17, <1>18 DEF IdentityInv

\* A session expires: nothing else of it changes.
LEMMA ExpiryKeeps ==
  ASSUME IdentityInv, NEW x \in DOMAIN sessions, SessionExpires(x)
  PROVE  IdentityInv' /\ Fades(sessions')
<1>1. sessions \in Seq(Row) BY DEF IdentityInv, IdentityTypes
<1>2. sessions' = [sessions EXCEPT ![x].expired = TRUE] /\ call' = call
  BY DEF SessionExpires
<1>3. DOMAIN sessions' = DOMAIN sessions /\ \A s \in DOMAIN sessions :
        sessions'[s] = IF s = x THEN [sessions[s] EXCEPT !.expired = TRUE] ELSE sessions[s]
  BY <1>1, <1>2
<1>4. \A s \in DOMAIN sessions : sessions[s] \in Row BY <1>1
<1>5. \A r \in Row : LET y == [r EXCEPT !.expired = TRUE]
                     IN  /\ y \in Row /\ y.user = r.user /\ y.family = r.family
                         /\ y.rotatedTo = r.rotatedTo /\ y.revoked = r.revoked
  BY DEF Row
<1>6. \A s \in DOMAIN sessions :
        /\ sessions'[s] \in Row /\ sessions'[s].user = sessions[s].user
        /\ sessions'[s].family = sessions[s].family
        /\ sessions'[s].rotatedTo = sessions[s].rotatedTo
        /\ sessions'[s].revoked = sessions[s].revoked
  BY <1>3, <1>4, <1>5
<1>7. sessions' \in Seq(Row)
  <2>1. DOMAIN sessions = 1..Len(sessions) /\ Len(sessions) \in Nat BY <1>1
  <2>2. \A m \in Nat : \A f \in [1..m -> Row] : f \in Seq(Row) OBVIOUS
  <2>3. sessions' = [s \in DOMAIN sessions |-> sessions'[s]] BY <1>1, <1>2
  <2>4. sessions' \in [1..Len(sessions) -> Row] BY <2>1, <2>3, <1>6
  <2> QED BY <2>1, <2>2, <2>4
<1>8. Fades(sessions') BY <1>3, <1>6, <1>7 DEF Fades
<1>9. \A d \in Callers : Marked(d) => ~sessions'[call[d].sess].revoked
  BY <1>6 DEF IdentityInv, MarkedIsLive, CallsNameRows, Marked, Live
<1> QED BY <1>2, <1>8, <1>9, RowsFade

\* A rotation takes the lock of a live row that nobody else holds.
LEMMA MarkKeeps ==
  ASSUME IdentityInv, NEW c \in Callers, RefreshMark(c)
  PROVE  IdentityInv'
<1>1. sessions \in Seq(Row) /\ call \in [Callers -> CallState] BY DEF IdentityInv, IdentityTypes
<1>2. call[c].at = "read" /\ ~Locked(call[c].sess) /\ UNCHANGED sessions BY DEF RefreshMark
<1>3. CASE call' = [call EXCEPT ![c] = Idle]
  BY <1>2, <1>3, CallFields, CallsMove
<1>4. CASE /\ MarkSessionRotated(call[c].sess, MaxSessions) # sessions
           /\ call' = [call EXCEPT ![c].at = "marked"]
  <2>1. Live(call[c].sess) BY <1>4 DEF MarkSessionRotated, Live
  <2>2. call[c] \in CallState BY <1>1
  <2>3. \A d \in Callers : d # c => call'[d] = call[d] BY <1>1, <1>4
  <2>4. /\ call'[c] \in CallState /\ call'[c].at = "marked" /\ call'[c].sess = call[c].sess
    <3>1. call'[c] = [call[c] EXCEPT !.at = "marked"] BY <1>1, <1>4
    <3> QED BY <3>1, <2>2, <1>2, CallFields
  <2>5. call' \in [Callers -> CallState]
    <3>1. \A d \in Callers : call'[d] \in CallState BY <2>3, <2>4, <1>1
    <3>2. call' = [d \in Callers |-> call'[d]] BY <1>1, <1>4
    <3> QED BY <3>1, <3>2
  <2>6. \A d \in Callers : Marked(d) => call[d].sess # call[c].sess BY <1>2 DEF Locked, Marked
  <2>7. IdentityTypes' BY <2>5, <1>1, <1>2 DEF IdentityTypes
  <2>8. (FamiliesAreOld /\ OneLive /\ Links)'
    BY <1>2 DEF FamiliesAreOld, OneLive, Links, Live, IdentityInv
  <2>9. CallsNameRows' BY <2>3, <2>4, <1>2 DEF CallsNameRows, IdentityInv
  <2>10. MarkedIsLive'
    BY <2>1, <2>3, <2>4, <2>6, <1>2 DEF MarkedIsLive, Marked, Live, IdentityInv
  <2> QED BY <2>7, <2>8, <2>9, <2>10 DEF IdentityInv
<1> QED BY <1>3, <1>4 DEF RefreshMark

\* There is no token at the start.
LEMMA IdentityStart == IdentityInit => IdentityInv
<1> SUFFICES ASSUME IdentityInit PROVE IdentityInv OBVIOUS
<1>1. sessions = <<>> /\ call = [c \in Callers |-> Idle] BY DEF IdentityInit
<1>2. IdentityTypes BY <1>1, CallFields DEF IdentityTypes
<1>3. DOMAIN sessions = {} BY <1>1
<1>4. \A c \in Callers : call[c].at = "idle" BY <1>1, CallFields
<1> QED BY <1>2, <1>3, <1>4
  DEF IdentityInv, FamiliesAreOld, OneLive, Links, CallsNameRows, MarkedIsLive, Marked

\* The start of a refresh, a logout or a revocation, and the snapshot of an UPDATE.
LEMMA ReadsKeep ==
  ASSUME IdentityInv, NEW c \in Callers,
         \/ \E s \in DOMAIN sessions : RefreshRead(c, s) \/ LogoutRead(c, s)
         \/ RefreshFails(c) \/ RevokeStart(c)
  PROVE  IdentityInv' /\ UNCHANGED sessions
<1>1. /\ sessions \in Seq(Row) /\ call \in [Callers -> CallState]
      /\ DOMAIN sessions \subseteq Nat
      /\ \A s \in DOMAIN sessions : sessions[s].family \in Nat
  <2>1. sessions \in Seq(Row) /\ call \in [Callers -> CallState] BY DEF IdentityInv, IdentityTypes
  <2>2. \A s \in DOMAIN sessions : s \in Nat /\ sessions[s] \in Row BY <2>1
  <2> QED BY <2>1, <2>2 DEF Row
<1>2. UNCHANGED sessions BY DEF RefreshRead, LogoutRead, RefreshFails, RevokeStart
<1>3. ASSUME NEW s \in DOMAIN sessions, RefreshRead(c, s) \/ LogoutRead(c, s)
      PROVE  IdentityInv'
  <2>1. CASE call' = [call EXCEPT ![c] = [at |-> "kill", family |-> GetSession(s).family]]
    BY <1>1, <1>2, <2>1, CallFields, CallsMove DEF GetSession
  <2>2. CASE call' = [call EXCEPT ![c] = [at |-> "read", sess |-> s]]
    BY <1>1, <1>2, <2>2, CallFields, CallsMove
  <2> QED BY <1>3, <2>1, <2>2 DEF RefreshRead, LogoutRead
<1>4. CASE RefreshFails(c) BY <1>2, <1>4, CallFields, CallsMove DEF RefreshFails
<1>5. CASE RevokeStart(c)
  <2>1. call' = [call EXCEPT ![c] = [at |-> "revoke", snap |-> Family(call[c].family)]]
    BY <1>1, <1>5 DEF RevokeStart
  <2>2. Family(call[c].family) \in SUBSET Nat BY <1>1 DEF Family
  <2> QED BY <2>1, <2>2, <1>2, CallFields, CallsMove
<1> QED BY <1>2, <1>3, <1>4, <1>5

\* Every step of the identity service keeps the invariant.
LEMMA IdentityStep == IdentityInv /\ [IdentityNext]_ivars => IdentityInv'
<1> SUFFICES ASSUME IdentityInv, [IdentityNext]_ivars PROVE IdentityInv' OBVIOUS
<1>1. CASE UNCHANGED <<sessions, call>>
  BY <1>1 DEF IdentityInv, IdentityTypes, FamiliesAreOld, OneLive, Links, Live, CallsNameRows,
              MarkedIsLive, Marked
<1>2. ASSUME NEW u \in Users, Register(u) \/ Login(u) PROVE IdentityInv'
  BY <1>1, <1>2, LoginKeeps DEF Register, Login
<1>3. ASSUME NEW c \in Callers, NEW s \in DOMAIN sessions,
             \/ RefreshRead(c, s) \/ LogoutRead(c, s)
             \/ \E u \in Users : RevokeSessionRead(c, u, s)
      PROVE  IdentityInv'
  BY <1>3, ReadsKeep DEF RevokeSessionRead
<1>4. ASSUME NEW c \in Callers, RefreshMark(c) \/ RefreshCommit(c) \/ RefreshFails(c)
                                \/ RevokeStart(c) \/ RevokeEnd(c)
      PROVE  IdentityInv'
  BY <1>4, MarkKeeps, RotationKeeps, RevocationKeeps, ReadsKeep
<1>5. ASSUME NEW s \in DOMAIN sessions, SessionExpires(s) PROVE IdentityInv'
  BY <1>5, ExpiryKeeps
<1>6. CASE \E t \in tokens : TokenExpires(t) BY <1>1, <1>6 DEF TokenExpires
<1> QED BY <1>1, <1>2, <1>3, <1>4, <1>5, <1>6 DEF IdentityNext, ivars

\* The invariant of the token families.
LEMMA IdentityInvariant == IdentitySpec => []IdentityInv
BY IdentityStart, IdentityStep, PTL DEF IdentitySpec

\* SingleHolder holds of every run of the identity service, for any number of users,
\* callers and sessions: a family has one live refresh token at most, and a rotated
\* token one successor of its own (Refresh, MarkSessionRotated).
THEOREM SingleHolderHolds == IdentitySpec => []SingleHolder
<1>1. IdentityInv => SingleHolder
  <2> SUFFICES ASSUME IdentityInv PROVE SingleHolder OBVIOUS
  <2>1. \A s \in DOMAIN sessions : sessions[s] \in Row /\ s \in Nat \ {0}
    BY DEF IdentityInv, IdentityTypes
  <2>2. ASSUME NEW s \in DOMAIN sessions, NEW t \in DOMAIN sessions
        PROVE  /\ sessions[s].family = sessions[t].family /\ Live(s) /\ Live(t) => s = t
               /\ sessions[s].rotatedTo = t => sessions[t].family = sessions[s].family /\ s < t
               /\ sessions[s].rotatedTo # 0 /\ sessions[s].rotatedTo = sessions[t].rotatedTo => s = t
    BY <2>1 DEF IdentityInv, OneLive, Links
  <2>3. ASSUME NEW u \in Users, NEW s \in DOMAIN sessions
        PROVE  s \in ListActiveSessions(u) <=>
                 sessions[s].user = u /\ DecideRefresh(sessions[s]) = "rotate"
    BY DEF ListActiveSessions, DecideRefresh, Live
  <2> QED BY <2>2, <2>3 DEF SingleHolder
<1> QED BY <1>1, IdentityInvariant, PTL

\* NoRevival holds of every run: once no token of a family is live, none ever is
\* again, whatever rotation of it was under way (Refresh, RevokeSessionFamily).
THEOREM NoRevivalHolds == IdentitySpec => NoRevival
<1> DEFINE Stays(f) ==
      Family(f) # {} /\ (\A s \in Family(f) : ~Live(s)) =>
        \A s \in DOMAIN sessions' : sessions'[s].family = f => sessions'[s].revoked
<1>1. ASSUME IdentityInv, [IdentityNext]_ivars, NEW f \in 1..MaxSessions
      PROVE  Stays(f)
  <2>1. CASE Fades(sessions') \/ UNCHANGED sessions BY <2>1 DEF Fades, Family, Live
  <2>2. ASSUME NEW u \in Users, Login(u) PROVE Stays(f)
    <3>1. sessions \in Seq(Row) BY <1>1 DEF IdentityInv, IdentityTypes
    <3>2. /\ DOMAIN sessions' = 1..(Len(sessions) + 1)
          /\ \A s \in DOMAIN sessions : sessions'[s] = sessions[s]
          /\ sessions'[Len(sessions) + 1].family = Len(sessions) + 1
      BY <2>2, <3>1 DEF Login, CreateSession
    <3>3. \A s \in DOMAIN sessions : sessions[s].family # Len(sessions) + 1
      BY <1>1, <3>1 DEF IdentityInv, FamiliesAreOld, Row
    <3>4. \A s \in DOMAIN sessions' : s \in DOMAIN sessions \/ s = Len(sessions) + 1
      BY <3>1, <3>2
    <3> QED BY <3>2, <3>3, <3>4 DEF Family, Live
  <2>3. ASSUME NEW c \in Callers, RefreshCommit(c) PROVE Stays(f)
    <3> DEFINE old == call[c].sess
    <3>1. sessions \in Seq(Row) /\ old \in DOMAIN sessions /\ Live(old)
      BY <1>1, <2>3 DEF IdentityInv, IdentityTypes, CallsNameRows, MarkedIsLive, Marked, RefreshCommit
    <3>2. CASE sessions[old].family = f BY <3>1, <3>2 DEF Family
    <3>3. CASE sessions[old].family # f
      <4> DEFINE n == Len(sessions) + 1
      <4> HIDE DEF n, old
      <4>1. /\ n \in Nat \ {0} /\ DOMAIN sessions = 1..(n - 1) /\ DOMAIN sessions' = 1..n
            /\ \A s \in 1..(n - 1) : s # old => sessions'[s] = sessions[s]
            /\ sessions'[old].family = sessions[old].family
            /\ sessions'[n].family = sessions[old].family
        BY <1>1, <2>3, RotatedRows DEF n, old
      <4>2. \A s \in DOMAIN sessions' : s \in DOMAIN sessions \/ s = n BY <4>1
      <4>3. \A s \in DOMAIN sessions' : sessions'[s].family = f =>
              s \in DOMAIN sessions /\ s # old /\ sessions'[s] = sessions[s]
        BY <4>1, <4>2, <3>3
      <4> QED BY <4>3 DEF Family, Live
    <3> QED BY <3>2, <3>3
  <2>4. ASSUME NEW c \in Callers, RevokeEnd(c) PROVE Stays(f)
    BY <1>1, <2>1, <2>4, RevocationKeeps
  <2>5. ASSUME NEW s \in DOMAIN sessions, SessionExpires(s) PROVE Stays(f)
    BY <1>1, <2>1, <2>5, ExpiryKeeps
  <2>6. ASSUME NEW c \in Callers, RefreshMark(c) \/ RefreshFails(c) \/ RevokeStart(c)
        PROVE  Stays(f)
    BY <2>1, <2>6 DEF RefreshMark, RefreshFails, RevokeStart
  <2>7. ASSUME NEW c \in Callers, NEW s \in DOMAIN sessions,
               \/ RefreshRead(c, s) \/ LogoutRead(c, s)
               \/ \E u \in Users : RevokeSessionRead(c, u, s)
        PROVE  Stays(f)
    BY <2>1, <2>7 DEF RefreshRead, LogoutRead, RevokeSessionRead
  <2>8. CASE \/ UNCHANGED ivars \/ \E t \in tokens : TokenExpires(t)
             \/ \E u \in Users : Register(u)
    BY <2>1, <2>8 DEF ivars, TokenExpires, Register
  <2> HIDE DEF Stays
  <2> QED BY <1>1, <2>2, <2>3, <2>4, <2>5, <2>6, <2>7, <2>8 DEF IdentityNext
<1>2. IdentityInv /\ [IdentityNext]_ivars => [\A f \in 1..MaxSessions : Stays(f)]_ivars
  BY <1>1
<1> QED BY <1>2, IdentityInvariant, PTL DEF IdentitySpec, NoRevival

-----------------------------------------------------------------------------
(* The route table, the claims and the error codes *)

\* The table: a route that is not a read calls a method that is not retried.
LEMMA WritesAreNotRetried ==
  \A r \in DOMAIN Table :
    /\ Table[r].class # "read" => handlerTable[r].method \notin retryableReads
    /\ Table[r].idem \in BOOLEAN
<1>1. DOMAIN Table = {"register", "login", "refresh", "logout", "getMe", "openAccount",
                      "listAccounts", "listTransactions", "topup", "createTransfer",
                      "getTransfer", "listTransfers", "getRates", "adminListAccounts",
                      "freeze", "unfreeze"}
  BY DEF Table
<1>2. \A r \in DOMAIN Table : Table[r].idem \in BOOLEAN
  <2>1. Public.idem = FALSE /\ Money.idem = TRUE BY DEF Public, Money
  <2>2. \A x : Read(x).idem = FALSE /\ Write(x).idem = FALSE BY DEF Read, Write
  <2> HIDE DEF Public, Money, Read, Write
  <2>3. \A r \in DOMAIN Table : \/ Table[r] = Public \/ Table[r] = Money
                                \/ \E x : Table[r] = Read(x) \/ Table[r] = Write(x)
    BY <1>1 DEF Table
  <2> QED BY <2>1, <2>2, <2>3
<1>3. \A r \in DOMAIN Table : Table[r].class # "read" =>
        r \in {"register", "login", "refresh", "logout", "openAccount", "topup",
               "createTransfer", "freeze", "unfreeze"}
  BY <1>1 DEF Table, Public, Read, Write, Money
<1>4. /\ DOMAIN AuthHandlers = {"register", "login", "refresh", "logout", "getMe"}
      /\ DOMAIN AccountHandlers = {"openAccount", "listAccounts", "listTransactions"}
      /\ DOMAIN TransferHandlers = {"topup", "createTransfer", "getTransfer", "listTransfers",
                                    "getRates"}
      /\ DOMAIN AdminHandlers = {"adminListAccounts", "freeze", "unfreeze"}
  BY DEF AuthHandlers, AccountHandlers, TransferHandlers, AdminHandlers
<1>5. /\ \A r \in {"register", "login", "refresh", "logout"} : handlerTable[r] = AuthHandlers[r]
      /\ handlerTable["openAccount"] = AccountHandlers["openAccount"]
  BY <1>1, <1>4 DEF handlerTable
<1>6. \A r \in {"topup", "createTransfer"} : handlerTable[r] = TransferHandlers[r]
  BY <1>1, <1>4 DEF handlerTable
<1>7. \A r \in {"freeze", "unfreeze"} : handlerTable[r] = AdminHandlers[r]
  BY <1>1, <1>4 DEF handlerTable
<1>8. \A r \in {"register", "login", "refresh", "logout"} :
        AuthHandlers[r].method \in {"Register", "Login", "Refresh", "Logout"}
  BY DEF AuthHandlers, Handler
<1>9. AccountHandlers["openAccount"].method = "OpenAccount" BY DEF AccountHandlers, Handler
<1>10. \A r \in {"topup", "createTransfer"} : TransferHandlers[r].method = "CreateTransfer"
  BY DEF TransferHandlers, Handler
<1>11. \A r \in {"freeze", "unfreeze"} : AdminHandlers[r].method \in {"Freeze", "Unfreeze"}
  BY DEF AdminHandlers, Handler
<1>12. retryableReads \cap {"Register", "Login", "Refresh", "Logout", "OpenAccount",
                            "CreateTransfer", "Freeze", "Unfreeze"} = {}
  BY DEF retryableReads
<1>13. \A r \in DOMAIN Table : Table[r].class # "read" =>
         handlerTable[r].method \in {"Register", "Login", "Refresh", "Logout", "OpenAccount",
                                     "CreateTransfer", "Freeze", "Unfreeze"}
  <2> SUFFICES ASSUME NEW r \in DOMAIN Table, Table[r].class # "read"
               PROVE  handlerTable[r].method \in {"Register", "Login", "Refresh", "Logout",
                        "OpenAccount", "CreateTransfer", "Freeze", "Unfreeze"}
    OBVIOUS
  <2>1. CASE r \in {"register", "login", "refresh", "logout"} BY <2>1, <1>5, <1>8
  <2>2. CASE r = "openAccount" BY <2>2, <1>5, <1>9
  <2>3. CASE r \in {"topup", "createTransfer"} BY <2>3, <1>6, <1>10
  <2>4. CASE r \in {"freeze", "unfreeze"} BY <2>4, <1>7, <1>11
  <2> QED BY <2>1, <2>2, <2>3, <2>4, <1>3
<1> QED BY <1>2, <1>12, <1>13

\* What a service hears of the caller is what the gateway put into the context.
LEMMA ClaimsArrive ==
  /\ req.idemKey \in BOOLEAN => Claims.idemKey = req.idemKey
  /\ req.claims.user # "" /\ req.claims.roles # {} =>
       Claims.user = req.claims.user /\ Claims.roles = req.claims.roles
<1>1. /\ "x-customer-id" \in DOMAIN Metadata <=> req.claims.user # ""
      /\ "x-roles" \in DOMAIN Metadata <=> req.claims.user # "" /\ req.claims.roles # {}
      /\ "x-idempotency-key" \in DOMAIN Metadata <=> req.idemKey
      /\ "x-customer-id" \in DOMAIN Metadata => Metadata["x-customer-id"] = req.claims.user
      /\ "x-roles" \in DOMAIN Metadata => Metadata["x-roles"] = req.claims.roles
      /\ "x-idempotency-key" \in DOMAIN Metadata => Metadata["x-idempotency-key"] = TRUE
  BY DEF Metadata
<1>2. /\ Claims.user = IF "x-customer-id" \in DOMAIN Metadata THEN Metadata["x-customer-id"] ELSE ""
      /\ Claims.roles = IF "x-roles" \in DOMAIN Metadata THEN Metadata["x-roles"] ELSE {}
      /\ Claims.idemKey = IF "x-idempotency-key" \in DOMAIN Metadata
                          THEN Metadata["x-idempotency-key"] ELSE FALSE
  BY DEF Claims
<1> QED BY <1>1, <1>2

\* A typed error of a service comes back under its own code, its deadline as 503 and
\* any other error as 500.
LEMMA CodesReturn ==
  /\ \A err \in Code : FromGRPC(ToGRPC(err)) = err /\ err \notin {"none", "OK", "deadline", "other"}
  /\ FromGRPC(Unavailable) = "UPSTREAM_UNAVAILABLE"
  /\ FromGRPC(ToGRPC("deadline")) = "UPSTREAM_UNAVAILABLE"
  /\ FromGRPC(ToGRPC("other")) = "INTERNAL"
  /\ httpStatus("UPSTREAM_UNAVAILABLE") = 503 /\ httpStatus("INTERNAL") = 500
<1>1. \A err \in Code : err \notin {"none", "OK", "deadline", "other"} BY DEF Code, Preconditions
<1>2. \A err \in Code : ToGRPC(err).reason = err BY DEF ToGRPC
<1>3. \A st : st.reason # "" => FromGRPC(st) = st.reason BY DEF FromGRPC
<1>6. \A err \in Code : FromGRPC(ToGRPC(err)) = err
  <2>1. \A err \in Code : err # "" BY DEF Code, Preconditions
  <2> QED BY <2>1, <1>2, <1>3, Zenon
<1>4. FromGRPC(Unavailable) = "UPSTREAM_UNAVAILABLE"
  BY DEF FromGRPC, Unavailable, Ambiguous
<1>5. httpStatus("UPSTREAM_UNAVAILABLE") = 503 /\ httpStatus("INTERNAL") = 500
  BY DEF httpStatus, Preconditions
<1>7. /\ ToGRPC("deadline") = [code |-> "DEADLINE_EXCEEDED", reason |-> ""]
      /\ ToGRPC("other") = [code |-> "INTERNAL", reason |-> ""]
  BY <1>1 DEF ToGRPC
<1>8. /\ FromGRPC([code |-> "DEADLINE_EXCEEDED", reason |-> ""]) = "UPSTREAM_UNAVAILABLE"
      /\ FromGRPC([code |-> "INTERNAL", reason |-> ""]) = "INTERNAL"
  BY DEF FromGRPC, Ambiguous
<1> QED BY <1>1, <1>6, <1>4, <1>5, <1>7, <1>8

-----------------------------------------------------------------------------
(* The gateway: what a request carries at each stage of the chain.         *)

\* Tokens are signed for users that exist, with the roles they have.
TokensAreTrue ==
  /\ users = Seeded
  /\ tokens \subseteq signed
  /\ \A t \in signed : t.user \in DOMAIN Seeded /\ t.roles = Seeded[t.user]

Stage == {"done", "auth", "fetch", "install", "recheck", "verify", "limit", "ready", "sent"}

RequestTypes ==
  /\ req.at \in Stage
  /\ req.route \in Routes \cup {""}
  /\ req.idemKey \in BOOLEAN
  /\ req.tries \in Nat /\ req.reached \in Nat
  /\ DOMAIN req = DOMAIN Blank

\* Past the role check of a protected route the context holds the claims of a signed
\* token with a role that the route asks for.
Entitled(q) ==
  Table[q.route].roles # {} =>
    /\ q.token \in signed /\ Allowed(q.route, q.token.roles)
    /\ q.claims.user = q.token.user /\ q.claims.roles = q.token.roles

\* The request by its stage.
Staged ==
  /\ req.at # "done" => req.route \in Routes
  /\ req.at \in {"auth", "fetch", "install", "recheck", "verify", "limit"} => req.tries = 0
  /\ req.at \in {"limit", "ready", "sent"} => Entitled(req)
  /\ req.at \in {"ready", "sent"} => req.idemKey = Table[req.route].idem
  /\ req.at = "sent" => req.tries > 0

\* What an attempt presupposes, and how often a service may have executed the call.
Tried ==
  /\ req.tries = 0 => req.reached = 0
  /\ req.tries > 0 => req.route \in Routes /\ Entitled(req) /\ req.idemKey = Table[req.route].idem
  /\ Table[req.route].class # "read" =>
       req.reached <= 1 /\ (req.at \in {"ready", "sent"} => req.reached = 0)

\* What the gateway answers to a reply of the service, or to none.
Answer(reply) ==
  IF reply = "OK" THEN "OK"
  ELSE IF reply = "none" THEN "UPSTREAM_UNAVAILABLE" ELSE FromGRPC(ToGRPC(reply))

\* What the answer tells.  A write is tried once, so what was said to the last attempt
\* was said to the one that executed it.
Told ==
  /\ req.reply \in {"none", "OK"} \cup Refusals
  /\ req.tries = 0 => req.reply = "none"
  /\ req.at = "done" /\ req.tries > 0 => req.answer = Answer(req.reply)
  /\ req.at = "done" /\ req.tries = 0 /\ req.route # "" => req.answer # "OK"
  /\ req.at = "done" /\ req.reply = "OK" => req.reached > 0
  /\ req.at = "done" /\ req.reached > 0 /\ Table[req.route].class # "read" =>
       req.reply \in {"none", "OK"} \cup LateErrors(Method(req.route))

Chain == Staged /\ Tried /\ Told

GatewayInv == TokensAreTrue /\ RequestTypes /\ Chain

\* A field-by-field view of an updated request.
LEMMA BlankFields ==
  /\ DOMAIN Blank = {"at", "route", "token", "key", "claims", "idemKey", "doc", "tries",
                     "counted", "reached", "reply", "answer"}
  /\ Blank.at = "done" /\ Blank.route = "" /\ Blank.idemKey \in BOOLEAN /\ Blank.tries = 0
  /\ Blank.reached = 0 /\ Blank.reply = "none" /\ Blank.tries \in Nat /\ Blank.reached \in Nat
  /\ ~(Blank.tries > 0) /\ ~(Blank.reached > 0) /\ Blank.reached <= 1
BY DEF Blank

\* No request is under way at the start.
LEMMA GatewayStart == Init => GatewayInv
<1> SUFFICES ASSUME Init PROVE GatewayInv OBVIOUS
<1>1. users = Seeded /\ signed = {} /\ tokens = {} /\ req = Blank
  BY DEF Init, IdentityInit, GatewayInit
<1>2. TokensAreTrue BY <1>1 DEF TokensAreTrue
<1>3. RequestTypes BY <1>1, BlankFields DEF RequestTypes, Stage
<1>4. Staged BY <1>1, BlankFields DEF Staged
<1>5. Tried BY <1>1, BlankFields DEF Tried
<1>6. Told BY <1>1, BlankFields DEF Told
<1> QED BY <1>2, <1>3, <1>4, <1>5, <1>6 DEF GatewayInv, Chain

\* A request that ends before its first attempt.
LEMMA ProblemKeeps ==
  ASSUME RequestTypes, Chain, NEW code, code # "OK", Problem(code), req.at # "done",
         req.tries = 0, UNCHANGED ivars
  PROVE  RequestTypes' /\ Chain'
<1>1. /\ DOMAIN req' = DOMAIN req /\ req'.at = "done" /\ req'.answer = code
      /\ req'.route = req.route /\ req'.token = req.token /\ req'.claims = req.claims
      /\ req'.idemKey = req.idemKey /\ req'.tries = req.tries /\ req'.reached = req.reached
      /\ req'.reply = req.reply
  BY BlankFields DEF Problem, RequestTypes
<1>2. RequestTypes' BY <1>1 DEF RequestTypes, Stage
<1>3. req.reached = 0 /\ req.route \in Routes /\ req.reply = "none" BY DEF Chain, Staged, Tried, Told
<1>4. /\ req'.at = "done" /\ req'.reply = "none" /\ req'.answer # "OK" /\ req'.route \in Routes
      /\ req'.tries = 0 /\ req'.reached = 0 /\ req'.tries \in Nat /\ req'.reached \in Nat
      /\ ~(req'.tries > 0) /\ ~(req'.reached > 0) /\ req'.reached <= 1
  BY <1>1, <1>3
<1>5. Chain'
  <2>1. Staged' BY <1>4 DEF Staged
  <2>2. Tried' BY <1>4 DEF Tried
  <2>3. Told' BY <1>4 DEF Told
  <2> QED BY <2>1, <2>2, <2>3 DEF Chain
<1> QED BY <1>2, <1>5

\* The request moves on, with a document of keys in hand or not.
MovesTo(at) == Go(at) \/ \E doc : req' = [req EXCEPT !.at = at, !.doc = doc]

\* A request that moves on through the authentication.
LEMMA GoKeeps ==
  ASSUME RequestTypes, Chain, NEW at, at \in {"fetch", "install", "recheck", "verify"},
         MovesTo(at), req.at \in {"auth", "fetch", "install", "recheck"}, UNCHANGED ivars
  PROVE  RequestTypes' /\ Chain'
<1>1. /\ DOMAIN req' = DOMAIN req /\ req'.at = at
      /\ req'.route = req.route /\ req'.token = req.token /\ req'.claims = req.claims
      /\ req'.idemKey = req.idemKey /\ req'.tries = req.tries /\ req'.reached = req.reached
      /\ req'.reply = req.reply
  BY BlankFields DEF MovesTo, Go, RequestTypes
<1>2. RequestTypes' BY <1>1 DEF RequestTypes, Stage
<1>3. req.reached = 0 /\ req.route \in Routes /\ req.tries = 0 /\ req.reply = "none"
  BY DEF Chain, Staged, Tried, Told
<1>4. /\ req'.at \in {"fetch", "install", "recheck", "verify"} /\ req'.route \in Routes
      /\ req'.reply = "none"
      /\ req'.tries = 0 /\ req'.reached = 0 /\ req'.tries \in Nat /\ req'.reached \in Nat
      /\ ~(req'.tries > 0) /\ ~(req'.reached > 0) /\ req'.reached <= 1
  BY <1>1, <1>3
<1>5. Chain'
  <2>1. Staged' BY <1>4 DEF Staged
  <2>2. Tried' BY <1>4 DEF Tried
  <2>3. Told' BY <1>4 DEF Told
  <2> QED BY <2>1, <2>2, <2>3 DEF Chain
<1> QED BY <1>2, <1>5

\* The request enters the chain.
LEMMA ArriveKeeps ==
  ASSUME RequestTypes, Chain, NEW r \in Routes, NEW t, NEW k, Arrive(r, t, k), UNCHANGED ivars
  PROVE  RequestTypes' /\ Chain'
<1> DEFINE at == IF Table[r].roles # {} THEN "auth" ELSE "limit"
<1>1. /\ DOMAIN req' = DOMAIN Blank /\ req'.at = at /\ req'.route = r
      /\ req'.idemKey \in BOOLEAN /\ req'.tries = 0 /\ req'.reached = 0 /\ req'.reply = "none"
      /\ req'.tries \in Nat /\ req'.reached \in Nat
  BY BlankFields DEF Arrive
<1>2. at \in {"auth", "limit"} /\ (at = "limit" => Table[r].roles = {}) OBVIOUS
<1> HIDE DEF at
<1>3. RequestTypes' BY <1>1, <1>2 DEF RequestTypes, Stage
<1>4. Chain'
  <2>1. Staged' BY <1>1, <1>2 DEF Staged, Entitled
  <2>2. Tried' BY <1>1, <1>2 DEF Tried, Entitled
  <2>3. Told' BY <1>1, <1>2 DEF Told, Entitled
  <2> QED BY <2>1, <2>2, <2>3 DEF Chain
<1> QED BY <1>3, <1>4

\* A token that identity signed and that has not expired passes, with a role that the
\* route allows; its claims become the request's.
LEMMA VerifyKeeps ==
  ASSUME TokensAreTrue, RequestTypes, Chain, Verify, UNCHANGED ivars
  PROVE  RequestTypes' /\ Chain'
<1>1. req.at = "verify" /\ req.tries = 0 /\ req.route \in Routes
  BY DEF Verify, Chain, Staged
<1>2. CASE Problem("UNAUTHENTICATED") \/ Problem("FORBIDDEN")
  BY <1>1, <1>2, ProblemKeeps
<1>3. CASE /\ req.token \in tokens /\ Allowed(req.route, req.token.roles)
           /\ req' = [req EXCEPT !.at = "limit",
                       !.claims = [user |-> req.token.user, roles |-> req.token.roles]]
  <2>1. /\ DOMAIN req' = DOMAIN req /\ req'.at = "limit"
        /\ req'.route = req.route /\ req'.token = req.token
        /\ req'.claims = [user |-> req.token.user, roles |-> req.token.roles]
        /\ req'.idemKey = req.idemKey /\ req'.tries = req.tries /\ req'.reached = req.reached
        /\ req'.reply = req.reply
    BY <1>3, BlankFields DEF RequestTypes
  <2>2. RequestTypes' BY <2>1 DEF RequestTypes, Stage
  <2>3. Entitled(req)' BY <1>3, <2>1 DEF Entitled, TokensAreTrue, ivars
  <2>4. Chain'
    <3>1. Staged' BY <1>1, <2>1, <2>3 DEF Staged, RequestTypes
    <3>2. Tried'
      <4>1. req.reached = 0 BY <1>1 DEF Chain, Tried
      <4>2. /\ req'.tries = 0 /\ req'.reached = 0 /\ ~(req'.tries > 0) /\ req'.reached <= 1
        BY <1>1, <2>1, <4>1
      <4> QED BY <2>1, <4>2 DEF Tried
    <3>3. Told'
      <4>1. req'.reply = "none" /\ req'.at = "limit" BY <1>1, <2>1 DEF Chain, Told
      <4> QED BY <4>1 DEF Told
    <3> QED BY <3>1, <3>2, <3>3 DEF Chain
  <2> QED BY <2>2, <2>4
<1> QED BY <1>2, <1>3 DEF Verify

\* Past the limiter: a money route's request has its key.
LEMMA AdmitKeeps ==
  ASSUME RequestTypes, Chain, Admit, req.at = "limit", UNCHANGED ivars
  PROVE  RequestTypes' /\ Chain'
<1>1. req.tries = 0 /\ req.route \in Routes /\ Entitled(req) /\ req.reached = 0
  BY DEF Chain, Staged, Tried
<1>2. CASE Problem("IDEMPOTENCY_KEY_REQUIRED") BY <1>1, <1>2, ProblemKeeps
<1>3. CASE req' = [req EXCEPT !.at = "ready", !.idemKey = Table[req.route].idem]
  <2>1. /\ DOMAIN req' = DOMAIN req /\ req'.at = "ready" /\ req'.idemKey = Table[req.route].idem
        /\ req'.route = req.route /\ req'.token = req.token /\ req'.claims = req.claims
        /\ req'.tries = req.tries /\ req'.reached = req.reached
        /\ req'.reply = req.reply
    BY <1>3, BlankFields DEF RequestTypes
  <2>2. Table[req.route].idem \in BOOLEAN BY <1>1, WritesAreNotRetried, GatewayAssumption
  <2>3. RequestTypes' BY <2>1, <2>2 DEF RequestTypes, Stage
  <2>4. Entitled(req)' BY <1>1, <2>1 DEF Entitled, ivars
  <2>5. Chain'
    <3>1. Staged' BY <1>1, <2>1, <2>4 DEF Staged
    <3>2. Tried' BY <1>1, <2>1, <2>4 DEF Tried
    <3>3. Told'
      <4>1. req'.reply = "none" /\ req'.at = "ready" BY <1>1, <2>1 DEF Chain, Told
      <4> QED BY <4>1 DEF Told
    <3> QED BY <3>1, <3>2, <3>3 DEF Chain
  <2> QED BY <2>3, <2>5
<1> QED BY <1>2, <1>3 DEF Admit

\* An attempt q of the request ended with the answer of a service or of the transport:
\* q is the request with one attempt or one execution more.
LEMMA AttemptKeeps ==
  ASSUME RequestTypes, Chain, UNCHANGED ivars,
         NEW q, DOMAIN q = DOMAIN Blank, q.at \in {"ready", "sent"},
         q.route = req.route, q.token = req.token, q.claims = req.claims,
         q.idemKey = req.idemKey, q.tries \in Nat \ {0}, q.reached \in Nat,
         req.at \in {"ready", "sent"},
         NEW st, q.reply \in {"none"} \cup Refusals, FromGRPC(st) = Answer(q.reply), q.reply # "OK",
         Table[q.route].class # "read" => q.reached <= 1,
         Table[q.route].class # "read" /\ q.reached > 0 =>
           q.reply \in {"none"} \cup LateErrors(Method(q.route)),
         req' \in AfterAttempt(q, st)
  PROVE  RequestTypes' /\ Chain'
<1>1. /\ req.route \in Routes /\ Entitled(req) /\ req.idemKey = Table[req.route].idem
      /\ req.idemKey \in BOOLEAN
  BY DEF Chain, Staged, Tried, RequestTypes
<1>2. Entitled(q) BY <1>1 DEF Entitled
<1>3. CASE req' = Ended(q, st)
  <2>1. /\ DOMAIN req' = DOMAIN Blank /\ req'.at = "done" /\ req'.answer = FromGRPC(st)
        /\ req'.route = req.route /\ req'.token = req.token /\ req'.claims = req.claims
        /\ req'.idemKey = req.idemKey /\ req'.tries = q.tries /\ req'.reached = q.reached
        /\ req'.reply = q.reply
    BY <1>3, BlankFields DEF Ended
  <2>2. RequestTypes' BY <2>1, <1>1 DEF RequestTypes, Stage
  <2>3. Entitled(req)' BY <1>1, <2>1 DEF Entitled, ivars
  <2>4. Chain'
    <3>1. Staged' BY <1>1, <2>1, <2>3 DEF Staged
    <3>2. Tried' BY <1>1, <2>1, <2>3 DEF Tried
    <3>3. Told' BY <1>1, <2>1, <2>3 DEF Told
    <3> QED BY <3>1, <3>2, <3>3 DEF Chain
  <2> QED BY <2>2, <2>4
<1>4. CASE /\ Method(q.route) \in retryableReads
           /\ req' = [q EXCEPT !.at = "ready"]
  <2>1. /\ DOMAIN req' = DOMAIN Blank /\ req'.at = "ready"
        /\ req'.route = req.route /\ req'.token = req.token /\ req'.claims = req.claims
        /\ req'.idemKey = req.idemKey /\ req'.tries = q.tries /\ req'.reached = q.reached
        /\ req'.reply = q.reply
    BY <1>4, BlankFields
  <2>2. Table[req.route].class = "read" BY <1>1, <1>4, WritesAreNotRetried, GatewayAssumption DEF Method
  <2>3. RequestTypes' BY <2>1, <1>1 DEF RequestTypes, Stage
  <2>4. Entitled(req)' BY <1>1, <2>1 DEF Entitled, ivars
  <2>5. Chain'
    <3>1. Staged' BY <1>1, <2>1, <2>2, <2>4 DEF Staged
    <3>2. Tried' BY <1>1, <2>1, <2>2, <2>4 DEF Tried
    <3>3. Told' BY <1>1, <2>1, <2>2, <2>4 DEF Told
    <3> QED BY <3>1, <3>2, <3>3 DEF Chain
  <2> QED BY <2>3, <2>5
<1> QED BY <1>3, <1>4 DEF AfterAttempt

\* Counting attempts and executions.
LEMMA Counting ==
  /\ \A n \in Nat : n + 1 \in Nat /\ n + 1 > 0 /\ n + 1 # 0 /\ (n = 0 => n + 1 <= 1 /\ n <= 1)
  /\ \A n \in Nat : (n > 0 <=> n # 0) /\ (n > 0 /\ n <= 1 => n = 1)
  /\ \A n \in Nat : n + 0 = n
OBVIOUS

\* A change of what the breaker counts leaves the rest of the request alone.
LEMMA CountedKeeps ==
  ASSUME RequestTypes, Chain, NEW b, req' = [req EXCEPT !.counted = b], UNCHANGED ivars
  PROVE  RequestTypes' /\ Chain'
<1>1. /\ DOMAIN req' = DOMAIN req /\ req'.at = req.at /\ req'.answer = req.answer
      /\ req'.route = req.route /\ req'.token = req.token /\ req'.claims = req.claims
      /\ req'.idemKey = req.idemKey /\ req'.tries = req.tries /\ req'.reached = req.reached
      /\ req'.reply = req.reply
  BY BlankFields DEF RequestTypes
<1>2. RequestTypes' BY <1>1 DEF RequestTypes
<1>3. Entitled(req) => Entitled(req)' BY <1>1 DEF Entitled, ivars
<1>4. Staged' BY <1>1, <1>3 DEF Chain, Staged
<1>5. Tried' BY <1>1, <1>3 DEF Chain, Tried
<1>6. Told' BY <1>1 DEF Chain, Told
<1> QED BY <1>2, <1>4, <1>5, <1>6 DEF Chain

\* An attempt is sent.
LEMMA AdmittedKeeps ==
  ASSUME RequestTypes, Chain, Admitted, UNCHANGED ivars
  PROVE  RequestTypes' /\ Chain'
<1>1. req' = [req EXCEPT !.at = "sent", !.tries = @ + 1, !.counted = TRUE] /\ req.at = "ready"
  BY DEF Admitted
<1>2. /\ DOMAIN req' = DOMAIN req /\ req'.at = "sent"
      /\ req'.route = req.route /\ req'.token = req.token /\ req'.claims = req.claims
      /\ req'.idemKey = req.idemKey /\ req'.tries = req.tries + 1 /\ req'.reached = req.reached
      /\ req'.reply = req.reply
  BY <1>1, BlankFields DEF RequestTypes
<1>3. req'.tries \in Nat /\ req'.tries > 0 /\ req'.tries # 0 /\ req'.reached \in Nat
  <2>1. req.tries \in Nat /\ req.reached \in Nat BY DEF RequestTypes
  <2>2. req.tries + 1 \in Nat /\ req.tries + 1 > 0 /\ req.tries + 1 # 0 BY <2>1, Counting
  <2>3. req'.tries = req.tries + 1 /\ req'.reached = req.reached BY <1>2
  <2> QED BY <2>1, <2>2, <2>3
<1>4. RequestTypes' BY <1>2, <1>3 DEF RequestTypes, Stage
<1>5. Entitled(req)' BY <1>1, <1>2 DEF Chain, Staged, Entitled, ivars
<1>6. Staged' BY <1>1, <1>2, <1>3, <1>5 DEF Chain, Staged
<1>7. Tried' BY <1>1, <1>2, <1>3, <1>5 DEF Chain, Tried, Staged
<1>8. Told'
  <2>1. req.reply \in {"none", "OK"} \cup Refusals BY DEF Chain, Told
  <2> QED BY <2>1, <1>2, <1>3 DEF Told
<1> QED BY <1>4, <1>6, <1>7, <1>8 DEF Chain

\* The service executes the call and the answer arrives.
LEMMA ExecutedKeeps ==
  ASSUME RequestTypes, Chain, Executed, UNCHANGED ivars
  PROVE  RequestTypes' /\ Chain'
<1>1. req' = [req EXCEPT !.at = "done", !.reached = @ + 1, !.reply = "OK", !.answer = "OK"]
      /\ req.at = "sent"
  BY DEF Executed
<1>2. /\ DOMAIN req' = DOMAIN req /\ req'.at = "done" /\ req'.answer = "OK"
      /\ req'.route = req.route /\ req'.token = req.token /\ req'.claims = req.claims
      /\ req'.idemKey = req.idemKey /\ req'.tries = req.tries /\ req'.reached = req.reached + 1
      /\ req'.reply = "OK"
  BY <1>1, BlankFields DEF RequestTypes
<1>3. /\ req'.tries \in Nat /\ req'.tries > 0 /\ req'.tries # 0
      /\ req'.reached \in Nat /\ req'.reached > 0
      /\ Table[req.route].class # "read" => req'.reached <= 1
  <2>1. req.tries \in Nat /\ req.reached \in Nat BY DEF RequestTypes
  <2>2. req.tries > 0 BY <1>1 DEF Chain, Staged
  <2>3. Table[req.route].class # "read" => req.reached = 0 BY <1>1 DEF Chain, Tried
  <2>4. req.tries # 0 BY <2>1, <2>2, Counting
  <2>5. req.reached + 1 \in Nat /\ req.reached + 1 > 0 BY <2>1, Counting
  <2>6. Table[req.route].class # "read" => req.reached + 1 <= 1 BY <2>1, <2>3, Counting
  <2>7. req'.tries = req.tries /\ req'.reached = req.reached + 1 BY <1>2
  <2> QED BY <2>1, <2>2, <2>4, <2>5, <2>6, <2>7
<1>4. RequestTypes' BY <1>2, <1>3 DEF RequestTypes, Stage
<1>5. Entitled(req)' BY <1>1, <1>2 DEF Chain, Staged, Entitled, ivars
<1>6. Staged' BY <1>2 DEF Staged
<1>7. Tried' BY <1>1, <1>2, <1>3, <1>5 DEF Chain, Tried, Staged
<1>8. Told' BY <1>2, <1>3 DEF Told, Answer
<1> QED BY <1>4, <1>6, <1>7, <1>8 DEF Chain

\* Before the attempt that ends now, a write was not executed.
LEMMA FirstAttempt ==
  ASSUME RequestTypes, Chain, req.at \in {"ready", "sent"}
  PROVE  /\ Table[req.route].class # "read" => req.reached = 0
         /\ req.at = "sent" => req.tries \in Nat \ {0}
         /\ req.tries \in Nat /\ req.reached \in Nat
<1>1. req.tries \in Nat /\ req.reached \in Nat BY DEF RequestTypes
<1>2. Table[req.route].class # "read" => req.reached = 0 BY DEF Chain, Tried
<1>3. req.at = "sent" => req.tries > 0 BY DEF Chain, Staged
<1>4. req.at = "sent" => req.tries \in Nat \ {0} BY <1>1, <1>3, Counting
<1> QED BY <1>1, <1>2, <1>4

\* An attempt that did not leave the client: the upstream saw nothing.
LEMMA RejectedKeeps ==
  ASSUME RequestTypes, Chain, Rejected, UNCHANGED ivars
  PROVE  RequestTypes' /\ Chain'
<1> DEFINE q == [req EXCEPT !.tries = @ + 1, !.reply = "none"]
<1>1. req.at = "ready" /\ req' \in AfterAttempt(q, Unavailable) BY DEF Rejected
<1>2. /\ DOMAIN q = DOMAIN Blank /\ q.at = req.at
      /\ q.route = req.route /\ q.token = req.token /\ q.claims = req.claims
      /\ q.idemKey = req.idemKey /\ q.tries = req.tries + 1 /\ q.reached = req.reached
      /\ q.reply = "none"
  BY BlankFields DEF RequestTypes
<1> HIDE DEF q
<1>3. q.tries \in Nat \ {0} /\ q.reached \in Nat
  <2>1. req.tries \in Nat /\ req.reached \in Nat BY DEF RequestTypes
  <2> QED BY <2>1, <1>2, Counting
<1>4. Table[q.route].class # "read" => q.reached = 0 /\ q.reached <= 1
  BY <1>1, <1>2, FirstAttempt
<1>5. FromGRPC(Unavailable) = Answer("none") BY CodesReturn DEF Answer
<1> QED BY <1>1, <1>2, <1>3, <1>4, <1>5, AttemptKeeps

\* The service answers an error, before or after it wrote something; a write is not
\* tried again.
LEMMA RefusedKeeps ==
  ASSUME RequestTypes, Chain, NEW err \in Refusals, Refused(err), UNCHANGED ivars
  PROVE  RequestTypes' /\ Chain'
<1>1. PICK n \in IF err \in LateErrors(Method(req.route)) THEN {0, 1} ELSE {0} :
        req' \in AfterAttempt([req EXCEPT !.reached = @ + n, !.reply = err], ToGRPC(err))
  BY DEF Refused
<1> DEFINE q == [req EXCEPT !.reached = @ + n, !.reply = err]
           st == ToGRPC(err)
<1>2. req.at = "sent" /\ req' \in AfterAttempt(q, st) BY <1>1 DEF Refused
<1>3. /\ DOMAIN q = DOMAIN Blank /\ q.at = req.at
      /\ q.route = req.route /\ q.token = req.token /\ q.claims = req.claims
      /\ q.idemKey = req.idemKey /\ q.tries = req.tries /\ q.reached = req.reached + n
      /\ q.reply = err
  BY BlankFields DEF RequestTypes
<1>4. err \in Code \cup {"deadline", "other"} BY GatewayAssumption
<1>5. err \notin {"none", "OK"} BY <1>4, CodesReturn
<1>6. FromGRPC(st) = Answer(q.reply) BY <1>3, <1>5 DEF Answer
<1> HIDE DEF q, st
<1>7. n \in {0, 1} /\ (n = 0 \/ err \in LateErrors(Method(req.route))) BY <1>1
<1>8. req.tries \in Nat \ {0} /\ req.reached \in Nat /\ (Table[req.route].class # "read" => req.reached = 0)
  BY <1>2, FirstAttempt
<1>9. q.tries \in Nat \ {0} /\ q.reached \in Nat
  <2>1. \A m \in Nat : m + n \in Nat BY <1>7
  <2> QED BY <2>1, <1>3, <1>8
<1>10. Table[q.route].class # "read" => q.reached <= 1 /\ (q.reached > 0 => n # 0)
  BY <1>3, <1>7, <1>8
<1>11. Table[q.route].class # "read" /\ q.reached > 0 => q.reply \in {"none"} \cup LateErrors(Method(q.route))
  BY <1>3, <1>7, <1>10
<1>12. q.reply \in {"none"} \cup Refusals /\ q.reply # "OK" BY <1>3, <1>5
<1> QED BY <1>2, <1>3, <1>6, <1>9, <1>10, <1>11, <1>12, AttemptKeeps

\* The answer was lost: the call took effect or not, and only a read is tried again.
LEMMA LostKeeps ==
  ASSUME RequestTypes, Chain, Lost, UNCHANGED ivars
  PROVE  RequestTypes' /\ Chain'
<1>1. PICK n \in {0, 1} :
        req' \in AfterAttempt([req EXCEPT !.reached = @ + n, !.reply = "none"], Unavailable)
  BY DEF Lost
<1> DEFINE q == [req EXCEPT !.reached = @ + n, !.reply = "none"]
<1>2. req.at = "sent" /\ req' \in AfterAttempt(q, Unavailable) BY <1>1 DEF Lost
<1>3. /\ DOMAIN q = DOMAIN Blank /\ q.at = req.at
      /\ q.route = req.route /\ q.token = req.token /\ q.claims = req.claims
      /\ q.idemKey = req.idemKey /\ q.tries = req.tries /\ q.reached = req.reached + n
      /\ q.reply = "none"
  BY BlankFields DEF RequestTypes
<1> HIDE DEF q
<1>4. q.tries \in Nat \ {0} /\ q.reached \in Nat
  <2>1. req.tries \in Nat \ {0} /\ req.reached \in Nat BY <1>2, FirstAttempt
  <2>2. \A m \in Nat : m + n \in Nat BY <1>1
  <2> QED BY <2>1, <2>2, <1>3
<1>5. Table[q.route].class # "read" => q.reached <= 1
  BY <1>2, <1>3, <1>4, FirstAttempt
<1>6. FromGRPC(Unavailable) = Answer("none") BY CodesReturn DEF Answer
<1> QED BY <1>2, <1>3, <1>4, <1>5, <1>6, AttemptKeeps

\* A token of Login is signed with the roles of its user; the request is untouched.
LEMMA LoginSigns ==
  ASSUME TokensAreTrue, RequestTypes, Chain, UNCHANGED gvars,
         \/ \E u \in Users : Login(u)
         \/ \E t \in tokens : TokenExpires(t)
         \/ ReplaceKey
  PROVE  GatewayInv'
<1>1. req' = req BY DEF gvars
<1>2. TokensAreTrue' /\ signed \subseteq signed'
  <2>1. ASSUME NEW u \in Users, Login(u) PROVE TokensAreTrue' /\ signed \subseteq signed'
    <3> DEFINE tk == SignAccess(u, GetRoles(u))
    <3>1. u \in DOMAIN users /\ users' = users BY <2>1 DEF Login, GetUserByEmail
    <3>2. signed' = signed \cup {tk} /\ tokens' = tokens \cup {tk} BY <2>1 DEF Login, Issue
    <3>3. tk.user = u /\ tk.roles = users[u] BY DEF SignAccess, GetRoles
    <3> HIDE DEF tk
    <3> QED BY <3>1, <3>2, <3>3 DEF TokensAreTrue
  <2>2. ASSUME NEW t \in tokens, TokenExpires(t) PROVE TokensAreTrue' /\ signed \subseteq signed'
    BY <2>2 DEF TokensAreTrue, TokenExpires
  <2>3. CASE ReplaceKey BY <2>3 DEF TokensAreTrue, ReplaceKey
  <2> QED BY <2>1, <2>2, <2>3
<1>3. RequestTypes' BY <1>1 DEF RequestTypes
<1>4. Entitled(req) => Entitled(req)' BY <1>1, <1>2 DEF Entitled
<1>5. Staged' BY <1>1, <1>4 DEF Chain, Staged
<1>6. Tried' BY <1>1, <1>4 DEF Chain, Tried
<1>7. Told' BY <1>1 DEF Chain, Told
<1> QED BY <1>2, <1>3, <1>5, <1>6, <1>7 DEF GatewayInv, Chain

\* Every step of the gateway and of its callers keeps the invariant.
LEMMA GatewayStep == GatewayInv /\ [Next]_vars => GatewayInv'
<1> SUFFICES ASSUME TokensAreTrue, RequestTypes, Chain, [Next]_vars PROVE GatewayInv'
  BY DEF GatewayInv
<1>1. UNCHANGED ivars => TokensAreTrue' BY DEF ivars, TokensAreTrue
<1>2. ASSUME UNCHANGED ivars, RequestTypes', Chain' PROVE GatewayInv' BY <1>1, <1>2 DEF GatewayInv
<1>3. req.at \in {"auth", "fetch", "install", "recheck", "verify", "limit"} =>
        req.tries = 0 /\ req.at # "done"
  BY DEF Chain, Staged
<1>4. ASSUME req' = req, UNCHANGED ivars PROVE GatewayInv'
  <2>1. RequestTypes' BY <1>4 DEF RequestTypes
  <2>2. Entitled(req) => Entitled(req)' BY <1>4 DEF Entitled, ivars
  <2>3. Staged' BY <1>4, <2>2 DEF Chain, Staged
  <2>4. Tried' BY <1>4, <2>2 DEF Chain, Tried
  <2>5. Told' BY <1>4 DEF Chain, Told
  <2> QED BY <1>2, <1>4, <2>1, <2>3, <2>4, <2>5 DEF Chain
<1>5. CASE Advance
  <2>1. UNCHANGED ivars BY <1>5 DEF Advance
  <2>2. CASE LookUpKey BY <1>2, <1>3, <2>1, <2>2, ProblemKeeps, GoKeeps DEF MovesTo, LookUpKey
  <2>3. CASE FetchKeys BY <1>2, <1>3, <2>1, <2>3, GoKeeps DEF MovesTo, FetchKeys
  <2>11. CASE InstallKeys BY <1>2, <2>1, <2>11, GoKeeps DEF MovesTo, InstallKeys
  <2>12. CASE RecheckKey BY <1>2, <1>3, <2>1, <2>12, ProblemKeeps, GoKeeps DEF MovesTo, RecheckKey
  <2>4. CASE Verify BY <1>2, <2>1, <2>4, VerifyKeeps
  <2>5. CASE RateLimit BY <1>2, <1>3, <2>1, <2>5, ProblemKeeps, AdmitKeeps DEF RateLimit
  <2>6. CASE Rejected BY <1>2, <2>1, <2>6, RejectedKeeps
  <2>7. CASE Admitted BY <1>2, <2>1, <2>7, AdmittedKeeps
  <2>8. CASE Executed BY <1>2, <2>1, <2>8, ExecutedKeeps
  <2>9. CASE Malformed BY <1>2, <2>1, <2>9, ProblemKeeps DEF Malformed
  <2>10. CASE \E err \in Refusals : Refused(err) BY <1>2, <2>1, <2>10, RefusedKeeps
  <2> QED BY <1>5, <2>2, <2>3, <2>4, <2>5, <2>6, <2>7, <2>8, <2>9, <2>10, <2>11,
              <2>12 DEF Advance
<1>6. CASE Trouble
  <2>1. UNCHANGED ivars BY <1>6 DEF Trouble
  <2>2. CASE FetchFails BY <1>2, <1>3, <2>1, <2>2, ProblemKeeps DEF FetchFails
  <2>3. CASE LimiterDown BY <1>2, <2>1, <2>3, AdmitKeeps DEF LimiterDown
  <2>4. CASE Lost BY <1>2, <2>1, <2>4, LostKeeps
  <2> QED BY <1>6, <2>2, <2>3, <2>4 DEF Trouble
<1>7. ASSUME NEW s, NEW b, Change(s, b), UNCHANGED ivars PROVE GatewayInv'
  BY <1>2, <1>7, CountedKeeps DEF Change
<1>8. CASE Others
  <2>1. UNCHANGED ivars BY <1>8 DEF Others
  <2>2. CASE OthersFetch BY <1>4, <2>1, <2>2 DEF OthersFetch
  <2>3. ASSUME NEW s \in Services, OthersCall(s) PROVE GatewayInv'
    BY <1>7, <2>1, <2>3 DEF OthersCall
  <2> QED BY <1>8, <2>2, <2>3 DEF Others
<1>9. CASE Tick(TenSecondsPass) \/ Tick(NextWindow)
  BY <1>4, <1>9 DEF Tick, TenSecondsPass, NextWindow
<1>10. ASSUME NEW s \in Services, Tick(BreakerTimeout(s)) PROVE GatewayInv'
  BY <1>7, <1>10 DEF Tick, BreakerTimeout
<1>11. ASSUME NEW r \in Routes, NEW t, NEW k, Ask(r, t, k) PROVE GatewayInv'
  BY <1>2, <1>11, ArriveKeeps DEF Ask
<1>12. CASE /\ \/ \E u \in Users : Login(u)
               \/ \E t \in tokens : TokenExpires(t)
               \/ ReplaceKey
            /\ UNCHANGED gvars
  BY <1>12, LoginSigns
<1>13. CASE UNCHANGED vars BY <1>4, <1>13 DEF vars, gvars
<1> QED BY <1>5, <1>6, <1>8, <1>9, <1>10, <1>11, <1>12, <1>13 DEF Next

\* The invariant of the gateway.
LEMMA GatewayInvariant == Spec => []GatewayInv
BY GatewayStart, GatewayStep, PTL DEF Spec

\* ServedIsEntitled holds of every run of the gateway, for all routes, tokens, users
\* and fault patterns: what reaches a service was asked by a user whom identity gave
\* the role the route asks for, and a write was executed once at most.
THEOREM ServedIsEntitledHolds == Spec => []ServedIsEntitled
<1>1. GatewayInv => ServedIsEntitled
  <2> SUFFICES ASSUME TokensAreTrue, RequestTypes, Chain, req.reached > 0
               PROVE  /\ Table[req.route].roles # {} =>
                           /\ req.token \in signed
                           /\ GetMe(req.token.user) \cap Table[req.route].roles # {}
                           /\ Claims.user = req.token.user
                           /\ Claims.roles = GetMe(req.token.user)
                      /\ Claims.idemKey <=> Table[req.route].idem
                      /\ Table[req.route].class # "read" => req.reached = 1
    BY DEF GatewayInv, ServedIsEntitled
  <2>1. /\ req.tries > 0 /\ req.route \in Routes /\ Entitled(req)
        /\ req.idemKey = Table[req.route].idem /\ req.idemKey \in BOOLEAN
    <3>1. req.tries \in Nat /\ req.reached \in Nat BY DEF RequestTypes
    <3>2. req.tries > 0
      <4>1. req.reached # 0 BY <3>1, Counting
      <4>2. req.tries # 0 BY <4>1 DEF Chain, Tried
      <4> QED BY <3>1, <4>2, Counting
    <3> QED BY <3>2 DEF Chain, Tried, RequestTypes
  <2>2. ASSUME Table[req.route].roles # {}
        PROVE  /\ req.token \in signed
               /\ GetMe(req.token.user) \cap Table[req.route].roles # {}
               /\ Claims.user = req.token.user /\ Claims.roles = GetMe(req.token.user)
    <3>1. /\ req.token \in signed /\ req.token.roles \cap Table[req.route].roles # {}
          /\ req.claims.user = req.token.user /\ req.claims.roles = req.token.roles
      BY <2>1, <2>2 DEF Entitled, Allowed
    <3>2. req.token.user \in DOMAIN users /\ req.token.roles = users[req.token.user]
      BY <3>1 DEF TokensAreTrue
    <3>3. GetMe(req.token.user) = req.token.roles
      <4>1. GetUserByEmail(req.token.user) = {req.token.user} BY <3>2 DEF GetUserByEmail
      <4> QED BY <4>1, <3>2 DEF GetMe, GetRoles
    <3>4. req.token.user # "" /\ req.token.roles # {}
      BY <3>1, <3>2, GatewayAssumption, IdentityAssumption DEF TokensAreTrue
    <3> QED BY <3>1, <3>3, <3>4, ClaimsArrive
  <2>3. Claims.idemKey <=> Table[req.route].idem BY <2>1, ClaimsArrive
  <2>4. Table[req.route].class # "read" => req.reached = 1
    <3>1. req.tries \in Nat /\ req.reached \in Nat BY DEF RequestTypes
    <3>2. Table[req.route].class # "read" => req.reached <= 1 BY DEF Chain, Tried
    <3> QED BY <3>1, <3>2, Counting
  <2> QED BY <2>2, <2>3, <2>4
<1> QED BY <1>1, GatewayInvariant, PTL

\* AnswerIsHonest holds of every run of the gateway, whatever errors the services
\* answer and whenever they do: OK was executed, a typed error keeps its code, and a
\* write that was executed without an OK is answered 500 or 503, unless its method
\* refuses after a write.
THEOREM AnswerIsHonestHolds == Spec => []AnswerIsHonest
<1>1. ASSUME RequestTypes, Chain, req.at = "done", req.tries = 0 => req.answer # "OK"
      PROVE  /\ req.answer = "OK" => req.reply = "OK" /\ req.reached > 0
             /\ req.reply \in Code => req.answer = req.reply
             /\ req.tries > 0 /\ req.reply \in {"none", "deadline"} => httpStatus(req.answer) = 503
             /\ req.reply = "other" => httpStatus(req.answer) = 500
             /\ req.reached > 0 /\ req.answer # "OK" /\ Table[req.route].class # "read" =>
                  httpStatus(req.answer) >= 500 \/ Method(req.route) \in WriteThenRefuse
  <2>1. req.tries > 0 \/ (~(req.reached > 0) /\ req.reply = "none" /\ req.answer # "OK")
    <3>1. req.tries \in Nat /\ req.reached \in Nat BY <1>1 DEF RequestTypes
    <3>2. req.tries = 0 => req.reached = 0 /\ req.reply = "none" /\ req.answer # "OK"
      BY <1>1 DEF Chain, Tried, Told
    <3> QED BY <3>1, <3>2, Counting
  <2>2. CASE ~(req.tries > 0) BY <2>1, <2>2, CodesReturn
  <2>3. CASE req.tries > 0
    <3>1. /\ req.answer = Answer(req.reply) /\ req.reply \in {"none", "OK"} \cup Refusals
          /\ req.reply = "OK" => req.reached > 0
          /\ req.reached > 0 /\ Table[req.route].class # "read" =>
               req.reply \in {"none", "OK"} \cup LateErrors(Method(req.route))
      BY <1>1, <2>3 DEF Chain, Told
    <3>2. req.reply \in {"none", "OK", "deadline", "other"} \cup Code BY <3>1, GatewayAssumption
    <3>3. CASE req.reply = "OK" BY <3>1, <3>3, CodesReturn DEF Answer
    <3>4. CASE req.reply \in {"none", "deadline"}
      <4>1. req.answer = "UPSTREAM_UNAVAILABLE" BY <3>1, <3>4, CodesReturn DEF Answer
      <4> QED BY <4>1, <3>4, CodesReturn
    <3>5. CASE req.reply = "other"
      <4>1. req.answer = "INTERNAL" BY <3>1, <3>5, CodesReturn DEF Answer
      <4> QED BY <4>1, <3>5, CodesReturn
    <3>6. CASE req.reply \in Code
      <4>1. req.answer = req.reply /\ req.reply \notin {"none", "OK", "deadline", "other"}
        BY <3>1, <3>6, CodesReturn DEF Answer
      <4>2. ASSUME req.reached > 0, Table[req.route].class # "read"
            PROVE  req.answer = "INTERNAL" \/ Method(req.route) \in WriteThenRefuse
        BY <4>1, <4>2, <3>1, <3>6 DEF LateErrors
      <4>3. req.answer = "INTERNAL" => httpStatus(req.answer) >= 500 BY CodesReturn
      <4> QED BY <4>1, <4>2, <4>3
    <3> QED BY <3>2, <3>3, <3>4, <3>5, <3>6
  <2> QED BY <2>2, <2>3
<1>2. GatewayInv => AnswerIsHonest
  <2>1. GatewayInv /\ req.at = "done" /\ req.route # "" => (req.tries = 0 => req.answer # "OK")
    BY DEF GatewayInv, Chain, Told
  <2> QED BY <2>1, <1>1 DEF GatewayInv, AnswerIsHonest
<1> QED BY <1>2, GatewayInvariant, PTL
=============================================================================
