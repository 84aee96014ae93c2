------------------------ MODULE ServerSessions_proofs ------------------------
(***************************************************************************)
(* Proofs about ServerSessions, for any set of rows, one-time tokens and   *)
(* requests, and whatever the database does.                               *)
(***************************************************************************)
EXTENDS ServerSessions, TLAPS

Ops == {"none", "login", "replay", "sweep", "forgot"} \cup UserOps

TxType == [op : Ops, row : Sessions \cup Resets \cup {None}, stamp : 0..MaxVersion,
           proof : 0..MaxVersion, seen : (SUBSET Sessions) \cup (SUBSET Resets)]

\* One transaction at a time holds the user, and it found room for another version.
UserLocked ==
    /\ \A r, q \in Requests : tx[r].op \in UserOps /\ tx[q].op \in UserOps => r = q
    /\ \A r \in Requests : tx[r].op \in UserOps => version < MaxVersion

\* A row in use has the family of a login, whose row is in use; a replay is about one.
Families ==
    /\ \A s \in Sessions : phase[s] = "unused" <=> family[s] = None
    /\ \A s \in Sessions : family[s] # None => family[s] \in Opened
    /\ expired \subseteq {s \in Sessions : phase[s] # "unused"}
    /\ replayed \subseteq Opened
    /\ \A r \in Requests : tx[r].op = "replay" =>
          tx[r].row \in Sessions /\ phase[tx[r].row] # "unused"

Typed == TypeOK /\ UserLocked /\ Families

-----------------------------------------------------------------------------
(* Types. *)

\* Nobody has logged in at first.
LEMMA TypedInit == Init => Typed
<1> SUFFICES ASSUME Init PROVE Typed
  OBVIOUS
<1>1. NoTx \in TxType
  BY ServerSessionsAssumption DEF NoTx, TxType, Ops
<1>2. TypeOK
  BY <1>1, ServerSessionsAssumption DEF Init, TypeOK, TxType, Ops
<1>3. UserLocked /\ Families
  BY ServerSessionsAssumption DEF Init, UserLocked, Families, NoTx, UserOps, Opened
<1>4. QED
  BY <1>2, <1>3 DEF Typed

\* What a request writes down when it begins.
LEMMA BeginTyped ==
    ASSUME TypeOK, NEW r \in Requests, NEW op \in Ops, NEW row \in Sessions \cup Resets \cup {None},
           NEW seen \in (SUBSET Sessions) \cup (SUBSET Resets), Begin(r, op, row, seen)
    PROVE  /\ TypeOK'
           /\ tx[r].op = "none"
           /\ tx'[r].op = op /\ tx'[r].row = row
           /\ \A q \in Requests \ {r} : tx'[q] = tx[q]
           /\ UNCHANGED <<isolation, userVars, rowVars, resets, replayed>>
<1> DEFINE new == [op |-> op, row |-> row, stamp |-> 0, proof |-> 0, seen |-> seen]
<1>1. new \in TxType
  BY ServerSessionsAssumption DEF TxType
<1>2. tx \in [Requests -> TxType]
  BY DEF TypeOK, TxType, Ops
<1>3. tx' = [tx EXCEPT ![r] = new]
  BY DEF Begin
<1> HIDE DEF new
<1>4. tx' \in [Requests -> TxType]
  BY <1>1, <1>2, <1>3
<1>5. UNCHANGED <<isolation, userVars, rowVars, resets, replayed>>
  BY DEF Begin
<1>6. TypeOK'
  BY <1>4, <1>5 DEF TypeOK, TxType, Ops, userVars, rowVars
<1>7. tx'[r] = new
  BY <1>2, <1>3
<1>8. tx'[r].op = op /\ tx'[r].row = row
  BY <1>7 DEF new
<1>9. \A q \in Requests \ {r} : tx'[q] = tx[q]
  BY <1>2, <1>3
<1>10. QED
  BY <1>5, <1>6, <1>8, <1>9 DEF Begin

\* What is left when it ends.
LEMMA EndTyped ==
    ASSUME TypeOK, NEW r \in Requests, End(r)
    PROVE  /\ tx' \in [Requests -> TxType]
           /\ tx'[r] = NoTx
           /\ \A q \in Requests \ {r} : tx'[q] = tx[q]
<1>1. NoTx \in TxType
  BY ServerSessionsAssumption DEF NoTx, TxType, Ops
<1>2. tx \in [Requests -> TxType]
  BY DEF TypeOK, TxType, Ops
<1>3. QED
  BY <1>1, <1>2 DEF End

\* A new row is typed and belongs to a family that was opened.
LEMMA InsertTyped ==
    ASSUME TypeOK, Families, NEW s \in Sessions, NEW f \in Sessions, NEW v \in 0..MaxVersion,
           NEW p \in 0..MaxVersion, Insert(s, f, v, p), f = s \/ f \in Opened,
           NEW ph \in {"live", "rotated"}, NEW o \in Sessions, phase[o] # "unused" \/ o = s,
           phase' = [phase EXCEPT ![o] = ph, ![s] = "live"], UNCHANGED <<expired, replayed>>,
           \A r \in Requests : tx'[r].op = "replay" => tx[r].op = "replay" /\ tx'[r].row = tx[r].row
    PROVE  /\ phase' \in [Sessions -> {"unused", "live", "rotated", "revoked", "deleted"}]
           /\ family' \in [Sessions -> Sessions \cup {None}]
           /\ stamp' \in [Sessions -> 0..MaxVersion]
           /\ proof' \in [Sessions -> 0..MaxVersion]
           /\ Families'
<1>1. /\ phase' \in [Sessions -> {"unused", "live", "rotated", "revoked", "deleted"}]
      /\ family' \in [Sessions -> Sessions \cup {None}]
      /\ stamp' \in [Sessions -> 0..MaxVersion]
      /\ proof' \in [Sessions -> 0..MaxVersion]
  BY DEF Insert, TypeOK
<1>2. /\ \A t \in Sessions : phase'[t] = "unused" <=> phase[t] = "unused" /\ t # s
      /\ \A t \in Sessions : family'[t] = IF t = s THEN f ELSE family[t]
      /\ phase[s] = "unused" /\ family[s] = None
  BY DEF Insert, TypeOK, Families
<1>3. Opened' = IF f = s THEN Opened \cup {s} ELSE Opened
  BY <1>2, ServerSessionsAssumption DEF Opened
<1>4. Families'
  <2>1. ASSUME NEW t \in Sessions
        PROVE  phase'[t] = "unused" <=> family'[t] = None
    <3>1. CASE t = s
      BY <1>2, <3>1, ServerSessionsAssumption
    <3>2. CASE t # s
      BY <1>2, <3>2 DEF Families
    <3>3. QED
      BY <3>1, <3>2
  <2>2. \A t \in Sessions : family'[t] # None => family'[t] \in Opened'
    BY <1>2, <1>3, ServerSessionsAssumption DEF Families, Opened
  <2>3. /\ expired' \subseteq {t \in Sessions : phase'[t] # "unused"}
        /\ replayed' \subseteq Opened'
    BY <1>2, <1>3 DEF Families
  <2>4. ASSUME NEW r \in Requests, tx'[r].op = "replay"
        PROVE  tx'[r].row \in Sessions /\ phase'[tx'[r].row] # "unused"
    <3>1. tx'[r].row \in Sessions /\ phase[tx'[r].row] # "unused"
      BY <2>4 DEF Families
    <3>2. QED
      BY <1>2, <3>1
  <2>5. QED
    BY <2>1, <2>2, <2>3, <2>4 DEF Families
<1>5. QED
  BY <1>1, <1>4

\* Rows that are revoked or deleted stay in their families.
LEMMA KeptFamilies ==
    ASSUME Families, UNCHANGED family,
           \A s \in Sessions : phase'[s] = "unused" <=> phase[s] = "unused",
           expired' \subseteq {s \in Sessions : phase'[s] # "unused"},
           replayed' \subseteq Opened,
           \A r \in Requests : tx'[r].op = "replay" =>
              tx'[r].row \in Sessions /\ phase[tx'[r].row] # "unused"
    PROVE  Families'
  BY DEF Families, Opened

\* A request that begins keeps the types, if the user is free for what it does.
LEMMA BeginKeeps ==
    ASSUME Typed, NEW r \in Requests, NEW op \in Ops, NEW row \in Sessions \cup Resets \cup {None},
           NEW seen \in (SUBSET Sessions) \cup (SUBSET Resets), Begin(r, op, row, seen),
           op \in UserOps => UserFree /\ version < MaxVersion,
           op = "replay" => row \in Sessions /\ phase[row] # "unused"
    PROVE  Typed'
<1>1. TypeOK /\ UserLocked /\ Families
  BY DEF Typed
<1>2. /\ TypeOK'
      /\ tx'[r].op = op /\ tx'[r].row = row
      /\ \A q \in Requests \ {r} : tx'[q] = tx[q]
      /\ UNCHANGED <<version, phase, family, expired, replayed>>
  BY <1>1, BeginTyped DEF userVars, rowVars
<1>3. UserLocked'
  BY <1>1, <1>2 DEF UserLocked, UserFree
<1>4. \A q \in Requests : tx'[q].op = "replay" =>
        tx'[q].row \in Sessions /\ phase[tx'[q].row] # "unused"
  BY <1>1, <1>2 DEF Families
<1>5. Families'
  BY <1>1, <1>2, <1>4, KeptFamilies DEF Families
<1>6. QED
  BY <1>2, <1>3, <1>5 DEF Typed

\* A request that ends without a new version leaves the user as it is.
LEMMA EndKeeps ==
    ASSUME Typed, NEW r \in Requests, End(r), UNCHANGED version
    PROVE  /\ UserLocked'
           /\ \A q \in Requests : tx'[q].op = "replay" =>
                 tx[q].op = "replay" /\ tx'[q].row = tx[q].row
<1>1. tx'[r] = NoTx /\ \A q \in Requests \ {r} : tx'[q] = tx[q]
  BY EndTyped DEF Typed
<1>2. NoTx.op = "none"
  BY DEF NoTx
<1>3. QED
  BY <1>1, <1>2 DEF Typed, UserLocked, UserOps

\* What an UPDATE finds is live, and revoking it takes no row out of use.
LEMMA RevokeKeeps ==
    ASSUME TypeOK, NEW found \in SUBSET Live,
           phase' = [s \in Sessions |-> IF s \in found THEN "revoked" ELSE phase[s]]
    PROVE  /\ phase' \in [Sessions -> {"unused", "live", "rotated", "revoked", "deleted"}]
           /\ \A s \in Sessions : phase'[s] = "unused" <=> phase[s] = "unused"
           /\ \A s \in Sessions : phase'[s] = "live" => phase[s] = "live"
  BY DEF TypeOK, Live

LEMMA TypedStep == Typed /\ [Next]_vars => Typed'
<1> SUFFICES ASSUME Typed, TypeOK, UserLocked, Families, [Next]_vars
             PROVE  Typed'
  BY DEF Typed
<1> DEFINE NoReplay == \A q \in Requests : tx'[q].op = "replay" =>
                          tx[q].op = "replay" /\ tx'[q].row = tx[q].row
<1> USE DEF vars, userVars, rowVars
<1>1. ASSUME NEW r \in Requests, LoginRead(r)
      PROVE  Typed'
  <2> DEFINE new == [op |-> "login", row |-> None, stamp |-> version,
                      proof |-> password, seen |-> {}]
  <2>1. new \in TxType /\ new.op = "login"
    BY ServerSessionsAssumption DEF TxType, Ops, TypeOK
  <2>2. tx' = [tx EXCEPT ![r] = new]
    BY <1>1 DEF LoginRead
  <2> HIDE DEF new
  <2>3. /\ tx' \in [Requests -> TxType]
        /\ tx'[r] = new
        /\ \A q \in Requests \ {r} : tx'[q] = tx[q]
    BY <2>1, <2>2 DEF TypeOK, TxType, Ops
  <2>4. TypeOK'
    BY <1>1, <2>3 DEF LoginRead, TypeOK, TxType, Ops
  <2>5. UserLocked'
    BY <1>1, <2>1, <2>3 DEF LoginRead, UserLocked, UserOps
  <2>6. Families'
    BY <1>1, <2>1, <2>3 DEF LoginRead, Families, Opened
  <2>7. QED
    BY <2>4, <2>5, <2>6 DEF Typed
<1>2. ASSUME NEW r \in Requests, NEW s \in Sessions, LoginIssue(r, s)
      PROVE  Typed'
  <2>1. LoginStamp(r) \in 0..MaxVersion /\ tx[r].proof \in 0..MaxVersion
    BY DEF LoginStamp, TypeOK
  <2>2. UserLocked' /\ NoReplay
    BY <1>2, EndKeeps DEF LoginIssue
  <2>3. tx' \in [Requests -> TxType]
    BY <1>2, EndTyped DEF LoginIssue
  <2>4. phase' = [phase EXCEPT ![s] = "live", ![s] = "live"]
    BY <1>2 DEF LoginIssue, TypeOK
  <2>5. /\ phase' \in [Sessions -> {"unused", "live", "rotated", "revoked", "deleted"}]
        /\ family' \in [Sessions -> Sessions \cup {None}]
        /\ stamp' \in [Sessions -> 0..MaxVersion]
        /\ proof' \in [Sessions -> 0..MaxVersion]
        /\ Families'
    BY <1>2, <2>1, <2>2, <2>4, InsertTyped DEF LoginIssue
  <2>6. QED
    BY <1>2, <2>2, <2>3, <2>5 DEF LoginIssue, Typed, TypeOK, TxType, Ops
<1>3. ASSUME NEW s \in Sessions, GoogleLogin(s)
      PROVE  Typed'
  <2>1. version \in 0..MaxVersion /\ password \in 0..MaxVersion
    BY ServerSessionsAssumption DEF TypeOK
  <2>2. phase' = [phase EXCEPT ![s] = "live", ![s] = "live"]
    BY <1>3 DEF GoogleLogin, TypeOK
  <2>3. /\ phase' \in [Sessions -> {"unused", "live", "rotated", "revoked", "deleted"}]
        /\ family' \in [Sessions -> Sessions \cup {None}]
        /\ stamp' \in [Sessions -> 0..MaxVersion]
        /\ proof' \in [Sessions -> 0..MaxVersion]
        /\ Families'
    BY <1>3, <2>1, <2>2, InsertTyped DEF GoogleLogin
  <2>4. QED
    BY <1>3, <2>3 DEF GoogleLogin, Typed, TypeOK, UserLocked
<1>4. ASSUME NEW s \in Sessions, NEW n \in Sessions, Rotate(s, n)
      PROVE  Typed'
  <2>1. /\ phase[s] = "live"
        /\ family[s] \in Opened
        /\ stamp[s] \in 0..MaxVersion /\ proof[s] \in 0..MaxVersion
    BY <1>4 DEF Rotate, Usable, Valid, Families, TypeOK
  <2>2. phase' = [phase EXCEPT ![s] = "rotated", ![n] = "live"]
    BY <1>4 DEF Rotate, AfterRotation
  <2>3. family[s] \in Sessions /\ phase[s] # "unused"
    BY <2>1 DEF Opened
  <2>4. /\ phase' \in [Sessions -> {"unused", "live", "rotated", "revoked", "deleted"}]
        /\ family' \in [Sessions -> Sessions \cup {None}]
        /\ stamp' \in [Sessions -> 0..MaxVersion]
        /\ proof' \in [Sessions -> 0..MaxVersion]
        /\ Families'
    BY <1>4, <2>1, <2>2, <2>3, InsertTyped DEF Rotate
  <2>5. QED
    BY <1>4, <2>4 DEF Rotate, Typed, TypeOK, UserLocked
<1>5. ASSUME NEW r \in Requests, NEW s \in Sessions, ReplayBegin(r, s)
      PROVE  Typed'
  <2>1. FamilyOf(s) \in SUBSET Sessions
    BY DEF FamilyOf, Live
  <2>2. QED
    BY <1>5, <2>1, BeginKeeps DEF ReplayBegin, Ops, UserOps
<1>6. ASSUME NEW r \in Requests, NEW s \in Sessions, SweepBegin(r, s)
      PROVE  Typed'
  BY <1>6, BeginKeeps DEF SweepBegin, Ops, UserOps, Live
<1>7. ASSUME NEW r \in Requests, NEW s \in Sessions, LogoutAllBegin(r, s)
      PROVE  Typed'
  BY <1>7, BeginKeeps DEF LogoutAllBegin, Ops, UserOps, Live
<1>8. ASSUME NEW r \in Requests, NEW c \in Resets, ResetBegin(r, c)
      PROVE  Typed'
  BY <1>8, BeginKeeps DEF ResetBegin, Ops, UserOps, Live
<1>9. ASSUME NEW r \in Requests, ChangeBegin(r) \/ SuspendBegin(r)
      PROVE  Typed'
  BY <1>9, BeginKeeps DEF ChangeBegin, SuspendBegin, Ops, UserOps, Live
<1>10. ASSUME NEW r \in Requests, ForgotBegin(r)
       PROVE  Typed'
  <2>1. LiveResets \in (SUBSET Sessions) \cup (SUBSET Resets)
    <3>1. LiveResets \in SUBSET Resets
      BY DEF LiveResets
    <3>2. QED
      BY <3>1
  <2>2. Begin(r, "forgot", None, LiveResets)
    BY <1>10 DEF ForgotBegin
  <2>3. QED
    BY <2>1, <2>2, BeginKeeps DEF Ops, UserOps
<1>11. ASSUME NEW r \in Requests, NEW c \in Resets, ForgotFinish(r, c)
       PROVE  Typed'
  <2>1. UserLocked' /\ NoReplay
    BY <1>11, EndKeeps DEF ForgotFinish
  <2>2. tx' \in [Requests -> TxType]
    BY <1>11, EndTyped DEF ForgotFinish
  <2>3. resets' \in [Resets -> {"unissued", "live", "used"}]
    BY <1>11 DEF ForgotFinish, TypeOK
  <2>4. Families'
    BY <1>11, <2>1, KeptFamilies DEF ForgotFinish, Families
  <2>5. QED
    BY <1>11, <2>1, <2>2, <2>3, <2>4 DEF ForgotFinish, Typed, TypeOK, TxType, Ops
<1>12. ASSUME NEW r \in Requests, ReplayFinish(r)
       PROVE  Typed'
  <2>1. UserLocked' /\ NoReplay
    BY <1>12, EndKeeps DEF ReplayFinish
  <2>2. tx' \in [Requests -> TxType]
    BY <1>12, EndTyped DEF ReplayFinish
  <2>3. Replayed(r) \in SUBSET Live
    BY DEF Replayed, Found, FamilyOf
  <2>4. phase' = [s \in Sessions |-> IF s \in Replayed(r) THEN "revoked" ELSE phase[s]]
    BY <1>12 DEF ReplayFinish, Revoke
  <2>5. family[tx[r].row] \in Opened
    BY <1>12, ServerSessionsAssumption DEF ReplayFinish, Families
  <2>6. /\ phase' \in [Sessions -> {"unused", "live", "rotated", "revoked", "deleted"}]
        /\ \A s \in Sessions : phase'[s] = "unused" <=> phase[s] = "unused"
    BY <2>3, <2>4, RevokeKeeps
  <2>7. /\ UNCHANGED <<isolation, active, version, password, expired, family, stamp, proof, resets>>
        /\ replayed' = replayed \cup {family[tx[r].row]}
    BY <1>12 DEF ReplayFinish
  <2>8. Families'
    BY <2>1, <2>5, <2>6, <2>7, KeptFamilies DEF Families
  <2>9. replayed' \subseteq Sessions
    BY <2>5, <2>7 DEF TypeOK, Opened
  <2>10. QED
    BY <2>1, <2>2, <2>6, <2>7, <2>8, <2>9 DEF Typed, TypeOK, TxType, Ops
<1>13. ASSUME NEW r \in Requests, SweepFinish(r)
       PROVE  Typed'
  <2>1. UserLocked' /\ NoReplay
    BY <1>13, EndKeeps DEF SweepFinish
  <2>2. tx' \in [Requests -> TxType]
    BY <1>13, EndTyped DEF SweepFinish
  <2>3. Found(r, Live) \in SUBSET Live
    BY DEF Found
  <2>4. phase' = [s \in Sessions |-> IF s \in Found(r, Live) THEN "revoked" ELSE phase[s]]
    BY <1>13 DEF SweepFinish, Revoke
  <2>5. /\ phase' \in [Sessions -> {"unused", "live", "rotated", "revoked", "deleted"}]
        /\ \A s \in Sessions : phase'[s] = "unused" <=> phase[s] = "unused"
    BY <2>3, <2>4, RevokeKeeps
  <2>6. UNCHANGED <<isolation, active, version, password, expired, family, stamp, proof, resets,
                    replayed>>
    BY <1>13 DEF SweepFinish
  <2>7. Families'
    BY <2>1, <2>5, <2>6, KeptFamilies DEF Families
  <2>8. QED
    BY <2>1, <2>2, <2>5, <2>6, <2>7 DEF Typed, TypeOK, TxType, Ops
<1>14. ASSUME NEW r \in Requests, Everything(r)
       PROVE  Typed'
  <2>1. /\ tx' \in [Requests -> TxType]
        /\ tx'[r] = NoTx
        /\ \A q \in Requests \ {r} : tx'[q] = tx[q]
    BY <1>14, EndTyped DEF Everything
  <2>2. Found(r, Live) \in SUBSET Live
    BY DEF Found
  <2>3. phase' = [s \in Sessions |-> IF s \in Found(r, Live) THEN "revoked" ELSE phase[s]]
    BY <1>14 DEF Everything
  <2>4. /\ phase' \in [Sessions -> {"unused", "live", "rotated", "revoked", "deleted"}]
        /\ \A s \in Sessions : phase'[s] = "unused" <=> phase[s] = "unused"
    BY <2>2, <2>3, RevokeKeeps
  <2>5. UNCHANGED <<isolation, expired, family, stamp, proof, replayed>>
    BY <1>14 DEF Everything
  <2>6. /\ active' \in BOOLEAN
        /\ resets' \in [Resets -> {"unissued", "live", "used"}]
    BY <1>14 DEF Everything, TypeOK
  <2>7. version' \in 1..MaxVersion /\ password' \in 1..version'
    <3>1. version < MaxVersion
      BY <1>14 DEF Everything, UserLocked
    <3>2. version' = version + 1 /\ password' \in {password, password + 1}
      BY <1>14 DEF Everything, NextVersion
    <3>3. version \in 1..MaxVersion /\ password \in 1..version
      BY DEF TypeOK
    <3>4. QED
      BY <3>1, <3>2, <3>3, ServerSessionsAssumption
  <2>8. UserLocked'
    <3>1. \A q \in Requests : tx'[q].op \notin UserOps
      BY <1>14, <2>1 DEF Everything, UserLocked, NoTx, UserOps
    <3>2. QED
      BY <3>1 DEF UserLocked
  <2>9. Families'
    <3>1. \A q \in Requests : tx'[q].op = "replay" =>
            tx'[q].row \in Sessions /\ phase[tx'[q].row] # "unused"
      BY <2>1 DEF Families, NoTx
    <3>2. QED
      BY <2>4, <2>5, <3>1, KeptFamilies DEF Families
  <2>10. QED
    BY <2>1, <2>4, <2>5, <2>6, <2>7, <2>8, <2>9 DEF Typed, TypeOK, TxType, Ops
<1>15. ASSUME NEW r \in Requests, Rollback(r)
       PROVE  Typed'
  <2>1. UserLocked' /\ NoReplay
    BY <1>15, EndKeeps DEF Rollback
  <2>2. tx' \in [Requests -> TxType]
    BY <1>15, EndTyped DEF Rollback
  <2>3. Families'
    BY <1>15, <2>1, KeptFamilies DEF Rollback, Families
  <2>4. QED
    BY <1>15, <2>1, <2>2, <2>3 DEF Rollback, Typed, TypeOK, TxType, Ops
<1>16. ASSUME NEW s \in Sessions, Logout(s)
       PROVE  Typed'
  <2>1. phase' = [phase EXCEPT ![s] = "revoked"] /\ phase[s] = "live"
    BY <1>16 DEF Logout, Usable, Valid
  <2>2. /\ phase' \in [Sessions -> {"unused", "live", "rotated", "revoked", "deleted"}]
        /\ \A t \in Sessions : phase'[t] = "unused" <=> phase[t] = "unused"
    BY <2>1 DEF TypeOK
  <2>3. UNCHANGED <<isolation, active, version, password, expired, family, stamp, proof, resets,
                    tx, replayed>>
    BY <1>16 DEF Logout
  <2>4. Families'
    BY <2>2, <2>3, KeptFamilies DEF Families
  <2>5. QED
    BY <2>2, <2>3, <2>4 DEF Typed, TypeOK, UserLocked
<1>17. ASSUME NEW s \in Sessions, SessionExpires(s)
       PROVE  Typed'
  <2>1. Families'
    BY <1>17, KeptFamilies DEF SessionExpires, Families
  <2>2. QED
    BY <1>17, <2>1 DEF SessionExpires, Typed, TypeOK, UserLocked
<1>18. CASE Cleanup
  <2>1. /\ phase' \in [Sessions -> {"unused", "live", "rotated", "revoked", "deleted"}]
        /\ \A t \in Sessions : phase'[t] = "unused" <=> phase[t] = "unused"
    BY <1>18 DEF Cleanup, TypeOK, Families
  <2>2. /\ UNCHANGED <<isolation, active, version, password, family, stamp, proof, resets,
                       tx, replayed>>
        /\ expired' = {}
    BY <1>18 DEF Cleanup
  <2>3. Families'
    BY <2>1, <2>2, KeptFamilies DEF Families
  <2>4. QED
    BY <2>1, <2>2, <2>3 DEF Typed, TypeOK, UserLocked
<1>19. ASSUME NEW c \in Resets, ResetExpires(c)
       PROVE  Typed'
  BY <1>19 DEF ResetExpires, Typed, TypeOK, UserLocked, Families, Opened
<1>20. CASE Reactivate
  BY <1>20 DEF Reactivate, Typed, TypeOK, UserLocked, Families, Opened
<1>21. CASE UNCHANGED vars
  BY <1>21 DEF Typed, TypeOK, UserLocked, Families, Opened
<1>22. QED
  BY <1>1, <1>2, <1>3, <1>4, <1>5, <1>6, <1>7, <1>8, <1>9, <1>10, <1>11, <1>12, <1>13, <1>14,
     <1>15, <1>16, <1>17, <1>18, <1>19, <1>20, <1>21
  DEF Next, Served, Presented

LEMMA TypedInvariant == Spec => []Typed
  BY TypedInit, TypedStep, PTL DEF Spec

\* Every column and every request in progress has its type in every reachable state.
THEOREM TypeCorrect == Spec => []TypeOK
<1>1. Typed => TypeOK
  BY DEF Typed
<1>2. QED
  BY <1>1, TypedInvariant, PTL

-----------------------------------------------------------------------------
(* A session that can be used goes back to a login with the present        *)
(* password, because a new password comes with a new version: what was     *)
(* read or stamped before is older.                                        *)

Stamped ==
    /\ \A s \in Sessions :
          /\ stamp[s] <= version
          /\ phase[s] = "live" /\ stamp[s] = version => proof[s] = password
    /\ \A r \in Requests : tx[r].op = "login" =>
          /\ tx[r].stamp <= version
          /\ tx[r].stamp = version => tx[r].proof = password

\* Steps that write neither the user nor a new row, and revive none.
LEMMA StampedKept ==
    ASSUME Stamped, UNCHANGED <<version, password, stamp, proof>>,
           \A s \in Sessions : phase'[s] = "live" => phase[s] = "live",
           \A r \in Requests : tx'[r].op = "login" => tx'[r] = tx[r]
    PROVE  Stamped'
  BY DEF Stamped

\* A request that begins is no login, or reads the user now.
LEMMA BeginNoLogin ==
    ASSUME TypeOK, NEW r \in Requests, NEW op \in Ops \ {"login"},
           NEW row \in Sessions \cup Resets \cup {None},
           NEW seen \in (SUBSET Sessions) \cup (SUBSET Resets), Begin(r, op, row, seen), Stamped
    PROVE  Stamped'
<1>1. /\ tx'[r].op = op
      /\ \A q \in Requests \ {r} : tx'[q] = tx[q]
      /\ UNCHANGED <<version, password, stamp, proof, phase>>
  BY BeginTyped DEF userVars, rowVars
<1>2. QED
  BY <1>1, StampedKept

LEMMA EndNoLogin ==
    ASSUME TypeOK, NEW r \in Requests, End(r)
    PROVE  \A q \in Requests : tx'[q].op = "login" => tx'[q] = tx[q]
<1>1. tx'[r] = NoTx /\ \A q \in Requests \ {r} : tx'[q] = tx[q]
  BY EndTyped
<1>2. QED
  BY <1>1 DEF NoTx

\* A new row is as old as what it was stamped with.
LEMMA StampedInsert ==
    ASSUME TypeOK, Stamped, NEW s \in Sessions, NEW f \in Sessions, NEW v \in 0..version,
           NEW p \in 0..MaxVersion, Insert(s, f, v, p), v = version => p = password,
           \A t \in Sessions \ {s} : phase'[t] = "live" => phase[t] = "live",
           UNCHANGED <<version, password>>,
           \A r \in Requests : tx'[r].op = "login" => tx'[r] = tx[r]
    PROVE  Stamped'
<1>1. /\ stamp'[s] = v /\ proof'[s] = p
      /\ \A t \in Sessions \ {s} : stamp'[t] = stamp[t] /\ proof'[t] = proof[t]
  BY DEF Insert, TypeOK
<1>2. v <= version
  BY DEF TypeOK
<1>3. QED
  BY <1>1, <1>2 DEF Stamped

LEMMA StampedStep == Typed /\ Stamped /\ [Next]_vars => Stamped'
<1> SUFFICES ASSUME Typed, TypeOK, UserLocked, Families, Stamped, [Next]_vars
             PROVE  Stamped'
  BY DEF Typed
<1> USE DEF vars, userVars, rowVars
<1>1. ASSUME NEW r \in Requests, LoginRead(r)
      PROVE  Stamped'
  <2>1. /\ tx'[r].stamp = version /\ tx'[r].proof = password
        /\ \A q \in Requests \ {r} : tx'[q] = tx[q]
    BY <1>1 DEF LoginRead, TypeOK
  <2>2. version <= version
    BY DEF TypeOK
  <2>3. QED
    BY <1>1, <2>1, <2>2 DEF LoginRead, Stamped
<1>2. ASSUME NEW r \in Requests, NEW s \in Sessions, LoginIssue(r, s)
      PROVE  Stamped'
  <2>1. /\ tx[r].op = "login"
        /\ Insert(s, s, tx[r].stamp, tx[r].proof)
        /\ End(r)
        /\ UNCHANGED <<version, password>>
        /\ phase' = [phase EXCEPT ![s] = "live"]
    BY <1>2 DEF LoginIssue, LoginStamp
  <2>2. /\ tx[r].stamp \in 0..version
        /\ tx[r].proof \in 0..MaxVersion
        /\ tx[r].stamp = version => tx[r].proof = password
    BY <2>1 DEF Stamped, TypeOK
  <2>3. \A t \in Sessions \ {s} : phase'[t] = "live" => phase[t] = "live"
    BY <2>1 DEF TypeOK
  <2>4. QED
    BY <2>1, <2>2, <2>3, EndNoLogin, StampedInsert
<1>3. ASSUME NEW s \in Sessions, GoogleLogin(s)
      PROVE  Stamped'
  <2>1. version \in 0..version /\ password \in 0..MaxVersion
    BY ServerSessionsAssumption DEF TypeOK
  <2>2. \A t \in Sessions \ {s} : phase'[t] = "live" => phase[t] = "live"
    BY <1>3 DEF GoogleLogin, TypeOK
  <2>3. QED
    BY <1>3, <2>1, <2>2, StampedInsert DEF GoogleLogin
<1>4. ASSUME NEW s \in Sessions, NEW n \in Sessions, Rotate(s, n)
      PROVE  Stamped'
  <2>1. phase[s] = "live" /\ stamp[s] = version
    BY <1>4 DEF Rotate, Usable, Valid
  <2>2. /\ stamp[s] \in 0..version /\ proof[s] \in 0..MaxVersion
        /\ proof[s] = password /\ family[s] \in Sessions
    BY <2>1, ServerSessionsAssumption DEF Stamped, TypeOK, Families, Opened
  <2>3. \A t \in Sessions \ {n} : phase'[t] = "live" => phase[t] = "live"
    BY <1>4, <2>1 DEF Rotate, TypeOK
  <2>4. Insert(n, family[s], stamp[s], proof[s]) /\ UNCHANGED <<version, password, tx>>
    BY <1>4 DEF Rotate
  <2>5. QED
    BY <2>1, <2>2, <2>3, <2>4, StampedInsert
<1>5. ASSUME NEW r \in Requests, NEW s \in Sessions, ReplayBegin(r, s)
      PROVE  Stamped'
  <2>1. FamilyOf(s) \in SUBSET Sessions
    BY DEF FamilyOf, Live
  <2>2. QED
    BY <1>5, <2>1, BeginNoLogin DEF ReplayBegin, Ops
<1>6. ASSUME NEW r \in Requests, NEW s \in Sessions, SweepBegin(r, s)
      PROVE  Stamped'
  BY <1>6, BeginNoLogin DEF SweepBegin, Ops, Live
<1>7. ASSUME NEW r \in Requests, NEW s \in Sessions, LogoutAllBegin(r, s)
      PROVE  Stamped'
  BY <1>7, BeginNoLogin DEF LogoutAllBegin, Ops, UserOps, Live
<1>8. ASSUME NEW r \in Requests, NEW c \in Resets, ResetBegin(r, c)
      PROVE  Stamped'
  BY <1>8, BeginNoLogin DEF ResetBegin, Ops, UserOps, Live
<1>9. ASSUME NEW r \in Requests, ChangeBegin(r) \/ SuspendBegin(r)
      PROVE  Stamped'
  BY <1>9, BeginNoLogin DEF ChangeBegin, SuspendBegin, Ops, UserOps, Live
<1>10. ASSUME NEW r \in Requests, ForgotBegin(r)
       PROVE  Stamped'
  <2>1. LiveResets \in SUBSET Resets
    BY DEF LiveResets
  <2>2. LiveResets \in (SUBSET Sessions) \cup (SUBSET Resets)
    BY <2>1
  <2>3. Begin(r, "forgot", None, LiveResets)
    BY <1>10 DEF ForgotBegin
  <2>4. QED
    BY <2>2, <2>3, BeginNoLogin DEF Ops
<1>11. ASSUME NEW r \in Requests, NEW c \in Resets, ForgotFinish(r, c)
       PROVE  Stamped'
  BY <1>11, EndNoLogin, StampedKept DEF ForgotFinish
<1>12. ASSUME NEW r \in Requests, ReplayFinish(r)
       PROVE  Stamped'
  <2>1. Replayed(r) \in SUBSET Live
    BY DEF Replayed, Found, FamilyOf
  <2>2. \A s \in Sessions : phase'[s] = "live" => phase[s] = "live"
    BY <1>12, <2>1, RevokeKeeps DEF ReplayFinish, Revoke
  <2>3. QED
    BY <1>12, <2>2, EndNoLogin, StampedKept DEF ReplayFinish
<1>13. ASSUME NEW r \in Requests, SweepFinish(r)
       PROVE  Stamped'
  <2>1. Found(r, Live) \in SUBSET Live
    BY DEF Found
  <2>2. \A s \in Sessions : phase'[s] = "live" => phase[s] = "live"
    BY <1>13, <2>1, RevokeKeeps DEF SweepFinish, Revoke
  <2>3. QED
    BY <1>13, <2>2, EndNoLogin, StampedKept DEF SweepFinish
<1>14. ASSUME NEW r \in Requests, Everything(r)
       PROVE  Stamped'
  <2>1. version' = version + 1 /\ version \in Nat
    BY <1>14 DEF Everything, NextVersion, TypeOK
  <2>2. \A s \in Sessions : stamp'[s] < version' /\ stamp'[s] \in Nat
    BY <1>14, <2>1 DEF Everything, Stamped, TypeOK
  <2>3. \A q \in Requests : tx'[q].op = "login" => tx'[q].stamp < version' /\ tx'[q].stamp \in Nat
    <3>1. \A q \in Requests : tx'[q].op = "login" => tx'[q] = tx[q]
      BY <1>14, EndNoLogin DEF Everything
    <3>2. \A q \in Requests : tx[q].stamp \in Nat
      BY DEF TypeOK
    <3>3. QED
      BY <2>1, <3>1, <3>2 DEF Stamped
  <2>4. QED
    BY <2>1, <2>2, <2>3 DEF Stamped
<1>15. ASSUME NEW r \in Requests, Rollback(r)
       PROVE  Stamped'
  BY <1>15, EndNoLogin, StampedKept DEF Rollback
<1>16. ASSUME NEW s \in Sessions, Logout(s)
       PROVE  Stamped'
  <2>1. \A t \in Sessions : phase'[t] = "live" => phase[t] = "live"
    BY <1>16 DEF Logout, TypeOK
  <2>2. QED
    BY <1>16, <2>1, StampedKept DEF Logout
<1>17. ASSUME NEW s \in Sessions, SessionExpires(s)
       PROVE  Stamped'
  BY <1>17, StampedKept DEF SessionExpires
<1>18. CASE Cleanup
  BY <1>18, StampedKept DEF Cleanup, TypeOK
<1>19. ASSUME NEW c \in Resets, ResetExpires(c)
       PROVE  Stamped'
  BY <1>19, StampedKept DEF ResetExpires
<1>20. CASE Reactivate
  BY <1>20, StampedKept DEF Reactivate
<1>21. CASE UNCHANGED vars
  BY <1>21, StampedKept
<1>22. QED
  BY <1>1, <1>2, <1>3, <1>4, <1>5, <1>6, <1>7, <1>8, <1>9, <1>10, <1>11, <1>12, <1>13, <1>14,
     <1>15, <1>16, <1>17, <1>18, <1>19, <1>20, <1>21
  DEF Next, Served, Presented

\* A session that can be used goes back to a login with the password the user has.
THEOREM UsableProved == Spec => []UsableHasProof
<1>1. Init => Stamped
  BY DEF Init, Stamped, NoTx
<1>2. Typed /\ Stamped => UsableHasProof
  BY DEF Stamped, UsableHasProof, Usable, Valid
<1>3. QED
  BY <1>1, <1>2, TypedInit, TypedStep, StampedStep, PTL DEF Spec

-----------------------------------------------------------------------------
(* What steps do to the rows: a login and a rotation issue one, all others *)
(* can only end some.                                                      *)

LoggedIn(s) ==
    /\ phase[s] = "unused"
    /\ family' = [family EXCEPT ![s] = s]
    /\ phase' = [phase EXCEPT ![s] = "live"]
    /\ \A t \in Sessions \ {s} : stamp'[t] = stamp[t]
    /\ UNCHANGED <<isolation, version, expired, replayed>>

Fewer ==
    /\ UNCHANGED <<isolation, family>>
    /\ \A s \in Sessions : /\ phase'[s] = "unused" <=> phase[s] = "unused"
                           /\ phase'[s] = "live" => phase[s] = "live"
                           /\ Valid(s)' => Valid(s)

\* Only the answer to a replay adds to the history of replays.
Answered ==
    isolation = "current" =>
        \A s \in Sessions : phase'[s] = "live" /\ family[s] \in replayed' => family[s] \in replayed

\* Steps that leave the version, the stamps and what has expired alone.
LEMMA FewerRows ==
    ASSUME UNCHANGED <<isolation, version, family, stamp, replayed>>, expired \subseteq expired',
           \A s \in Sessions : /\ phase'[s] = "unused" <=> phase[s] = "unused"
                               /\ phase'[s] = "live" => phase[s] = "live"
    PROVE  Fewer /\ Answered
  BY DEF Fewer, Answered, Valid

LEMMA FewerBegin ==
    ASSUME NEW r \in Requests, NEW op, NEW row, NEW seen, Begin(r, op, row, seen)
    PROVE  Fewer /\ Answered
  BY FewerRows DEF Begin, userVars, rowVars

LEMMA StepKinds ==
    Typed /\ Stamped /\ [Next]_vars =>
        \/ Fewer /\ Answered
        \/ \E s \in Sessions : LoggedIn(s)
        \/ \E s, n \in Sessions : Rotate(s, n)
<1> SUFFICES ASSUME Typed, TypeOK, UserLocked, Families, Stamped, [Next]_vars,
                    \A s, n \in Sessions : ~Rotate(s, n)
             PROVE  (Fewer /\ Answered) \/ \E s \in Sessions : LoggedIn(s)
  BY DEF Typed
<1> USE DEF vars, userVars, rowVars
<1>1. ASSUME NEW r \in Requests, LoginRead(r)
      PROVE  Fewer /\ Answered
  BY <1>1, FewerRows DEF LoginRead
<1>2. ASSUME NEW r \in Requests, NEW s \in Sessions, LoginIssue(r, s)
      PROVE  LoggedIn(s)
  BY <1>2 DEF LoginIssue, LoggedIn, Insert, TypeOK
<1>3. ASSUME NEW s \in Sessions, GoogleLogin(s)
      PROVE  LoggedIn(s)
  BY <1>3 DEF GoogleLogin, LoggedIn, Insert, TypeOK
<1>4. ASSUME NEW r \in Requests,
             \/ \E s \in Sessions : ReplayBegin(r, s) \/ SweepBegin(r, s) \/ LogoutAllBegin(r, s)
             \/ \E c \in Resets : ResetBegin(r, c)
             \/ ChangeBegin(r) \/ SuspendBegin(r) \/ ForgotBegin(r)
      PROVE  Fewer /\ Answered
  BY <1>4, FewerBegin DEF ReplayBegin, SweepBegin, LogoutAllBegin, ResetBegin, ChangeBegin,
     SuspendBegin, ForgotBegin
<1>5. ASSUME NEW r \in Requests, NEW c \in Resets, ForgotFinish(r, c)
      PROVE  Fewer /\ Answered
  BY <1>5, FewerRows DEF ForgotFinish
<1>6. ASSUME NEW r \in Requests, ReplayFinish(r)
      PROVE  Fewer /\ Answered
  <2>1. /\ UNCHANGED <<isolation, version, expired, family, stamp>>
        /\ phase' = [s \in Sessions |-> IF s \in Replayed(r) THEN "revoked" ELSE phase[s]]
        /\ replayed' = replayed \cup {family[tx[r].row]}
    BY <1>6 DEF ReplayFinish, Revoke
  <2>2. Replayed(r) \in SUBSET Live
    BY DEF Replayed, Found, FamilyOf
  <2>3. \A s \in Sessions : /\ phase'[s] = "unused" <=> phase[s] = "unused"
                            /\ phase'[s] = "live" => phase[s] = "live"
    BY <2>1, <2>2, RevokeKeeps
  <2>4. Fewer
    BY <2>1, <2>3 DEF Fewer, Valid
  <2>5. ASSUME isolation = "current", NEW s \in Sessions, phase'[s] = "live"
        PROVE  family[s] # family[tx[r].row]
    <3>1. Replayed(r) = FamilyOf(tx[r].row)
      BY <2>5 DEF Replayed, Found
    <3>2. s \notin Replayed(r) /\ s \in Live
      BY <2>1, <2>3, <2>5 DEF Live
    <3>3. QED
      BY <3>1, <3>2 DEF FamilyOf
  <2>6. QED
    BY <2>1, <2>4, <2>5 DEF Answered
<1>7. ASSUME NEW r \in Requests, SweepFinish(r)
      PROVE  Fewer /\ Answered
  <2>1. Found(r, Live) \in SUBSET Live
    BY DEF Found
  <2>2. \A s \in Sessions : /\ phase'[s] = "unused" <=> phase[s] = "unused"
                            /\ phase'[s] = "live" => phase[s] = "live"
    BY <1>7, <2>1, RevokeKeeps DEF SweepFinish, Revoke
  <2>3. QED
    BY <1>7, <2>2, FewerRows DEF SweepFinish
<1>8. ASSUME NEW r \in Requests, Everything(r)
      PROVE  Fewer /\ Answered
  <2>1. Found(r, Live) \in SUBSET Live
    BY DEF Found
  <2>2. \A s \in Sessions : /\ phase'[s] = "unused" <=> phase[s] = "unused"
                            /\ phase'[s] = "live" => phase[s] = "live"
    BY <1>8, <2>1, RevokeKeeps DEF Everything
  <2>3. \A s \in Sessions : ~Valid(s)'
    <3>1. \A s \in Sessions : stamp[s] < version + 1 /\ stamp[s] \in Nat
      BY DEF Stamped, TypeOK
    <3>2. stamp' = stamp /\ version' = version + 1
      BY <1>8 DEF Everything, NextVersion
    <3>3. QED
      BY <3>1, <3>2 DEF Valid
  <2>4. QED
    BY <1>8, <2>2, <2>3 DEF Everything, Fewer, Answered
<1>9. ASSUME NEW r \in Requests, Rollback(r)
      PROVE  Fewer /\ Answered
  BY <1>9, FewerRows DEF Rollback
<1>10. ASSUME NEW s \in Sessions, Logout(s)
       PROVE  Fewer /\ Answered
  <2>1. \A t \in Sessions : /\ phase'[t] = "unused" <=> phase[t] = "unused"
                            /\ phase'[t] = "live" => phase[t] = "live"
    BY <1>10 DEF Logout, Usable, Valid, TypeOK
  <2>2. QED
    BY <1>10, <2>1, FewerRows DEF Logout
<1>11. ASSUME NEW s \in Sessions, SessionExpires(s)
       PROVE  Fewer /\ Answered
  BY <1>11, FewerRows DEF SessionExpires
<1>12. CASE Cleanup
  <2>1. \A s \in Sessions : /\ phase'[s] = "unused" <=> phase[s] = "unused"
                            /\ phase'[s] = "live" => phase[s] = "live" /\ s \notin expired
    BY <1>12 DEF Cleanup, Families
  <2>2. UNCHANGED <<isolation, version, family, stamp, replayed>>
    BY <1>12 DEF Cleanup
  <2>3. QED
    BY <2>1, <2>2 DEF Fewer, Answered, Valid
<1>13. ASSUME NEW c \in Resets, ResetExpires(c)
       PROVE  Fewer /\ Answered
  BY <1>13, FewerRows DEF ResetExpires
<1>14. CASE Reactivate
  BY <1>14, FewerRows DEF Reactivate
<1>15. CASE UNCHANGED vars
  BY <1>15, FewerRows
<1>16. QED
  BY <1>1, <1>2, <1>3, <1>4, <1>5, <1>6, <1>7, <1>8, <1>9, <1>10, <1>11, <1>12, <1>13, <1>14,
     <1>15
  DEF Next, Served, Presented

\* A row that is not in use belongs to no family, and no family is named after it.
LEMMA UnusedAlone ==
    ASSUME Families, NEW s \in Sessions, phase[s] = "unused"
    PROVE  /\ family[s] = None /\ s \notin Opened /\ s \notin replayed /\ s \notin expired
           /\ \A t \in Sessions : family[t] # s
<1>1. family[s] = None /\ s \notin expired
  BY DEF Families
<1>2. s # None
  BY ServerSessionsAssumption
<1>3. s \notin Opened
  BY <1>1, <1>2 DEF Opened
<1>4. QED
  BY <1>1, <1>2, <1>3 DEF Families

-----------------------------------------------------------------------------
(* Where an UPDATE finds the rows of the moment, a replay that was         *)
(* answered has ended its family: no row joins a family but by a rotation, *)
(* which needs a live row of that family.                                  *)

LEMMA ReplayStep == Typed /\ Stamped /\ ReplayEndsFamily /\ [Next]_vars => ReplayEndsFamily'
<1> SUFFICES ASSUME Typed, TypeOK, Families, Stamped, ReplayEndsFamily, [Next]_vars,
                    isolation' = "current", NEW s \in Sessions, phase'[s] = "live"
             PROVE  family'[s] \notin replayed'
  BY DEF ReplayEndsFamily, Live, Typed
<1>1. CASE Fewer /\ Answered
  BY <1>1 DEF Fewer, Answered, ReplayEndsFamily, Live
<1>2. ASSUME NEW n \in Sessions, LoggedIn(n)
      PROVE  family'[s] \notin replayed'
  <2>1. n \notin replayed
    BY <1>2, UnusedAlone DEF LoggedIn
  <2>2. family'[s] = IF s = n THEN n ELSE family[s]
    BY <1>2 DEF LoggedIn, TypeOK
  <2>3. s # n => phase[s] = "live"
    BY <1>2 DEF LoggedIn, TypeOK
  <2>4. QED
    BY <1>2, <2>1, <2>2, <2>3 DEF LoggedIn, ReplayEndsFamily, Live
<1>3. ASSUME NEW o \in Sessions, NEW n \in Sessions, Rotate(o, n)
      PROVE  family'[s] \notin replayed'
  <2>1. phase[o] = "live" /\ family[o] \notin replayed
    BY <1>3 DEF Rotate, Usable, Valid, ReplayEndsFamily, Live
  <2>2. family'[s] = IF s = n THEN family[o] ELSE family[s]
    BY <1>3 DEF Rotate, Insert, TypeOK
  <2>3. s # n => phase[s] = "live"
    BY <1>3, <2>1 DEF Rotate, TypeOK
  <2>4. QED
    BY <1>3, <2>1, <2>2, <2>3 DEF Rotate, ReplayEndsFamily, Live
<1>4. QED
  BY <1>1, <1>2, <1>3, StepKinds

\* After a replay was answered, no token of the family is left.
THEOREM ReplayProved == Spec => []ReplayEndsFamily
<1>1. Init => Stamped
  BY DEF Init, Stamped, NoTx
<1>2. Init => ReplayEndsFamily
  BY DEF Init, ReplayEndsFamily, Live
<1>3. QED
  BY <1>1, <1>2, TypedInit, TypedStep, StampedStep, ReplayStep, PTL DEF Spec

-----------------------------------------------------------------------------
(* One valid token in a family at most: the implementation of              *)
(* FamilyContract.                                                         *)

OneLive == \A s, t \in Live : family[s] = family[t] => s = t

LEMMA OneLiveStep == Typed /\ Stamped /\ OneLive /\ [Next]_vars => OneLive'
<1> SUFFICES ASSUME Typed, TypeOK, Families, Stamped, OneLive, [Next]_vars,
                    NEW s \in Sessions, NEW t \in Sessions, phase'[s] = "live", phase'[t] = "live",
                    family'[s] = family'[t]
             PROVE  s = t
  BY DEF OneLive, Live, Typed
<1>1. CASE Fewer /\ Answered
  BY <1>1 DEF Fewer, OneLive, Live
<1>2. ASSUME NEW n \in Sessions, LoggedIn(n)
      PROVE  s = t
  <2>1. \A u \in Sessions : family[u] # n
    BY <1>2, UnusedAlone DEF LoggedIn
  <2>2. \A u \in Sessions \ {n} : family'[u] = family[u] /\ phase'[u] = phase[u]
    BY <1>2 DEF LoggedIn, TypeOK
  <2>3. family'[n] = n
    BY <1>2 DEF LoggedIn, TypeOK
  <2>4. QED
    BY <2>1, <2>2, <2>3 DEF OneLive, Live
<1>3. ASSUME NEW o \in Sessions, NEW n \in Sessions, Rotate(o, n)
      PROVE  s = t
  <2>1. phase[o] = "live" /\ phase[n] = "unused" /\ phase'[o] = "rotated"
    BY <1>3 DEF Rotate, Usable, Valid, Insert, AfterRotation, TypeOK
  <2>2. \A u \in Sessions \ {o, n} : family'[u] = family[u] /\ phase'[u] = phase[u]
    BY <1>3 DEF Rotate, Insert, TypeOK
  <2>3. family'[n] = family[o]
    BY <1>3 DEF Rotate, Insert, TypeOK
  <2>4. QED
    BY <2>1, <2>2, <2>3 DEF OneLive, Live
<1>4. QED
  BY <1>1, <1>2, <1>3, StepKinds

Issued == {s \in Sessions : phase[s] # "unused"}

\* A step that ends sessions ends what is valid in some families.
LEMMA FewerRefines ==
    ASSUME OneLive, Fewer
    PROVE  Contract!End
<1>1. Issued' = Issued /\ Opened' = Opened
  BY DEF Fewer, Issued, Opened
<1>2. ASSUME NEW f \in Sessions
      PROVE  ValidOf'[f] = {} \/ ValidOf'[f] = ValidOf[f]
  <2>1. ValidOf'[f] \subseteq ValidOf[f]
    BY DEF Fewer, ValidOf
  <2>2. \A s, t \in ValidOf[f] : s = t
    BY DEF OneLive, Live, ValidOf, Valid
  <2>3. QED
    BY <2>1, <2>2
<1>3. ValidOf' = [f \in Sessions |-> IF ValidOf'[f] = {} THEN {} ELSE ValidOf[f]]
  BY <1>2 DEF ValidOf
<1>4. QED
  BY <1>1, <1>3 DEF Contract!End, Issued

\* A login opens a family of its own, with a valid token unless it comes too late.
LEMMA LoginRefines ==
    ASSUME TypeOK, Families, NEW s \in Sessions, LoggedIn(s)
    PROVE  Contract!Open(s, s)
<1>1. /\ phase'[s] = "live" /\ family'[s] = s
      /\ \A t \in Sessions \ {s} : family'[t] = family[t] /\ phase'[t] = phase[t]
  BY DEF LoggedIn, TypeOK
<1>2. /\ s \notin Opened /\ family[s] = None
      /\ \A t \in Sessions : family[t] # s
  BY UnusedAlone DEF LoggedIn
<1>3. s \notin Issued /\ Issued' = Issued \cup {s}
  BY <1>1 DEF LoggedIn, Issued
<1>4. Opened' = Opened \cup {s}
  BY <1>1, <1>2 DEF Opened
<1>5. ValidOf[s] = {}
  BY <1>2 DEF ValidOf
<1>6. ASSUME NEW f \in Sessions \ {s}
      PROVE  ValidOf'[f] = ValidOf[f]
  <2>1. \A t \in Sessions \ {s} : Valid(t)' <=> Valid(t)
    BY <1>1 DEF Valid, LoggedIn
  <2>2. s \notin ValidOf[f] /\ s \notin ValidOf'[f]
    BY <1>1, <1>2, ServerSessionsAssumption DEF ValidOf
  <2>3. QED
    BY <1>1, <2>1, <2>2 DEF ValidOf
<1>7. ValidOf'[s] = {s} \/ ValidOf'[s] = {}
  BY <1>1, <1>2 DEF ValidOf
<1>8. ValidOf' = [ValidOf EXCEPT ![s] = {s}] \/ ValidOf' = ValidOf
  BY <1>5, <1>6, <1>7 DEF ValidOf
<1>9. QED
  BY <1>2, <1>3, <1>4, <1>8 DEF Contract!Open, Contract!Issue, Issued

\* The successor is the only valid token of the family.
LEMMA RotateRefines ==
    ASSUME TypeOK, Families, OneLive, NEW s \in Sessions, NEW n \in Sessions, Rotate(s, n)
    PROVE  Contract!Rotate(family[s], n)
<1>1. /\ Valid(s) /\ phase[s] = "live" /\ phase[n] = "unused"
      /\ UNCHANGED <<version, expired>>
  BY DEF Rotate, Usable, Valid, Insert, userVars
<1>2. /\ phase'[s] = "rotated" /\ phase'[n] = "live"
      /\ family'[n] = family[s] /\ stamp'[n] = stamp[s]
      /\ \A t \in Sessions \ {n} : family'[t] = family[t] /\ stamp'[t] = stamp[t]
      /\ \A t \in Sessions \ {s, n} : phase'[t] = phase[t]
  BY <1>1 DEF Rotate, Insert, AfterRotation, TypeOK
<1>3. /\ family[n] = None /\ n \notin expired
      /\ \A t \in Sessions : family[t] # n
  BY <1>1, UnusedAlone
<1>4. family[s] \in Sessions /\ family[s] # n
  BY <1>1, <1>3 DEF Families, Opened
<1>5. n \notin Issued /\ Issued' = Issued \cup {n}
  BY <1>1, <1>2 DEF Issued
<1>6. Opened' = Opened
  BY <1>2, <1>3, <1>4 DEF Opened
<1>7. s \in ValidOf[family[s]]
  BY <1>1, <1>4 DEF ValidOf
<1>8. ValidOf'[family[s]] = {n}
  <2>1. Valid(n)'
    BY <1>1, <1>2, <1>3 DEF Valid
  <2>2. ASSUME NEW t \in Sessions \ {n}, family[t] = family[s]
        PROVE  ~Valid(t)'
    BY <1>1, <1>2, <2>2 DEF OneLive, Live, Valid
  <2>3. QED
    BY <1>2, <1>4, <2>1, <2>2 DEF ValidOf
<1>9. ASSUME NEW f \in Sessions \ {family[s]}
      PROVE  ValidOf'[f] = ValidOf[f]
  <2>1. \A t \in Sessions \ {s, n} : Valid(t)' <=> Valid(t)
    BY <1>1, <1>2 DEF Valid
  <2>2. n \notin ValidOf[f]
    BY <1>3, ServerSessionsAssumption DEF ValidOf
  <2>3. QED
    BY <1>2, <2>1, <2>2 DEF ValidOf
<1>10. ValidOf' = [ValidOf EXCEPT ![family[s]] = {n}]
  BY <1>4, <1>8, <1>9 DEF ValidOf
<1>11. QED
  BY <1>4, <1>5, <1>6, <1>7, <1>10 DEF Contract!Rotate, Contract!Issue, Issued

LEMMA RefinementStep ==
    Typed /\ Stamped /\ OneLive /\ [Next]_vars => [Contract!Next]_<<Issued, Opened, ValidOf>>
<1> SUFFICES ASSUME Typed, TypeOK, Families, Stamped, OneLive, [Next]_vars
             PROVE  Contract!Next
  BY DEF Typed
<1>1. CASE Fewer
  BY <1>1, FewerRefines DEF Contract!Next
<1>2. ASSUME NEW s \in Sessions, LoggedIn(s)
      PROVE  Contract!Next
  BY <1>2, LoginRefines DEF Contract!Next
<1>3. ASSUME NEW s \in Sessions, NEW n \in Sessions, Rotate(s, n)
      PROVE  Contract!Next
  <2>1. family[s] \in Sessions
    BY <1>3 DEF Rotate, Usable, Valid, Families, Opened
  <2>2. QED
    BY <1>3, <2>1, RotateRefines DEF Contract!Next
<1>4. QED
  BY <1>1, <1>2, <1>3, StepKinds

\* Whatever is presented when, and whatever the database does, one token of a family is
\* valid at most, each was handed out once, and an ended family stays ended.
THEOREM Refinement == Spec => KeepsContract
<1>1. Init => Stamped /\ OneLive
  BY DEF Init, Stamped, NoTx, OneLive, Live
<1>2. Init => Contract!Init
  BY ServerSessionsAssumption DEF Init, Contract!Init, Opened, ValidOf, Valid
<1>3. QED
  BY <1>1, <1>2, TypedInit, TypedStep, StampedStep, OneLiveStep, RefinementStep, PTL
  DEF Spec, KeepsContract, Contract!Spec, Issued

=============================================================================
