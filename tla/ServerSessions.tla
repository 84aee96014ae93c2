--------------------------- MODULE ServerSessions ---------------------------
(***************************************************************************)
(* The sessions of one user of the Laravel server: the table               *)
(* refresh_sessions, with its one-time tokens for a new password.  A row   *)
(* is found by its token, of which only a hash is stored, so that rows and *)
(* tokens are the same here.                                               *)
(*                                                                         *)
(* A transaction that decides on locked rows is one step.  Not so the ones *)
(* that end with an UPDATE of every session of a family or of the user:    *)
(* which rows it finds depends on the isolation of the database.  They     *)
(* begin with what they lock and read, and finish with the UPDATE and the  *)
(* commit.  A login reads the user without a lock and inserts a row later. *)
(***************************************************************************)
EXTENDS Naturals, FiniteSets

CONSTANTS
    Sessions,      \* rows of refresh_sessions
    Resets,        \* rows of password_reset_codes
    Requests,      \* requests that are served at a time, in several steps
    Isolations,    \* what the databases may do, see isolation
    MaxVersion,    \* bound on users.session_version
    None           \* no row

ASSUME ServerSessionsAssumption ==
    /\ Isolations \subseteq {"snapshot", "current"}
    /\ MaxVersion \in Nat \ {0}
    /\ None \notin Sessions \cup Resets

VARIABLES
    isolation,     \* an UPDATE finds the rows of its "snapshot", taken when it starts
                   \* (PostgreSQL), or the "current" ones (MySQL, SQLite)
    active,        \* users.status is ACTIVE
    version,       \* users.session_version
    password,      \* which password the user has: 1 for the first
    phase,         \* of a row: unused; live; rotated (and revoked); revoked; deleted
    expired,       \* rows whose expires_at is past
    family,        \* family_id, the row of the login
    stamp,         \* session_version of a row
    proof,         \* history: the password the user had when the login checked it
    resets,        \* of a one-time token: unissued; live; used (or expired)
    tx,            \* what each request in progress has locked and read
    replayed       \* history: families of which a replay was answered

userVars == <<active, version, password>>
rowVars  == <<phase, expired, family, stamp, proof>>
vars     == <<isolation, userVars, rowVars, resets, tx, replayed>>

NoTx == [op |-> "none", row |-> None, stamp |-> 0, proof |-> 0, seen |-> {}]

Live == {s \in Sessions : phase[s] = "live"}

-----------------------------------------------------------------------------
(* Locks *)

\* These transactions hold the row of the user until they commit.
UserOps == {"logoutAll", "reset", "change", "suspend"}

UserFree == \A r \in Requests : tx[r].op \notin UserOps

\* The session a replay or a logout presents is locked, a one-time token as well.
RowFree(s) == \A r \in Requests : tx[r].row # s

Begin(r, op, row, seen) ==
    /\ tx[r].op = "none"
    /\ tx' = [tx EXCEPT ![r] = [op |-> op, row |-> row, stamp |-> 0, proof |-> 0, seen |-> seen]]
    /\ UNCHANGED <<isolation, userVars, rowVars, resets, replayed>>

End(r) == tx' = [tx EXCEPT ![r] = NoTx]

\* The transaction throws, is chosen as the victim of a deadlock, or its process dies.
Rollback(r) ==
    /\ tx[r].op # "none"
    /\ End(r)
    /\ UNCHANGED <<isolation, userVars, rowVars, resets, replayed>>

\* The rows an UPDATE changes: among those that match now, the ones it finds.
Found(r, matching) ==
    IF isolation = "snapshot" THEN matching \cap tx[r].seen ELSE matching

-----------------------------------------------------------------------------
(* Logins *)

Insert(s, f, v, p) ==
    /\ phase[s] = "unused"
    /\ family' = [family EXCEPT ![s] = f]
    /\ stamp' = [stamp EXCEPT ![s] = v]
    /\ proof' = [proof EXCEPT ![s] = p]

\* Reads the user, checks the password.
LoginRead(r) ==
    /\ active
    /\ tx[r].op = "none"
    /\ tx' = [tx EXCEPT ![r] = [op |-> "login", row |-> None, stamp |-> version,
                                proof |-> password, seen |-> {}]]
    /\ UNCHANGED <<isolation, userVars, rowVars, resets, replayed>>

\* Mutant: the session gets the version of the moment.
LoginStamp_Now(r) == version

LoginStamp(r) == tx[r].stamp

LoginIssue(r, s) ==
    /\ tx[r].op = "login"
    /\ Insert(s, s, LoginStamp(r), tx[r].proof)
    /\ phase' = [phase EXCEPT ![s] = "live"]
    /\ End(r)
    /\ UNCHANGED <<isolation, userVars, expired, resets, replayed>>

\* With Google: the row of the user stays locked until the session is there.
GoogleLogin(s) ==
    /\ active
    /\ UserFree
    /\ Insert(s, s, version, password)
    /\ phase' = [phase EXCEPT ![s] = "live"]
    /\ UNCHANGED <<isolation, userVars, expired, resets, tx, replayed>>

-----------------------------------------------------------------------------
(* Refresh and logout *)

\* What the middleware and assertUsable ask of a session, apart from an active user.
Valid(s) ==
    /\ phase[s] = "live"
    /\ s \notin expired
    /\ stamp[s] = version

Usable(s) == active /\ Valid(s)

\* Mutant: the row that was rotated stays live.
AfterRotation_StaysLive == "live"

AfterRotation == "rotated"

Rotate(s, n) ==
    /\ RowFree(s)
    /\ UserFree
    /\ Usable(s)
    /\ Insert(n, family[s], stamp[s], proof[s])
    /\ phase' = [phase EXCEPT ![s] = AfterRotation, ![n] = "live"]
    /\ UNCHANGED <<isolation, userVars, expired, resets, tx, replayed>>

\* A rotated token comes back: the whole family is revoked.
FamilyOf(s) == {t \in Live : family[t] = family[s]}

ReplayBegin(r, s) ==
    /\ RowFree(s)
    /\ phase[s] = "rotated"
    /\ Begin(r, "replay", s, FamilyOf(s))

\* Mutant: only the successor of the presented token is revoked, if it is still there.
Replayed_Seen(r) == FamilyOf(tx[r].row) \cap tx[r].seen

Replayed(r) == Found(r, FamilyOf(tx[r].row))

Revoke(found) ==
    /\ \A s \in found, q \in Requests : tx[q].op = "logoutAll" => tx[q].row # s
    /\ phase' = [s \in Sessions |-> IF s \in found THEN "revoked" ELSE phase[s]]

ReplayFinish(r) ==
    /\ tx[r].op = "replay"
    /\ Revoke(Replayed(r))
    /\ replayed' = replayed \cup {family[tx[r].row]}
    /\ End(r)
    /\ UNCHANGED <<isolation, userVars, expired, family, stamp, proof, resets>>

\* A session presented for a suspended user: rolled back, then all are revoked.
SweepBegin(r, s) ==
    /\ RowFree(s)
    /\ UserFree
    /\ ~active
    /\ phase[s] = "live" /\ s \notin expired
    /\ Begin(r, "sweep", None, Live)

SweepFinish(r) ==
    /\ tx[r].op = "sweep"
    /\ Revoke(Found(r, Live))
    /\ End(r)
    /\ UNCHANGED <<isolation, userVars, expired, family, stamp, proof, resets, replayed>>

Logout(s) ==
    /\ RowFree(s)
    /\ UserFree
    /\ Usable(s)
    /\ phase' = [phase EXCEPT ![s] = "revoked"]
    /\ UNCHANGED <<isolation, userVars, expired, family, stamp, proof, resets, tx, replayed>>

-----------------------------------------------------------------------------
(* What ends every session of the user *)

LogoutAllBegin(r, s) ==
    /\ RowFree(s)
    /\ UserFree
    /\ Usable(s)
    /\ version < MaxVersion
    /\ Begin(r, "logoutAll", s, Live)

\* The one-time token is used up in the same transaction.
ResetBegin(r, c) ==
    /\ RowFree(c)
    /\ resets[c] = "live"
    /\ UserFree
    /\ version < MaxVersion
    /\ Begin(r, "reset", c, Live)

\* With the current password, by someone the middleware let in a while ago.
ChangeBegin(r) ==
    /\ UserFree
    /\ version < MaxVersion
    /\ Begin(r, "change", None, Live)

SuspendBegin(r) ==
    /\ UserFree
    /\ version < MaxVersion
    /\ Begin(r, "suspend", None, Live)

NextVersion(r) == version + 1

Everything(r) ==
    /\ tx[r].op \in UserOps
    /\ \A s \in Found(r, Live), q \in Requests \ {r} :
          tx[q].op = "logoutAll" => tx[q].row # s
    /\ phase' = [s \in Sessions |-> IF s \in Found(r, Live) THEN "revoked" ELSE phase[s]]
    /\ version' = NextVersion(r)
    /\ active' = (active /\ tx[r].op # "suspend")
    /\ password' = IF tx[r].op \in {"reset", "change"} THEN password + 1 ELSE password
    /\ resets' = [c \in Resets |-> IF tx[r].op = "reset" /\ tx[r].row = c
                                     THEN "used" ELSE resets[c]]
    /\ End(r)
    /\ UNCHANGED <<isolation, expired, family, stamp, proof, replayed>>

Reactivate ==
    /\ UserFree
    /\ active' = TRUE
    /\ UNCHANGED <<isolation, version, password, rowVars, resets, tx, replayed>>

-----------------------------------------------------------------------------
(* One-time tokens *)

LiveResets == {c \in Resets : resets[c] = "live"}

ForgotBegin(r) == Begin(r, "forgot", None, LiveResets)

\* A new token replaces those that are found.
ForgotFinish(r, c) ==
    /\ tx[r].op = "forgot"
    /\ resets[c] = "unissued"
    /\ \A d \in Found(r, LiveResets) : RowFree(d)
    /\ resets' = [d \in Resets |-> IF d = c THEN "live"
                                   ELSE IF d \in Found(r, LiveResets) THEN "used"
                                   ELSE resets[d]]
    /\ End(r)
    /\ UNCHANGED <<isolation, userVars, rowVars, replayed>>

-----------------------------------------------------------------------------
(* Time *)

\* Nobody can tell whether a revoked row has expired.
SessionExpires(s) ==
    /\ phase[s] \in {"live", "rotated"}
    /\ expired' = expired \cup {s}
    /\ UNCHANGED <<isolation, userVars, phase, family, stamp, proof, resets, tx, replayed>>

\* cleanupExpired, which waits for the rows that are locked.
Cleanup ==
    /\ \A s \in expired : RowFree(s)
    /\ expired' = {}
    /\ phase' = [s \in Sessions |-> IF s \in expired THEN "deleted" ELSE phase[s]]
    /\ UNCHANGED <<isolation, userVars, family, stamp, proof, resets, tx, replayed>>

ResetExpires(c) ==
    /\ resets[c] = "live"
    /\ RowFree(c)
    /\ resets' = [resets EXCEPT ![c] = "used"]
    /\ UNCHANGED <<isolation, userVars, rowVars, tx, replayed>>

-----------------------------------------------------------------------------
Init ==
    /\ isolation \in Isolations
    /\ active = TRUE
    /\ version = 1
    /\ password = 1
    /\ phase = [s \in Sessions |-> "unused"]
    /\ expired = {}
    /\ family = [s \in Sessions |-> None]
    /\ stamp = [s \in Sessions |-> 0]
    /\ proof = [s \in Sessions |-> 0]
    /\ resets = [c \in Resets |-> "unissued"]
    /\ tx = [r \in Requests |-> NoTx]
    /\ replayed = {}

Presented(s) == Logout(s) \/ SessionExpires(s) \/ \E n \in Sessions : Rotate(s, n)

Served(r) ==
    \/ LoginRead(r)
    \/ \E s \in Sessions :
          LoginIssue(r, s) \/ ReplayBegin(r, s) \/ SweepBegin(r, s) \/ LogoutAllBegin(r, s)
    \/ \E c \in Resets : ResetBegin(r, c) \/ ForgotFinish(r, c)
    \/ ChangeBegin(r) \/ SuspendBegin(r) \/ ForgotBegin(r)
    \/ ReplayFinish(r) \/ SweepFinish(r) \/ Everything(r) \/ Rollback(r)

Next ==
    \/ \E r \in Requests : Served(r)
    \/ \E s \in Sessions : Presented(s) \/ GoogleLogin(s)
    \/ \E c \in Resets : ResetExpires(c)
    \/ Reactivate
    \/ Cleanup

Spec == Init /\ [][Next]_vars

-----------------------------------------------------------------------------
(* Properties *)

\* Every column has its type, and no password changes without the version.
TypeOK ==
    /\ isolation \in Isolations
    /\ active \in BOOLEAN
    /\ version \in 1..MaxVersion
    /\ password \in 1..version
    /\ phase \in [Sessions -> {"unused", "live", "rotated", "revoked", "deleted"}]
    /\ expired \subseteq Sessions
    /\ family \in [Sessions -> Sessions \cup {None}]
    /\ stamp \in [Sessions -> 0..MaxVersion]
    /\ proof \in [Sessions -> 0..MaxVersion]
    /\ resets \in [Resets -> {"unissued", "live", "used"}]
    /\ tx \in [Requests -> [op : {"none", "login", "replay", "sweep", "forgot"} \cup UserOps,
                            row : Sessions \cup Resets \cup {None},
                            stamp : 0..MaxVersion, proof : 0..MaxVersion,
                            seen : (SUBSET Sessions) \cup (SUBSET Resets)]]
    /\ replayed \subseteq Sessions

\* A session that can be used goes back to a login with the password the user has now:
\* also if the login was in progress when the password changed, whatever rotations,
\* suspensions and reactivations came between.
UsableHasProof == \A s \in Sessions : Usable(s) => proof[s] = password

\* After a replay was answered, no token of the family is left.
ReplayEndsFamily ==
    isolation = "current" =>
        \A s \in Live : family[s] \notin replayed

Opened == {f \in Sessions : family[f] = f}

ValidOf == [f \in Sessions |-> {s \in Sessions : family[s] = f /\ Valid(s)}]

Contract == INSTANCE FamilyContract
                WITH Families <- Sessions, Tokens <- Sessions,
                     issued <- {s \in Sessions : phase[s] # "unused"},
                     opened <- Opened, valid <- ValidOf

\* Requests that present the same token at once, replays, logins that come too late and
\* cleanups leave one valid token in a family at most, and an ended family ended.
KeepsContract == Contract!Spec

\* Documentation of the identity cycle: a replay revokes the whole family.
ReplayRevokesFamily == \A s \in Live : family[s] \notin replayed
=============================================================================
