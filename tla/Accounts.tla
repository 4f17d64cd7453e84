------------------------------ MODULE Accounts ------------------------------
(***************************************************************************)
(* Accounts, invites and sign-in sessions (server/src/api/auth.rs,         *)
(* api/admin/users.rs and the queries they call).  Every handler is a      *)
(* sequence of SQL statements with nothing held between them, so a request *)
(* is a slot with a program counter and two of them interleave freely:     *)
(* two redemptions of one code, two owners that remove each other, a login *)
(* that verified the password somebody replaces, a rehash of the old one.  *)
(*                                                                         *)
(* users.id and sessions.id are INTEGER PRIMARY KEY without AUTOINCREMENT: *)
(* the next id is the highest one plus one, so the id of the youngest row  *)
(* comes back after a delete.  An account's birth tells the two apart.     *)
(***************************************************************************)
EXTENDS Naturals, FiniteSets, TLC

CONSTANTS
    Invites,        \* invites, each created at most once
    Passwords,      \* passwords
    First,          \* the password chosen at sign-up
    MaxUsers,       \* bound: highest users.id
    MaxSessions,    \* bound: highest sessions.id
    MaxBirths,      \* bound: accounts ever created
    Slots,          \* bound: requests in flight
    MaxRequests,    \* bound: requests that start after the setup, and sessions
                    \* that end
    MaxDrops        \* bound: requests dropped or failed between statements

ASSUME AccountAssumption ==
    /\ MaxUsers \in Nat \ {0, 1} /\ MaxSessions \in Nat \ {0}
    /\ MaxBirths \in Nat \ {0} /\ MaxRequests \in Nat /\ MaxDrops \in Nat
    /\ First \in Passwords
    /\ Invites \cap Passwords = {} /\ "none" \notin Invites

VARIABLES
    acct,       \* users.id |-> the row
    invite,     \* invite |-> its row: st, maker (created_by), by (consumed_by)
    sess,       \* sessions.id |-> the row
    req,        \* slot |-> the request in flight
    births,     \* history: accounts created
    overlap,    \* history: two guarded removals were past their role read at once
    odd,        \* history: births with a story (Stories)
    started, drops

vars == <<acct, invite, sess, req, births, overlap, odd, started, drops>>

Users    == 1..MaxUsers
Sessions == 1..MaxSessions
None     == 0

\* alias: a request wrote to the id after it had passed to another account.
\* orphan: its registration was dropped before the invite was consumed.
\* unswept: the password changed, the sessions were not deleted.
\* reverted: a rehash put the older password back.
Stories == {"alias", "orphan", "unswept", "reverted"}

NoAccount == [st |-> "none", role |-> "user", locked |-> FALSE, pw |-> First,
              weak |-> FALSE, birth |-> 0, via |-> "none", granted |-> {}]
NoSession == [u |-> None, under |-> First]
NoRequest == [op |-> "idle", pc |-> "idle", u |-> None, birth |-> 0, arg |-> "none",
              keep |-> None]

Here      == {u \in Users : acct[u].st # "none"}
Owners    == {u \in Here : acct[u].role = "owner"}
Live      == {s \in Sessions : sess[s] # NoSession}
Told(b, what) == odd' = odd \cup {<<b, what>>}
Settled(b) == odd' = odd \ {<<b, "unswept">>, <<b, "reverted">>}
Story(u)  == {what \in Stories : <<acct[u].birth, what>> \in odd}

\* INTEGER PRIMARY KEY: one more than the highest id in the table.
Highest(ids) == IF ids = {} THEN 0 ELSE CHOOSE u \in ids : \A w \in ids : w <= u
NextUser     == Highest(Here) + 1
NextSession  == Highest(Live) + 1

Idle(i)    == req[i].op = "idle"
At(i, pc)  == req[i].pc = pc
Begin(i, r) ==
    /\ req[i].op = "idle" /\ started < MaxRequests
    /\ started' = started + 1
    /\ req' = [req EXCEPT ![i] = r]
Goto(i, pc) == req' = [req EXCEPT ![i].pc = pc]
Finish(i)   == req' = [req EXCEPT ![i] = NoRequest]

\* A request whose account is gone and whose id belongs to another one.
Astray(i) == req[i].u \in Here /\ acct[req[i].u].birth # req[i].birth

\* The row a statement of request i changes, and the story when it is astray.
Strays(i) ==
    odd' = IF Astray(i) THEN odd \cup {<<acct[req[i].u].birth, "alias">>} ELSE odd

----------------------------------------------------------------------------
\* A fresh database has only the placeholder of ensure_default_user, an owner
\* nobody can sign in as; an older one has several owners signed in, with hashes
\* of a release that used weaker argon2 parameters.
Owner(st, b) == [NoAccount EXCEPT !.st = st, !.role = "owner", !.birth = b]

Init ==
    /\ \/ /\ acct = [u \in Users |-> IF u = 1 THEN Owner("placeholder", 0) ELSE NoAccount]
          /\ sess = [s \in Sessions |-> NoSession]
          /\ births = 0
       \/ /\ acct = [u \in Users |-> IF u = MaxUsers THEN NoAccount
                                     ELSE [Owner("here", u) EXCEPT !.weak = TRUE]]
          /\ sess = [s \in Sessions |-> IF s < MaxUsers THEN [u |-> s, under |-> First]
                                                        ELSE NoSession]
          /\ births = MaxUsers - 1
    /\ invite = [v \in Invites |-> [st |-> "none", maker |-> None, by |-> None]]
    /\ req = [i \in Slots |-> NoRequest]
    /\ overlap = FALSE /\ odd = {}
    /\ started = 0 /\ drops = 0

----------------------------------------------------------------------------
(* Setup, invites and registration                                         *)

\* complete_setup: UPDATE ... WHERE id = 1 AND username = '_default'.
Setup(i) ==
    /\ Idle(i) /\ acct[1].st = "placeholder" /\ births < MaxBirths
    /\ births' = births + 1
    /\ acct' = [acct EXCEPT ![1].st = "here", ![1].birth = births + 1]
    /\ req' = [req EXCEPT ![i] = [NoRequest EXCEPT !.op = "login", !.pc = "issue", !.u = 1,
                                                   !.birth = births + 1, !.arg = First]]
    /\ UNCHANGED <<invite, sess, overlap, odd, started, drops>>

\* What AuthUser lets through: a session row, its account, and the lock.
Allowed(u) == u \in Here /\ (~ acct[u].locked \/ acct[u].role = "owner")
SignedIn   == {u \in Users : Allowed(u) /\ \E s \in Live : sess[s].u = u}

CreateInvite(v, u) ==
    /\ invite[v].st = "none"
    /\ u \in SignedIn \cap Owners
    /\ invite' = [invite EXCEPT ![v] = [st |-> "open", maker |-> u, by |-> None]]
    /\ UNCHANGED <<acct, sess, req, births, overlap, odd, started, drops>>

Redeemable(v) == invite[v].st = "open" /\ invite[v].by = None

\* revoke_invite needs an owner, expires_at needs nobody: the code is refused.
InviteEnds(v) ==
    /\ Redeemable(v)
    /\ invite' = [invite EXCEPT ![v].st = "gone"]
    /\ UNCHANGED <<acct, sess, req, births, overlap, odd, started, drops>>

\* The check that runs before the password is hashed; without a code,
\* allow_signups decides.
RegisterCheck(i, v) ==
    /\ v = "none" \/ (v \in Invites /\ Redeemable(v))
    /\ Begin(i, [NoRequest EXCEPT !.op = "register", !.pc = "create", !.arg = v])
    /\ UNCHANGED <<acct, invite, sess, births, overlap, odd, drops>>

RegisterCreate(i) ==
    /\ At(i, "create") /\ NextUser \in Users /\ births < MaxBirths
    /\ births' = births + 1
    /\ acct' = [acct EXCEPT ![NextUser] = [NoAccount EXCEPT !.st = "here",
                                               !.birth = births + 1, !.via = req[i].arg]]
    /\ LET r == [req[i] EXCEPT !.u = NextUser, !.birth = births + 1]
       IN  req' = [req EXCEPT ![i] =
                     IF r.arg = "none"
                       THEN [r EXCEPT !.op = "login", !.pc = "issue", !.arg = First]
                       ELSE [r EXCEPT !.pc = "consume"]]
    /\ UNCHANGED <<invite, sess, overlap, odd, started, drops>>

\* The username or the email of the invite is taken: 409.
RegisterConflict(i) ==
    /\ At(i, "create") /\ Here # {}
    /\ Finish(i)
    /\ UNCHANGED <<acct, invite, sess, births, overlap, odd, started, drops>>

\* Mutant: the UPDATE does not repeat the check on consumed_by.
ConsumesAny(i) == invite[req[i].arg].st = "open" /\ req[i].u \in Here

\* consume_invite: the compare-and-set on consumed_by and the grants, in one
\* transaction.  A missing account fails its foreign key.
Consumes(i) == Redeemable(req[i].arg) /\ req[i].u \in Here

RegisterConsume(i) ==
    /\ At(i, "consume")
    /\ Consumes(i)
    /\ LET u == req[i].u
           v == req[i].arg
       IN  /\ invite' = [invite EXCEPT ![v].by = u]
           /\ acct' = [acct EXCEPT ![u].granted = @ \cup {v}]
    /\ Strays(i)
    /\ req' = [req EXCEPT ![i].pc = "issue", ![i].op = "login", ![i].arg = First]
    /\ UNCHANGED <<sess, births, overlap, started, drops>>

\* The rollback is delete_user: the guarded removal below.
RegisterUndo(i) ==
    /\ At(i, "consume")
    /\ ~ Consumes(i)
    /\ req' = [req EXCEPT ![i].op = "remove", ![i].pc = "role"]
    /\ UNCHANGED <<acct, invite, sess, births, overlap, odd, started, drops>>
----------------------------------------------------------------------------
(* Guarded removals, roles and locks                                       *)

\* can_act_on: owners reach everybody, admins everybody but owners.
CanActOn(a, u) == acct[a].role = "owner" \/ (acct[a].role = "admin" /\ u \notin Owners)

\* The extractor's look at the actor and the handler's look at the target.
\* "remove", "lock" and the new role are the request's op and arg.
AdminStart(i, a, u) ==
    /\ a \in SignedIn /\ u \in Here \ {a} /\ CanActOn(a, u)
    /\ \E what \in {"remove", "lock", "unlock", "owner", "admin", "user"} :
         /\ what = "owner" => acct[a].role = "owner"
         /\ what = "lock" => u \notin Owners
         /\ Begin(i, [NoRequest EXCEPT !.op = what, !.u = u, !.birth = acct[u].birth,
                         !.pc = IF what \in {"unlock", "owner"} THEN "write" ELSE "role"])
    /\ UNCHANGED <<acct, invite, sess, births, overlap, odd, drops>>

\* delete_me: the password is verified again, then the same guarded removal.
DeleteMe(i, u) ==
    /\ u \in SignedIn
    /\ Begin(i, [NoRequest EXCEPT !.op = "remove", !.pc = "role", !.u = u,
                                  !.birth = acct[u].birth])
    /\ UNCHANGED <<acct, invite, sess, births, overlap, odd, drops>>

Guarded == {"remove", "admin", "user"}
Passed  == {i \in Slots : req[i].op \in Guarded /\ req[i].pc \in {"count", "write"}}

\* current_user_role: an owner's removal or demotion has its owners counted,
\* an owner cannot be locked.
ReadRole(i) ==
    /\ At(i, "role")
    /\ LET owner == req[i].u \in Owners
       IN  IF owner /\ req[i].op = "lock" THEN Finish(i)
           ELSE Goto(i, IF owner THEN "count" ELSE "write")
    /\ overlap' = (overlap \/ (req[i].op \in Guarded /\ Passed # {}))
    /\ UNCHANGED <<acct, invite, sess, births, odd, started, drops>>

\* Mutant: the last owner is counted as one to spare.
EnoughWithOne == Cardinality(Owners) >= 1

\* count_owners() <= 1 refuses.
Enough == Cardinality(Owners) > 1

\* A registration that ends here leaves an account and an invite unconsumed.
Orphans(i) ==
    odd' = IF req[i].arg \in Invites /\ req[i].birth # 0
             THEN odd \cup {<<req[i].birth, "orphan">>} ELSE odd

CountOwners(i) ==
    /\ At(i, "count")
    /\ IF Enough THEN Goto(i, "write") /\ odd' = odd ELSE Finish(i) /\ Orphans(i)
    /\ UNCHANGED <<acct, invite, sess, births, overlap, started, drops>>

Without(ids) == [s \in Sessions |-> IF sess[s].u \in ids THEN NoSession ELSE sess[s]]

\* The reset tokens of account u are no longer active: requests that found one
\* will not consume it.
Spent(u) == [j \in Slots |-> IF At(j, "reset") /\ req[j].u = u
                              THEN [req[j] EXCEPT !.pc = "spent"] ELSE req[j]]

\* DELETE FROM users: sessions and reset tokens cascade, so do the invites the
\* account made; an invite it consumed has consumed_by set to NULL.
Remove(i) ==
    /\ At(i, "write") /\ req[i].op = "remove"
    /\ LET u == req[i].u
       IN  /\ acct' = [acct EXCEPT ![u] = NoAccount]
           /\ sess' = Without({u})
           /\ req' = [Spent(u) EXCEPT ![i] = NoRequest]
           /\ invite' = [v \in Invites |->
                 [invite[v] EXCEPT !.st = IF invite[v].maker = u THEN "gone" ELSE @,
                                   !.by = IF @ = u THEN None ELSE @]]
    /\ UNCHANGED <<births, overlap, odd, started, drops>>

SetRole(i) ==
    /\ At(i, "write") /\ req[i].op \in {"owner", "admin", "user"}
    /\ acct' = IF req[i].u \in Here THEN [acct EXCEPT ![req[i].u].role = req[i].op]
                                     ELSE acct
    /\ Finish(i)
    /\ UNCHANGED <<invite, sess, births, overlap, odd, started, drops>>

\* set_user_locked, and for a lock the sessions after it.
SetLocked(i) ==
    /\ At(i, "write") /\ req[i].op \in {"lock", "unlock"}
    /\ acct' = IF req[i].u \in Here
                 THEN [acct EXCEPT ![req[i].u].locked = (req[i].op = "lock")] ELSE acct
    /\ IF req[i].op = "lock" /\ req[i].u \in Here THEN Goto(i, "evict") ELSE Finish(i)
    /\ UNCHANGED <<invite, sess, births, overlap, odd, started, drops>>

LockEvicts(i) ==
    /\ At(i, "evict")
    /\ sess' = Without({req[i].u})
    /\ Finish(i)
    /\ UNCHANGED <<acct, invite, births, overlap, odd, started, drops>>

----------------------------------------------------------------------------
(* Sign-in, passwords and sessions                                         *)

\* The right password of an account that is not locked.
Login(i, u) ==
    /\ acct[u].st = "here" /\ Allowed(u)
    /\ Begin(i, [NoRequest EXCEPT !.op = "login", !.pc = "rehash", !.u = u,
                                  !.birth = acct[u].birth, !.arg = acct[u].pw])
    /\ UNCHANGED <<acct, invite, sess, births, overlap, odd, drops>>

\* The record is read once more; a weak hash is computed again.
NeedsRehash(i) ==
    /\ At(i, "rehash")
    /\ Goto(i, IF req[i].u \in Here /\ acct[req[i].u].weak THEN "persist" ELSE "issue")
    /\ UNCHANGED <<acct, invite, sess, births, overlap, odd, started, drops>>

\* update_user_password with the hash of the password this login verified.
Rehash(i) ==
    /\ At(i, "persist")
    /\ LET u == req[i].u
       IN  IF u \in Here
             THEN /\ acct' = [acct EXCEPT ![u].pw = req[i].arg, ![u].weak = FALSE]
                  /\ IF acct[u].pw # req[i].arg
                       THEN Told(acct[u].birth, "reverted") ELSE odd' = odd
             ELSE acct' = acct /\ odd' = odd
    /\ Goto(i, "issue")
    /\ UNCHANGED <<invite, sess, births, overlap, started, drops>>

\* issue_session; the second factor's challenge ends in the same insert and
\* may take as long.  The foreign key refuses a deleted account.
IssueSession(i) ==
    /\ At(i, "issue")
    /\ IF req[i].u \in Here
         THEN /\ NextSession \in Sessions
              /\ sess' = [sess EXCEPT ![NextSession] =
                            [u |-> req[i].u, under |-> acct[req[i].u].pw]]
         ELSE sess' = sess
    /\ Strays(i)
    /\ Finish(i)
    /\ UNCHANGED <<acct, invite, births, overlap, started, drops>>

\* logout, revoke_my_session, an admin's revoke, the expiry sweep.
SessionEnds(s) ==
    /\ s \in Live /\ started < MaxRequests
    /\ started' = started + 1
    /\ sess' = [sess EXCEPT ![s] = NoSession]
    /\ UNCHANGED <<acct, invite, req, births, overlap, odd, drops>>

\* change_password from session s, or owner-password-reset from the command
\* line, which keeps no session: verify, then two statements.
ChangeStart(i, u, s) ==
    /\ acct[u].st = "here"
    /\ s # None => s \in Live /\ sess[s].u = u /\ Allowed(u)
    /\ \E p \in Passwords \ {acct[u].pw} :
         Begin(i, [NoRequest EXCEPT !.op = "change", !.pc = "set", !.u = u,
                     !.birth = acct[u].birth, !.arg = p, !.keep = s])
    /\ UNCHANGED <<acct, invite, sess, births, overlap, odd, drops>>

ChangeSet(i) ==
    /\ At(i, "set")
    /\ acct' = IF req[i].u \in Here
                 THEN [acct EXCEPT ![req[i].u].pw = req[i].arg, ![req[i].u].weak = FALSE]
                 ELSE acct
    /\ Strays(i)
    /\ Goto(i, "sweep")
    /\ UNCHANGED <<invite, sess, births, overlap, started, drops>>

\* Mutant: the sessions opened since are taken for the caller's own.
SweptBefore(i) == {s \in Live : sess[s].u = req[i].u /\ s < req[i].keep}

\* delete_sessions_for_user_except.
Swept(i) == {s \in Live : sess[s].u = req[i].u /\ s # req[i].keep}

ChangeSweep(i) ==
    /\ At(i, "sweep")
    /\ sess' = [s \in Sessions |-> IF s \in Swept(i) THEN NoSession
                                   ELSE IF s = req[i].keep /\ sess[s].u = req[i].u
                                     THEN [sess[s] EXCEPT !.under = acct[sess[s].u].pw] ELSE sess[s]]
    /\ Settled(req[i].birth)
    /\ Finish(i)
    /\ UNCHANGED <<acct, invite, births, overlap, started, drops>>

\* find_active_password_reset_token: request_password_reset or an admin had a
\* token sent, and it is neither consumed nor expired.
ResetStart(i, u) ==
    /\ acct[u].st = "here"
    /\ \E p \in Passwords :
         Begin(i, [NoRequest EXCEPT !.op = "reset", !.pc = "reset", !.u = u,
                                   !.birth = acct[u].birth, !.arg = p])
    /\ UNCHANGED <<acct, invite, sess, births, overlap, odd, drops>>

\* consume_password_reset: the token, the password, every session and every
\* other token of the account, in one transaction.
Reset(i) ==
    /\ At(i, "reset")
    /\ LET u == req[i].u
       IN  /\ acct' = [acct EXCEPT ![u].pw = req[i].arg, ![u].weak = FALSE]
           /\ sess' = Without({u})
           /\ req' = [Spent(u) EXCEPT ![i] = NoRequest]
           /\ Settled(acct[u].birth)
    /\ UNCHANGED <<invite, births, overlap, started, drops>>

ResetRefused(i) ==
    /\ At(i, "spent")
    /\ Finish(i)
    /\ UNCHANGED <<acct, invite, sess, births, overlap, odd, started, drops>>

\* The client hangs up and the handler's future is dropped, or a statement
\* fails: what was written stays.
Drop(i) ==
    /\ ~ Idle(i) /\ drops < MaxDrops
    /\ drops' = drops + 1
    /\ IF At(i, "sweep") THEN Told(req[i].birth, "unswept") ELSE Orphans(i)
    /\ Finish(i)
    /\ UNCHANGED <<acct, invite, sess, births, overlap, started>>

Next ==
    \/ \E i \in Slots :
         \/ Setup(i)
         \/ \E v \in Invites \cup {"none"} : RegisterCheck(i, v)
         \/ RegisterCreate(i) \/ RegisterConflict(i)
         \/ RegisterConsume(i) \/ RegisterUndo(i)
         \/ \E a, u \in Users : AdminStart(i, a, u)
         \/ \E u \in Users : DeleteMe(i, u) \/ Login(i, u) \/ ResetStart(i, u)
         \/ ReadRole(i) \/ CountOwners(i) \/ Remove(i)
         \/ SetRole(i) \/ SetLocked(i) \/ LockEvicts(i)
         \/ NeedsRehash(i) \/ Rehash(i) \/ IssueSession(i)
         \/ \E u \in Users, s \in Sessions \cup {None} : ChangeStart(i, u, s)
         \/ ChangeSet(i) \/ ChangeSweep(i)
         \/ Reset(i) \/ ResetRefused(i) \/ Drop(i)
    \/ \E v \in Invites : InviteEnds(v) \/ \E u \in Users : CreateInvite(v, u)
    \/ \E s \in Sessions : SessionEnds(s)

Spec == Init /\ [][Next]_vars

\* The slots are interchangeable.
Slot_symmetry == Permutations(Slots)

----------------------------------------------------------------------------
(* What the requests leave behind                                          *)

TypeOK ==
    /\ \A u \in Here : acct[u].role \in {"owner", "admin", "user"} /\ acct[u].pw \in Passwords
    /\ \A s \in Live : sess[s].u \in Here /\ sess[s].under \in Passwords
    /\ \A v \in Invites : invite[v].by \in Here \cup {None}
    /\ \A i \in Slots : At(i, "reset") => req[i].u \in Here /\ ~ Astray(i)

\* The installation keeps an owner: the last one can be neither removed nor
\* demoted by one request at a time, whatever the requests next to it promote,
\* delete or register; only two removals whose guards overlap get past them.
OwnerRemains == TypeOK /\ (Owners # {} \/ overlap)

\* A redemption still on its way to consume_invite or to its rollback.
Redeeming(u) == \E i \in Slots : req[i].birth = acct[u].birth /\ req[i].arg \in Invites

\* An invite makes one account: of all that were registered with its code only
\* the one that consumed it holds its grants, and the others have been rolled
\* back unless their request was cut short or their id passed to somebody else.
InviteRedeemedOnce ==
    /\ \A v \in Invites :
         /\ Cardinality({u \in Here : v \in acct[u].granted}) <= 1
         /\ invite[v].by # None => v \in acct[invite[v].by].granted
    /\ \A u \in Here : acct[u].via \in Invites =>
         \/ acct[u].via \in acct[u].granted
         \/ Redeeming(u) \/ Story(u) \cap {"orphan", "alias"} # {}

\* A session outlives no password: each was opened, or kept by the request that
\* changed it, under the password its account has now, unless a change has
\* still to delete the others, failed to, or was undone by a rehash.
SessionsFollowPassword ==
    \A s \in Live :
        LET u == sess[s].u
        IN  \/ sess[s].under = acct[u].pw
            \/ \E i \in Slots : At(i, "sweep") /\ req[i].u = u
            \/ Story(u) \cap {"unswept", "reverted", "alias"} # {}

\* queries.rs:3182: "the system must always have at least one owner".
AlwaysAnOwner == Owners # {}
=============================================================================
