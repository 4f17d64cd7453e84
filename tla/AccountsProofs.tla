--------------------------- MODULE AccountsProofs ---------------------------
(***************************************************************************)
(* Proofs about module Accounts, for any invites and passwords, any number *)
(* of requests in flight and any bounds.                                   *)
(***************************************************************************)
EXTENDS Accounts, FiniteSetTheorems, WellFoundedInduction, TLAPS

-----------------------------------------------------------------------------
(* The next id of a table. *)

\* A finite set of ids has a highest one.
LEMMA HighestExists ==
    ASSUME NEW n \in Nat, NEW ids \in SUBSET (1..n), ids # {}
    PROVE  Highest(ids) \in ids /\ \A w \in ids : w <= Highest(ids)
<1> DEFINE above(u) == {w \in ids : u <= w}
           tails == {above(u) : u \in ids}
<1>1. IsFiniteSet(ids) /\ ids \subseteq Nat
  <2>1. 1 \in Int /\ n \in Int
    OBVIOUS
  <2>2. IsFiniteSet(1..n)
    BY <2>1, FS_Interval, Zenon
  <2>3. IsFiniteSet(ids)
    BY <2>2, FS_Subset
  <2>4. ids \subseteq Nat
    OBVIOUS
  <2> QED BY <2>3, <2>4
<1>2. tails \subseteq FiniteSubsetsOf(ids) /\ tails # {}
  <2>1. \A u \in ids : above(u) \in SUBSET ids /\ IsFiniteSet(above(u))
    BY <1>1, FS_Subset
  <2> QED BY <2>1 DEF FiniteSubsetsOf
<1>3. PICK t \in tails : \A s \in tails : ~ (<<s, t>> \in StrictSubsetOrdering(ids))
  <2> HIDE DEF tails
  <2> QED BY <1>2, FS_StrictSubsetOrderingWellFounded, WFMin
<1>4. PICK u \in ids : t = above(u)
  BY <1>3
<1>5. \A w \in ids : w <= u
  <2> SUFFICES ASSUME NEW w \in ids, ~ (w <= u) PROVE FALSE
    OBVIOUS
  <2>1. u \in Nat /\ w \in Nat /\ u < w
    BY <1>1
  <2>2. above(w) \in SUBSET ids /\ above(u) \in SUBSET ids
    OBVIOUS
  <2>3. above(w) \subseteq above(u) /\ u \in above(u) /\ u \notin above(w)
    <3>1. \A v \in ids : w <= v => u <= v
      BY <1>1, <2>1
    <3>2. u <= u /\ ~ (w <= u)
      BY <2>1
    <3> QED BY <3>1, <3>2
  <2>4. <<above(w), above(u)>> \in StrictSubsetOrdering(ids)
    <3> HIDE DEF above
    <3>1. above(w) # above(u)
      BY <2>3
    <3> QED BY <2>2, <2>3, <3>1 DEF StrictSubsetOrdering
  <2>5. above(w) \in tails
    OBVIOUS
  <2> QED BY <1>3, <1>4, <2>4, <2>5
<1> QED
  BY <1>5 DEF Highest

\* The id of a new account is that of none.
LEMMA NextUserIsNew == Here \subseteq Users /\ NextUser \notin Here
<1>1. Here \in SUBSET (1..MaxUsers) /\ MaxUsers \in Nat
  BY AccountAssumption DEF Here, Users
<1>2. CASE Here = {}
  BY <1>1, <1>2 DEF Users
<1>3. CASE Here # {}
  <2>1. PICK h : h = Highest(Here)
    OBVIOUS
  <2>2. h \in Here /\ \A w \in Here : w <= h
    BY <1>1, <1>3, <2>1, HighestExists
  <2>3. h \in Nat /\ ~ (h + 1 <= h)
    BY <1>1, <2>2
  <2>4. h + 1 \notin Here
    BY <2>2, <2>3
  <2> QED BY <1>1, <2>1, <2>4 DEF NextUser, Users
<1> QED
  BY <1>2, <1>3
-----------------------------------------------------------------------------
(* Types, and what a request in flight looks like at each of its steps. *)

Roles == {"owner", "admin", "user"}
Ops   == {"idle", "register", "login", "remove", "lock", "unlock", "owner", "admin", "user",
          "change", "reset"}
Pcs   == {"idle", "create", "consume", "issue", "role", "count", "write", "evict", "rehash",
          "persist", "set", "sweep", "reset", "spent"}

AccountRow ==
    [st : {"none", "placeholder", "here"}, role : Roles, locked : BOOLEAN, pw : Passwords,
     weak : BOOLEAN, birth : Nat, via : Invites \cup {"none"}, granted : SUBSET Invites]
InviteRow  ==
    [st : {"none", "open", "gone"}, maker : Users \cup {None}, by : Users \cup {None}]
SessionRow == [u : Users \cup {None}, under : Passwords]
Request    ==
    [op : Ops, pc : Pcs, u : Users \cup {None}, birth : Nat,
     arg : Invites \cup Passwords \cup {"none"}, keep : Sessions \cup {None}]

Shapes ==
    /\ acct \in [Users -> AccountRow]
    /\ invite \in [Invites -> InviteRow]
    /\ sess \in [Sessions -> SessionRow]
    /\ req \in [Slots -> Request]
    /\ births \in Nat

\* The handlers, as a relation between the fields of a request.
Sane(r) ==
    /\ r.op = "idle" => r.u = None /\ r.pc = "idle" /\ r.arg = "none" /\ r.birth = 0
    /\ r.pc = "idle" => r.op = "idle"
    /\ r.pc = "create" => r.u = None /\ r.birth = 0 /\ r.arg \in Invites \cup {"none"}
    /\ r.op # "idle" /\ r.pc # "create" => r.u \in Users
    /\ r.pc = "consume" => r.arg \in Invites
    /\ r.arg \in Invites => r.op \in {"register", "remove"}
    /\ r.op \in {"login", "change", "reset"} => r.arg \in Passwords
    /\ r.op = "register" <=> r.pc \in {"create", "consume"}
    /\ r.op = "login" <=> r.pc \in {"rehash", "persist", "issue"}
    /\ r.op = "change" <=> r.pc \in {"set", "sweep"}
    /\ r.op = "reset" <=> r.pc \in {"reset", "spent"}
    /\ r.pc = "evict" => r.op = "lock"
    /\ r.pc \in {"role", "count"} => r.op \in {"remove", "lock", "admin", "user"}
    /\ r.pc = "count" => r.op # "lock"

Control == \A i \in Slots : Sane(req[i])

LEMMA Literals ==
    /\ None \notin Users /\ First \in Passwords /\ First \notin Invites /\ "none" \notin Invites
    /\ NoAccount \in AccountRow /\ NoSession \in SessionRow /\ NoRequest \in Request
    /\ Sane(NoRequest) /\ \A p \in Passwords : p \notin Invites
    /\ Users \subseteq Nat /\ 1 \in Users
<1>1. None \notin Users /\ Users \subseteq Nat /\ 1 \in Users
  BY AccountAssumption DEF None, Users
<1>2. First \in Passwords /\ First \notin Invites /\ "none" \notin Invites
      /\ \A p \in Passwords : p \notin Invites
  BY AccountAssumption
<1>3. NoAccount \in AccountRow
  BY <1>2 DEF NoAccount, AccountRow, Roles
<1>4. NoSession \in SessionRow
  BY <1>2 DEF NoSession, SessionRow
<1>5. NoRequest \in Request /\ Sane(NoRequest)
  BY <1>2 DEF NoRequest, Request, Ops, Pcs, Sane
<1> QED
  BY <1>1, <1>2, <1>3, <1>4, <1>5

LEMMA RequestFields ==
    ASSUME Shapes, NEW i \in Slots
    PROVE  /\ req[i] \in Request /\ req[i].op \in Ops /\ req[i].pc \in Pcs
           /\ req[i].u \in Users \cup {None} /\ req[i].birth \in Nat
           /\ req[i].arg \in Invites \cup Passwords \cup {"none"}
           /\ req[i].keep \in Sessions \cup {None}
BY DEF Shapes, Request

LEMMA AccountFields ==
    ASSUME Shapes, NEW u \in Users
    PROVE  /\ acct[u] \in AccountRow
           /\ acct[u].st \in {"none", "placeholder", "here"} /\ acct[u].role \in Roles
           /\ acct[u].pw \in Passwords /\ acct[u].birth \in Nat
           /\ acct[u].via \in Invites \cup {"none"} /\ acct[u].granted \subseteq Invites
BY DEF Shapes, AccountRow

-----------------------------------------------------------------------------
(* What each step does to the requests. *)

\* Nobody else's request has moved.
Alone(i) == \A j \in Slots \ {i} : req'[j] = req[j]

\* A request as a step leaves it; keep matters to one statement only.
Asks(r, op, pc, u, b, arg) ==
    /\ r \in Request
    /\ r.op = op /\ r.pc = pc /\ r.u = u /\ r.birth = b /\ r.arg = arg

\* Alone in its step, request i is now r.
Turns(i, r) == req' \in [Slots -> Request] /\ req'[i] = r /\ Alone(i)

LEMMA TurnsTo ==
    ASSUME Shapes, NEW i \in Slots, NEW r \in Request, req' = [req EXCEPT ![i] = r]
    PROVE  Turns(i, r)
BY DEF Shapes, Turns, Alone

LEMMA Stays ==
    ASSUME Shapes, NEW i \in Slots
    PROVE  Asks(req[i], req[i].op, req[i].pc, req[i].u, req[i].birth, req[i].arg)
BY RequestFields DEF Asks

LEMMA SetupAsks ==
    ASSUME Shapes, NEW i \in Slots, Setup(i)
    PROVE  \E r : Turns(i, r) /\ Asks(r, "login", "issue", 1, births + 1, First)
<1>1. PICK r : r = [NoRequest EXCEPT !.op = "login", !.pc = "issue", !.u = 1,
                                     !.birth = births + 1, !.arg = First]
  OBVIOUS
<1>2. births + 1 \in Nat
  BY DEF Shapes
<1>3. Asks(r, "login", "issue", 1, births + 1, First)
  BY <1>1, <1>2, Literals DEF Asks, Request, NoRequest, Ops, Pcs
<1>4. req' = [req EXCEPT ![i] = r]
  BY <1>1 DEF Setup
<1>5. Turns(i, r)
  BY <1>3, <1>4, TurnsTo DEF Asks
<1> QED BY <1>3, <1>5

LEMMA RegisterAsks ==
    ASSUME Shapes, NEW i \in Slots, NEW v \in Invites \cup {"none"}, RegisterCheck(i, v)
    PROVE  \E r : Turns(i, r) /\ Asks(r, "register", "create", None, 0, v)
<1>1. PICK r : r = [NoRequest EXCEPT !.op = "register", !.pc = "create", !.arg = v]
  OBVIOUS
<1>2. Asks(r, "register", "create", None, 0, v)
  BY <1>1, Literals DEF Asks, Request, NoRequest, Ops, Pcs
<1>3. req' = [req EXCEPT ![i] = r]
  BY <1>1 DEF RegisterCheck, Begin
<1>4. Turns(i, r)
  BY <1>2, <1>3, TurnsTo DEF Asks
<1> QED BY <1>2, <1>4

LEMMA CreateAsks ==
    ASSUME Shapes, NEW i \in Slots, RegisterCreate(i)
    PROVE  \E r : /\ Turns(i, r)
                  /\ IF req[i].arg = "none"
                       THEN Asks(r, "login", "issue", NextUser, births + 1, First)
                       ELSE Asks(r, req[i].op, "consume", NextUser, births + 1, req[i].arg)
<1>1. NextUser \in Users /\ births + 1 \in Nat
  BY DEF RegisterCreate, Shapes
<1>2. PICK q : q = [req[i] EXCEPT !.u = NextUser, !.birth = births + 1]
  OBVIOUS
<1>3. q \in Request /\ q.u = NextUser /\ q.birth = births + 1 /\ q.arg = req[i].arg
      /\ q.op = req[i].op
  BY <1>1, <1>2, RequestFields DEF Request
<1>4. CASE req[i].arg = "none"
  <2>1. PICK r : r = [q EXCEPT !.op = "login", !.pc = "issue", !.arg = First]
    OBVIOUS
  <2>2. Asks(r, "login", "issue", NextUser, births + 1, First)
    BY <1>3, <2>1, Literals DEF Asks, Request, Ops, Pcs
  <2>3. req' = [req EXCEPT ![i] = r]
    BY <1>2, <1>3, <1>4, <2>1 DEF RegisterCreate
  <2>4. Turns(i, r)
    BY <2>2, <2>3, TurnsTo DEF Asks
  <2> QED BY <1>4, <2>2, <2>4
<1>5. CASE req[i].arg # "none"
  <2>1. PICK r : r = [q EXCEPT !.pc = "consume"]
    OBVIOUS
  <2>2. Asks(r, req[i].op, "consume", NextUser, births + 1, req[i].arg)
    BY <1>3, <2>1 DEF Asks, Request, Pcs
  <2>3. req' = [req EXCEPT ![i] = r]
    BY <1>2, <1>3, <1>5, <2>1 DEF RegisterCreate
  <2>4. Turns(i, r)
    BY <2>2, <2>3, TurnsTo DEF Asks
  <2> QED BY <1>5, <2>2, <2>4
<1> QED
  BY <1>4, <1>5

LEMMA ConsumeAsks ==
    ASSUME Shapes, NEW i \in Slots, RegisterConsume(i)
    PROVE  \E r : Turns(i, r) /\ Asks(r, "login", "issue", req[i].u, req[i].birth, First)
<1>1. PICK r : r = [req[i] EXCEPT !.pc = "issue", !.op = "login", !.arg = First]
  OBVIOUS
<1>2. Asks(r, "login", "issue", req[i].u, req[i].birth, First)
  BY <1>1, Literals, RequestFields DEF Asks, Request, Ops, Pcs
<1>3. req' = [req EXCEPT ![i].pc = "issue", ![i].op = "login", ![i].arg = First]
  BY DEF RegisterConsume
<1>4. req' = [req EXCEPT ![i] = r]
  BY <1>1, <1>3 DEF Shapes
<1>5. Turns(i, r)
  BY <1>2, <1>4, TurnsTo DEF Asks
<1> QED BY <1>2, <1>5

LEMMA UndoAsks ==
    ASSUME Shapes, NEW i \in Slots, RegisterUndo(i)
    PROVE  \E r : Turns(i, r) /\ Asks(r, "remove", "role", req[i].u, req[i].birth, req[i].arg)
<1>1. PICK r : r = [req[i] EXCEPT !.op = "remove", !.pc = "role"]
  OBVIOUS
<1>2. Asks(r, "remove", "role", req[i].u, req[i].birth, req[i].arg)
  BY <1>1, RequestFields DEF Asks, Request, Ops, Pcs
<1>3. req' = [req EXCEPT ![i].op = "remove", ![i].pc = "role"]
  BY DEF RegisterUndo
<1>4. req' = [req EXCEPT ![i] = r]
  BY <1>1, <1>3 DEF Shapes
<1>5. Turns(i, r)
  BY <1>2, <1>4, TurnsTo DEF Asks
<1> QED BY <1>2, <1>5

LEMMA AdminAsks ==
    ASSUME Shapes, NEW i \in Slots, NEW a \in Users, NEW u \in Users, AdminStart(i, a, u)
    PROVE  \E r, what : /\ Turns(i, r) /\ what \in {"remove", "lock", "unlock", "owner", "admin", "user"}
                        /\ Asks(r, what, IF what \in {"unlock", "owner"} THEN "write" ELSE "role",
                                u, acct[u].birth, "none")
<1>1. PICK what \in {"remove", "lock", "unlock", "owner", "admin", "user"} :
        Begin(i, [NoRequest EXCEPT !.op = what, !.u = u, !.birth = acct[u].birth,
                    !.pc = IF what \in {"unlock", "owner"} THEN "write" ELSE "role"])
  BY DEF AdminStart
<1>2. PICK pc \in Pcs : pc = IF what \in {"unlock", "owner"} THEN "write" ELSE "role"
  BY DEF Pcs
<1>3. PICK r : r = [NoRequest EXCEPT !.op = what, !.u = u, !.birth = acct[u].birth, !.pc = pc]
  OBVIOUS
<1>4. Asks(r, what, pc, u, acct[u].birth, "none")
  BY <1>3, AccountFields, Literals DEF Asks, Request, NoRequest, Ops, Pcs
<1>5. Begin(i, r)
  BY <1>1, <1>2, <1>3
<1>6. Turns(i, r)
  BY <1>4, <1>5, TurnsTo DEF Asks, Begin
<1> QED BY <1>1, <1>2, <1>4, <1>6

LEMMA DeleteAsks ==
    ASSUME Shapes, NEW i \in Slots, NEW u \in Users, DeleteMe(i, u)
    PROVE  \E r : Turns(i, r) /\ Asks(r, "remove", "role", u, acct[u].birth, "none")
<1>1. PICK r : r = [NoRequest EXCEPT !.op = "remove", !.pc = "role", !.u = u,
                                     !.birth = acct[u].birth]
  OBVIOUS
<1>2. Asks(r, "remove", "role", u, acct[u].birth, "none")
  BY <1>1, AccountFields, Literals DEF Asks, Request, NoRequest, Ops, Pcs
<1>3. req' = [req EXCEPT ![i] = r]
  BY <1>1 DEF DeleteMe, Begin
<1>4. Turns(i, r)
  BY <1>2, <1>3, TurnsTo DEF Asks
<1> QED BY <1>2, <1>4

LEMMA LoginAsks ==
    ASSUME Shapes, NEW i \in Slots, NEW u \in Users, Login(i, u)
    PROVE  \E r : Turns(i, r) /\ Asks(r, "login", "rehash", u, acct[u].birth, acct[u].pw)
<1>1. PICK r : r = [NoRequest EXCEPT !.op = "login", !.pc = "rehash", !.u = u,
                                     !.birth = acct[u].birth, !.arg = acct[u].pw]
  OBVIOUS
<1>2. Asks(r, "login", "rehash", u, acct[u].birth, acct[u].pw)
  BY <1>1, AccountFields, Literals DEF Asks, Request, NoRequest, Ops, Pcs
<1>3. req' = [req EXCEPT ![i] = r]
  BY <1>1 DEF Login, Begin
<1>4. Turns(i, r)
  BY <1>2, <1>3, TurnsTo DEF Asks
<1> QED BY <1>2, <1>4

LEMMA ChangeAsks ==
    ASSUME Shapes, NEW i \in Slots, NEW u \in Users, NEW s \in Sessions \cup {None},
           ChangeStart(i, u, s)
    PROVE  \E r, p : Turns(i, r) /\ p \in Passwords
                     /\ Asks(r, "change", "set", u, acct[u].birth, p)
<1>1. PICK p \in Passwords : Begin(i, [NoRequest EXCEPT !.op = "change", !.pc = "set", !.u = u,
                                         !.birth = acct[u].birth, !.arg = p, !.keep = s])
  BY DEF ChangeStart
<1>2. PICK r : r = [NoRequest EXCEPT !.op = "change", !.pc = "set", !.u = u,
                                     !.birth = acct[u].birth, !.arg = p, !.keep = s]
  OBVIOUS
<1>3. Asks(r, "change", "set", u, acct[u].birth, p)
  BY <1>2, AccountFields, Literals DEF Asks, Request, NoRequest, Ops, Pcs
<1>4. req' = [req EXCEPT ![i] = r]
  BY <1>1, <1>2 DEF Begin
<1>5. Turns(i, r)
  BY <1>3, <1>4, TurnsTo DEF Asks
<1> QED BY <1>3, <1>5

LEMMA ResetAsks ==
    ASSUME Shapes, NEW i \in Slots, NEW u \in Users, ResetStart(i, u)
    PROVE  \E r, p : Turns(i, r) /\ p \in Passwords
                     /\ Asks(r, "reset", "reset", u, acct[u].birth, p)
<1>1. PICK p \in Passwords : Begin(i, [NoRequest EXCEPT !.op = "reset", !.pc = "reset", !.u = u,
                                         !.birth = acct[u].birth, !.arg = p])
  BY DEF ResetStart
<1>2. PICK r : r = [NoRequest EXCEPT !.op = "reset", !.pc = "reset", !.u = u,
                                     !.birth = acct[u].birth, !.arg = p]
  OBVIOUS
<1>3. Asks(r, "reset", "reset", u, acct[u].birth, p)
  BY <1>2, AccountFields, Literals DEF Asks, Request, NoRequest, Ops, Pcs
<1>4. req' = [req EXCEPT ![i] = r]
  BY <1>1, <1>2 DEF Begin
<1>5. Turns(i, r)
  BY <1>3, <1>4, TurnsTo DEF Asks
<1> QED BY <1>3, <1>5

\* The requests that go on at another statement, or end.
LEMMA GoesOn ==
    ASSUME Shapes, NEW i \in Slots, NEW pc \in Pcs, Goto(i, pc)
    PROVE  \E r : Turns(i, r) /\ Asks(r, req[i].op, pc, req[i].u, req[i].birth, req[i].arg)
<1>1. PICK r : r = [req[i] EXCEPT !.pc = pc]
  OBVIOUS
<1>2. Asks(r, req[i].op, pc, req[i].u, req[i].birth, req[i].arg)
  BY <1>1, RequestFields DEF Asks, Request
<1>3. req' = [req EXCEPT ![i] = r]
  BY <1>1 DEF Goto
<1>4. Turns(i, r)
  BY <1>2, <1>3, TurnsTo DEF Asks
<1> QED BY <1>2, <1>4

LEMMA Finishes ==
    ASSUME Shapes, NEW i \in Slots, Finish(i)
    PROVE  Turns(i, NoRequest)
BY Literals, TurnsTo DEF Finish

\* Two statements also end the wait of those that hold a reset token.
LEMMA Spends ==
    ASSUME Shapes, NEW i \in Slots, NEW u, req' = [Spent(u) EXCEPT ![i] = NoRequest]
    PROVE  /\ req' \in [Slots -> Request] /\ req'[i] = NoRequest
           /\ \A j \in Slots \ {i} :
                /\ req'[j].op = req[j].op /\ req'[j].u = req[j].u
                /\ req'[j].birth = req[j].birth /\ req'[j].arg = req[j].arg
                /\ IF At(j, "reset") /\ req[j].u = u THEN req'[j].pc = "spent"
                                                     ELSE req'[j].pc = req[j].pc
<1>1. \A j \in Slots : [req[j] EXCEPT !.pc = "spent"] \in Request
  <2> TAKE j \in Slots
  <2> QED BY RequestFields DEF Request, Pcs
<1>2. Spent(u) \in [Slots -> Request]
  BY <1>1 DEF Spent, Shapes
<1>3. req' \in [Slots -> Request] /\ req'[i] = NoRequest
      /\ \A j \in Slots \ {i} : req'[j] = Spent(u)[j]
  BY <1>2, Literals
<1>4. ASSUME NEW j \in Slots \ {i}
      PROVE  /\ req'[j].op = req[j].op /\ req'[j].u = req[j].u
             /\ req'[j].birth = req[j].birth /\ req'[j].arg = req[j].arg
             /\ IF At(j, "reset") /\ req[j].u = u THEN req'[j].pc = "spent"
                                                  ELSE req'[j].pc = req[j].pc
  <2>1. req'[j] = IF At(j, "reset") /\ req[j].u = u THEN [req[j] EXCEPT !.pc = "spent"]
                                                   ELSE req[j]
    BY <1>3 DEF Spent
  <2>2. req[j] \in Request
    BY RequestFields
  <2> QED BY <2>1, <2>2 DEF Request
<1> QED
  BY <1>3, <1>4

-----------------------------------------------------------------------------
(* What each step does to the accounts. *)

\* The account is still the one it was.
Same(w) ==
    /\ acct'[w].st = acct[w].st /\ acct'[w].birth = acct[w].birth
    /\ acct'[w].via = acct[w].via

LEMMA PasswordSet ==
    ASSUME Shapes, NEW u \in Users, NEW p \in Passwords,
           acct' = [acct EXCEPT ![u].pw = p, ![u].weak = FALSE]
    PROVE  /\ acct' \in [Users -> AccountRow] /\ acct'[u].pw = p
           /\ \A w \in Users : Same(w) /\ acct'[w].role = acct[w].role
                               /\ acct'[w].granted = acct[w].granted
           /\ \A w \in Users \ {u} : acct'[w] = acct[w]
<1>1. PICK r : r = [acct[u] EXCEPT !.pw = p, !.weak = FALSE]
  OBVIOUS
<1>2. /\ r \in AccountRow /\ r.pw = p /\ r.st = acct[u].st /\ r.birth = acct[u].birth
      /\ r.via = acct[u].via /\ r.role = acct[u].role /\ r.granted = acct[u].granted
  BY <1>1, AccountFields DEF AccountRow
<1>3. acct' = [acct EXCEPT ![u] = r]
  BY <1>1 DEF Shapes
<1> QED
  BY <1>2, <1>3 DEF Shapes, Same

LEMMA RoleSet ==
    ASSUME Shapes, NEW u \in Users, NEW role \in Roles, acct' = [acct EXCEPT ![u].role = role]
    PROVE  /\ acct' \in [Users -> AccountRow] /\ acct'[u].role = role
           /\ \A w \in Users : Same(w) /\ acct'[w].pw = acct[w].pw
                               /\ acct'[w].granted = acct[w].granted
           /\ \A w \in Users \ {u} : acct'[w] = acct[w]
<1>1. PICK r : r = [acct[u] EXCEPT !.role = role]
  OBVIOUS
<1>2. /\ r \in AccountRow /\ r.role = role /\ r.st = acct[u].st /\ r.birth = acct[u].birth
      /\ r.via = acct[u].via /\ r.pw = acct[u].pw /\ r.granted = acct[u].granted
  BY <1>1, AccountFields DEF AccountRow
<1>3. acct' = [acct EXCEPT ![u] = r]
  BY <1>1 DEF Shapes
<1> QED
  BY <1>2, <1>3 DEF Shapes, Same

LEMMA LockedSet ==
    ASSUME Shapes, NEW u \in Users, NEW b \in BOOLEAN, acct' = [acct EXCEPT ![u].locked = b]
    PROVE  /\ acct' \in [Users -> AccountRow]
           /\ \A w \in Users : Same(w) /\ acct'[w].pw = acct[w].pw
                               /\ acct'[w].granted = acct[w].granted
                               /\ acct'[w].role = acct[w].role
<1>1. PICK r : r = [acct[u] EXCEPT !.locked = b]
  OBVIOUS
<1>2. /\ r \in AccountRow /\ r.role = acct[u].role /\ r.st = acct[u].st
      /\ r.birth = acct[u].birth /\ r.via = acct[u].via /\ r.pw = acct[u].pw
      /\ r.granted = acct[u].granted
  BY <1>1, AccountFields DEF AccountRow
<1>3. acct' = [acct EXCEPT ![u] = r]
  BY <1>1 DEF Shapes
<1> QED
  BY <1>2, <1>3 DEF Shapes, Same

LEMMA GrantedSet ==
    ASSUME Shapes, NEW u \in Users, NEW v \in Invites,
           acct' = [acct EXCEPT ![u].granted = @ \cup {v}]
    PROVE  /\ acct' \in [Users -> AccountRow]
           /\ acct'[u].granted = acct[u].granted \cup {v}
           /\ \A w \in Users : Same(w) /\ acct'[w].pw = acct[w].pw
                               /\ acct'[w].role = acct[w].role
           /\ \A w \in Users \ {u} : acct'[w] = acct[w]
<1>1. PICK g : g = acct[u].granted \cup {v}
  OBVIOUS
<1>2. PICK r : r = [acct[u] EXCEPT !.granted = g]
  OBVIOUS
<1>3. g \in SUBSET Invites
  BY <1>1, AccountFields
<1>4. /\ r \in AccountRow /\ r.role = acct[u].role /\ r.st = acct[u].st
      /\ r.birth = acct[u].birth /\ r.via = acct[u].via /\ r.pw = acct[u].pw
      /\ r.granted = g
  BY <1>2, <1>3, AccountFields DEF AccountRow
<1>5. acct' = [acct EXCEPT ![u] = r]
  BY <1>1, <1>2 DEF Shapes
<1> QED
  BY <1>1, <1>4, <1>5 DEF Shapes, Same

LEMMA SetupSets ==
    ASSUME Shapes, NEW i \in Slots, Setup(i)
    PROVE  /\ acct' \in [Users -> AccountRow] /\ births' = births + 1
           /\ acct'[1].st = "here" /\ acct'[1].birth = births + 1
           /\ acct[1].st = "placeholder" /\ acct'[1].role = acct[1].role
           /\ acct'[1].via = acct[1].via /\ acct'[1].granted = acct[1].granted
           /\ acct'[1].pw = acct[1].pw
           /\ \A w \in Users \ {1} : acct'[w] = acct[w]
<1>1. PICK r : r = [acct[1] EXCEPT !.st = "here", !.birth = births + 1]
  OBVIOUS
<1>2. /\ 1 \in Users /\ births + 1 \in Nat
  BY Literals DEF Shapes
<1>3. /\ r \in AccountRow /\ r.st = "here" /\ r.birth = births + 1 /\ r.role = acct[1].role
      /\ r.via = acct[1].via /\ r.pw = acct[1].pw /\ r.granted = acct[1].granted
  BY <1>1, <1>2, AccountFields DEF AccountRow
<1>4. acct' = [acct EXCEPT ![1].st = "here", ![1].birth = births + 1]
      /\ births' = births + 1 /\ acct[1].st = "placeholder"
  BY DEF Setup
<1>5. acct' = [acct EXCEPT ![1] = r]
  BY <1>1, <1>2, <1>4 DEF Shapes
<1> QED
  BY <1>2, <1>3, <1>4, <1>5 DEF Shapes

LEMMA CreateSets ==
    ASSUME Shapes, Control, NEW i \in Slots, RegisterCreate(i)
    PROVE  /\ acct' \in [Users -> AccountRow] /\ births' = births + 1
           /\ NextUser \in Users /\ NextUser \notin Here
           /\ acct'[NextUser].st = "here" /\ acct'[NextUser].birth = births + 1
           /\ acct'[NextUser].via = req[i].arg /\ acct'[NextUser].granted = {}
           /\ acct'[NextUser].role = "user"
           /\ \A w \in Users \ {NextUser} : acct'[w] = acct[w]
<1>1. PICK r : r = [NoAccount EXCEPT !.st = "here", !.birth = births + 1, !.via = req[i].arg]
  OBVIOUS
<1>2. NextUser \in Users /\ NextUser \notin Here /\ births + 1 \in Nat
  BY NextUserIsNew DEF RegisterCreate, Shapes
<1>3. req[i].arg \in Invites \cup {"none"}
  BY DEF Control, Sane, RegisterCreate, At
<1>4. /\ r \in AccountRow /\ r.st = "here" /\ r.birth = births + 1 /\ r.role = "user"
      /\ r.via = req[i].arg /\ r.granted = {}
  BY <1>1, <1>2, <1>3, Literals DEF AccountRow, NoAccount, Roles
<1>5. acct' = [acct EXCEPT ![NextUser] = r] /\ births' = births + 1
  BY <1>1 DEF RegisterCreate
<1>6. PICK u : u = NextUser
  OBVIOUS
<1> QED
  BY <1>2, <1>4, <1>5, <1>6 DEF Shapes

LEMMA RemoveSets ==
    ASSUME Shapes, NEW i \in Slots, Remove(i)
    PROVE  /\ acct' \in [Users -> AccountRow]
           /\ req[i].u \in Users => acct'[req[i].u] = NoAccount
           /\ \A w \in Users \ {req[i].u} : acct'[w] = acct[w]
<1>1. acct' = [acct EXCEPT ![req[i].u] = NoAccount]
  BY DEF Remove
<1> QED
  BY <1>1, Literals DEF Shapes
-----------------------------------------------------------------------------
(* What each step does to the sessions and the invites. *)

LEMMA WithoutKeeps ==
    ASSUME Shapes, NEW ids
    PROVE  /\ Without(ids) \in [Sessions -> SessionRow]
           /\ \A s \in Sessions :
                IF sess[s].u \in ids THEN Without(ids)[s] = NoSession
                                     ELSE Without(ids)[s] = sess[s]
BY Literals DEF Shapes, Without

LEMMA IssueSets ==
    ASSUME Shapes, Control, NEW i \in Slots, IssueSession(i)
    PROVE  /\ sess' \in [Sessions -> SessionRow]
           /\ \A s \in Sessions :
                \/ sess'[s] = sess[s]
                \/ /\ req[i].u \in Here
                   /\ sess'[s].u = req[i].u /\ sess'[s].under = acct[req[i].u].pw
<1>1. CASE req[i].u \in Here
  <2>1. PICK n : n = NextSession
    OBVIOUS
  <2>2. PICK x : x = [u |-> req[i].u, under |-> acct[req[i].u].pw]
    OBVIOUS
  <2>3. n \in Sessions /\ sess' = [sess EXCEPT ![n] = x]
    BY <1>1, <2>1, <2>2 DEF IssueSession
  <2>4. req[i].u \in Users /\ acct[req[i].u].pw \in Passwords
    BY <1>1, AccountFields DEF Here
  <2>5. x \in SessionRow /\ x.u = req[i].u /\ x.under = acct[req[i].u].pw
    BY <2>2, <2>4 DEF SessionRow
  <2> QED BY <1>1, <2>3, <2>5 DEF Shapes
<1>2. CASE req[i].u \notin Here
  BY <1>2 DEF IssueSession, Shapes
<1> QED
  BY <1>1, <1>2

LEMMA SweepSets ==
    ASSUME Shapes, Control, NEW i \in Slots, ChangeSweep(i)
    PROVE  /\ sess' \in [Sessions -> SessionRow]
           /\ \A s \in Sessions :
                \/ sess'[s] = NoSession
                \/ sess'[s] = sess[s] /\ (s \in Live => sess[s].u # req[i].u)
                \/ /\ sess[s].u = req[i].u /\ sess'[s].u = sess[s].u
                   /\ sess'[s].under = acct[sess[s].u].pw /\ s \in Live
<1>1. req[i].u \in Users
  BY DEF ChangeSweep, At, Control, Sane
<1>2. sess' = [s \in Sessions |-> IF s \in Swept(i) THEN NoSession
                                  ELSE IF s = req[i].keep /\ sess[s].u = req[i].u
                                    THEN [sess[s] EXCEPT !.under = acct[sess[s].u].pw] ELSE sess[s]]
  BY DEF ChangeSweep
<1>3. ASSUME NEW s \in Sessions
      PROVE  /\ sess'[s] \in SessionRow
             /\ \/ sess'[s] = NoSession
                \/ sess'[s] = sess[s] /\ (s \in Live => sess[s].u # req[i].u)
                \/ /\ sess[s].u = req[i].u /\ sess'[s].u = sess[s].u
                   /\ sess'[s].under = acct[sess[s].u].pw /\ s \in Live
  <2>1. sess[s] \in SessionRow
    BY DEF Shapes
  <2>2. CASE s \in Swept(i)
    BY <1>2, <2>2, Literals
  <2>3. CASE s \notin Swept(i) /\ s = req[i].keep /\ sess[s].u = req[i].u
    <3>1. sess'[s] = [sess[s] EXCEPT !.under = acct[sess[s].u].pw]
      BY <1>2, <2>3
    <3>2. acct[sess[s].u].pw \in Passwords
      BY <1>1, <2>3, AccountFields
    <3>3. sess'[s] \in SessionRow /\ sess'[s].u = sess[s].u /\ sess'[s].under = acct[sess[s].u].pw
      BY <2>1, <3>1, <3>2 DEF SessionRow
    <3>4. s \in Live
      BY <1>1, <2>3, Literals DEF Live, NoSession
    <3> QED BY <2>3, <3>3, <3>4
  <2>4. CASE s \notin Swept(i) /\ ~ (s = req[i].keep /\ sess[s].u = req[i].u)
    <3>1. sess'[s] = sess[s]
      BY <1>2, <2>4
    <3>2. s \in Live => sess[s].u # req[i].u
      BY <2>4 DEF Swept
    <3> QED BY <2>1, <3>1, <3>2
  <2> QED BY <2>2, <2>3, <2>4
<1>4. sess' \in [Sessions -> SessionRow]
  <2>1. DOMAIN sess' = Sessions /\ sess' = [s \in Sessions |-> sess'[s]]
    BY <1>2
  <2> QED BY <1>3, <2>1
<1> QED
  BY <1>3, <1>4

LEMMA InviteFields ==
    ASSUME Shapes, NEW v \in Invites
    PROVE  /\ invite[v] \in InviteRow /\ invite[v].st \in {"none", "open", "gone"}
           /\ invite[v].maker \in Users \cup {None} /\ invite[v].by \in Users \cup {None}
BY DEF Shapes, InviteRow

LEMMA ConsumeInvite ==
    ASSUME Shapes, Control, NEW i \in Slots, RegisterConsume(i)
    PROVE  /\ req[i].u \in Here /\ req[i].u \in Users /\ req[i].arg \in Invites
           /\ invite[req[i].arg].st = "open" /\ invite[req[i].arg].by = None
           /\ invite' \in [Invites -> InviteRow]
           /\ invite'[req[i].arg].by = req[i].u
           /\ invite'[req[i].arg].st = "open"
           /\ \A v \in Invites \ {req[i].arg} : invite'[v] = invite[v]
           /\ acct' = [acct EXCEPT ![req[i].u].granted = @ \cup {req[i].arg}]
<1>1. /\ req[i].u \in Here /\ req[i].arg \in Invites
      /\ invite[req[i].arg].st = "open" /\ invite[req[i].arg].by = None
  BY DEF RegisterConsume, Consumes, Redeemable, At, Control, Sane
<1>2. req[i].u \in Users
  BY <1>1 DEF Here
<1>3. PICK r : r = [invite[req[i].arg] EXCEPT !.by = req[i].u]
  OBVIOUS
<1>4. r \in InviteRow /\ r.by = req[i].u /\ r.st = "open"
  BY <1>1, <1>2, <1>3, InviteFields DEF InviteRow
<1>5. invite' = [invite EXCEPT ![req[i].arg].by = req[i].u]
      /\ acct' = [acct EXCEPT ![req[i].u].granted = @ \cup {req[i].arg}]
  BY DEF RegisterConsume
<1>6. invite' = [invite EXCEPT ![req[i].arg] = r]
  BY <1>3, <1>5 DEF Shapes
<1> QED
  BY <1>1, <1>2, <1>4, <1>5, <1>6 DEF Shapes

LEMMA CreateInviteSets ==
    ASSUME Shapes, NEW v \in Invites, NEW u \in Users, CreateInvite(v, u)
    PROVE  /\ invite' \in [Invites -> InviteRow]
           /\ invite[v].st = "none" /\ invite'[v].st = "open" /\ invite'[v].by = None
           /\ \A x \in Invites \ {v} : invite'[x] = invite[x]
BY DEF CreateInvite, Shapes, InviteRow

LEMMA InviteEndsSets ==
    ASSUME Shapes, NEW v \in Invites, InviteEnds(v)
    PROVE  /\ invite' \in [Invites -> InviteRow]
           /\ invite'[v].st = "gone" /\ invite'[v].by = invite[v].by
           /\ \A x \in Invites \ {v} : invite'[x] = invite[x]
<1>1. PICK r : r = [invite[v] EXCEPT !.st = "gone"]
  OBVIOUS
<1>2. r \in InviteRow /\ r.st = "gone" /\ r.by = invite[v].by
  BY <1>1, InviteFields DEF InviteRow
<1>3. invite' = [invite EXCEPT ![v] = r]
  BY <1>1 DEF InviteEnds, Shapes
<1> QED
  BY <1>2, <1>3 DEF Shapes

LEMMA RemoveInvites ==
    ASSUME Shapes, NEW i \in Slots, Remove(i)
    PROVE  /\ invite' \in [Invites -> InviteRow]
           /\ \A v \in Invites :
                /\ invite'[v].by = IF invite[v].by = req[i].u THEN None ELSE invite[v].by
                /\ invite'[v].st = invite[v].st \/ invite'[v].st = "gone"
<1> DEFINE row(v) == [invite[v] EXCEPT !.st = IF invite[v].maker = req[i].u THEN "gone" ELSE @,
                                       !.by = IF @ = req[i].u THEN None ELSE @]
<1>1. invite' = [v \in Invites |-> row(v)]
  BY DEF Remove
<1>2. ASSUME NEW v \in Invites
      PROVE  /\ row(v) \in InviteRow
             /\ row(v).by = IF invite[v].by = req[i].u THEN None ELSE invite[v].by
             /\ row(v).st = invite[v].st \/ row(v).st = "gone"
  BY InviteFields DEF InviteRow
<1> HIDE DEF row
<1> QED
  BY <1>1, <1>2
-----------------------------------------------------------------------------
(* The steps: a request starts, a request goes on, the rest. *)

Starts(i) ==
    \/ \E v \in Invites \cup {"none"} : RegisterCheck(i, v)
    \/ \E a, u \in Users : AdminStart(i, a, u)
    \/ \E u \in Users : DeleteMe(i, u) \/ Login(i, u) \/ ResetStart(i, u)
    \/ \E u \in Users, s \in Sessions \cup {None} : ChangeStart(i, u, s)

Goes(i) ==
    \/ Setup(i) \/ RegisterCreate(i) \/ RegisterConflict(i)
    \/ RegisterConsume(i) \/ RegisterUndo(i)
    \/ ReadRole(i) \/ CountOwners(i) \/ Remove(i)
    \/ SetRole(i) \/ SetLocked(i) \/ LockEvicts(i)
    \/ NeedsRehash(i) \/ Rehash(i) \/ IssueSession(i)
    \/ ChangeSet(i) \/ ChangeSweep(i)
    \/ Reset(i) \/ ResetRefused(i) \/ Drop(i)

LEMMA Steps ==
    ASSUME [Next]_vars
    PROVE  \/ \E i \in Slots : Starts(i)
           \/ \E i \in Slots : Goes(i)
           \/ \E v \in Invites : InviteEnds(v) \/ \E u \in Users : CreateInvite(v, u)
           \/ \E s \in Sessions : SessionEnds(s)
           \/ UNCHANGED vars
<1>1. CASE UNCHANGED vars
  BY <1>1
<1>2. ASSUME NEW i \in Slots,
             \/ Setup(i)
             \/ \E v \in Invites \cup {"none"} : RegisterCheck(i, v)
             \/ RegisterCreate(i) \/ RegisterConflict(i)
             \/ RegisterConsume(i) \/ RegisterUndo(i)
             \/ \E a, u \in Users : AdminStart(i, a, u)
             \/ \E u \in Users : DeleteMe(i, u) \/ Login(i, u) \/ ResetStart(i, u)
             \/ ReadRole(i) \/ CountOwners(i) \/ Remove(i)
             \/ SetRole(i) \/ SetLocked(i) \/ LockEvicts(i)
             \/ NeedsRehash(i) \/ Rehash(i) \/ IssueSession(i)
             \/ \E u \in Users, s \in Sessions \cup {None} : ChangeStart(i, u, s)
             \/ ChangeSet(i) \/ ChangeSweep(i)
             \/ Reset(i) \/ ResetRefused(i) \/ Drop(i)
      PROVE  Starts(i) \/ Goes(i)
  BY <1>2, Zenon DEF Starts, Goes
<1> QED
  BY <1>1, <1>2, Zenon DEF Next
-----------------------------------------------------------------------------
(* The types and the control of the requests are kept. *)

LEMMA ControlTurns ==
    ASSUME Shapes, Control, NEW i \in Slots, NEW r, Turns(i, r), Sane(r)
    PROVE  req' \in [Slots -> Request] /\ Control'
BY DEF Control, Turns, Alone

LEMMA ControlSame == ASSUME Control, UNCHANGED req PROVE Control'
BY DEF Control

LEMMA ControlFinishes ==
    ASSUME Shapes, Control, NEW i \in Slots, Finish(i)
    PROVE  req' \in [Slots -> Request] /\ Control'
BY Finishes, ControlTurns, Literals

\* A request that goes on is at one of the statements of its handler.
LEMMA ControlGoes ==
    ASSUME Shapes, Control, NEW i \in Slots, NEW pc \in Pcs, Goto(i, pc),
           \/ req[i].pc = "role" /\ pc = "write"
           \/ req[i].pc = "role" /\ pc = "count" /\ req[i].op # "lock"
           \/ req[i].pc = "count" /\ pc = "write"
           \/ req[i].pc = "write" /\ pc = "evict" /\ req[i].op = "lock"
           \/ req[i].pc = "rehash" /\ pc \in {"persist", "issue"}
           \/ req[i].pc = "persist" /\ pc = "issue"
           \/ req[i].pc = "set" /\ pc = "sweep"
    PROVE  req' \in [Slots -> Request] /\ Control'
<1>1. PICK r : Turns(i, r) /\ Asks(r, req[i].op, pc, req[i].u, req[i].birth, req[i].arg)
  BY GoesOn
<1>2. Sane(req[i]) /\ req[i].op \in Ops
  BY RequestFields DEF Control
<1>3. Sane(r)
  BY <1>1, <1>2 DEF Sane, Asks, Ops
<1> QED
  BY <1>1, <1>3, ControlTurns

LEMMA ControlSpends ==
    ASSUME Shapes, Control, NEW i \in Slots, NEW u, req' = [Spent(u) EXCEPT ![i] = NoRequest]
    PROVE  req' \in [Slots -> Request] /\ Control'
<1>1. req' \in [Slots -> Request] /\ Sane(req'[i])
  BY Spends, Literals
<1>2. ASSUME NEW j \in Slots \ {i} PROVE Sane(req'[j])
  <2>1. /\ req'[j].op = req[j].op /\ req'[j].u = req[j].u
        /\ req'[j].birth = req[j].birth /\ req'[j].arg = req[j].arg
        /\ \/ req'[j].pc = req[j].pc
           \/ req[j].pc = "reset" /\ req'[j].pc = "spent"
    BY Spends DEF At
  <2>2. Sane(req[j])
    BY DEF Control
  <2> QED BY <2>1, <2>2 DEF Sane
<1> QED
  BY <1>1, <1>2 DEF Control

LEMMA ControlStep ==
    ASSUME Shapes, Control, [Next]_vars
    PROVE  req' \in [Slots -> Request] /\ Control'
<1> DEFINE Kept == req' \in [Slots -> Request] /\ Control'
<1> USE Literals
<1>1. ASSUME NEW i \in Slots, Setup(i) PROVE Kept
  <2>1. PICK r : Turns(i, r) /\ Asks(r, "login", "issue", 1, births + 1, First)
    BY <1>1, SetupAsks
  <2>2. Sane(r)
    BY <2>1 DEF Asks, Sane
  <2> QED BY <2>1, <2>2, ControlTurns
<1>2. ASSUME NEW i \in Slots, NEW v \in Invites \cup {"none"}, RegisterCheck(i, v) PROVE Kept
  <2>1. PICK r : Turns(i, r) /\ Asks(r, "register", "create", None, 0, v)
    BY <1>2, RegisterAsks
  <2>2. Sane(r)
    BY <2>1 DEF Asks, Sane
  <2> QED BY <2>1, <2>2, ControlTurns
<1>3. ASSUME NEW i \in Slots, RegisterCreate(i) PROVE Kept
  <2>1. PICK r : /\ Turns(i, r)
                 /\ IF req[i].arg = "none"
                       THEN Asks(r, "login", "issue", NextUser, births + 1, First)
                       ELSE Asks(r, req[i].op, "consume", NextUser, births + 1, req[i].arg)
    BY <1>3, CreateAsks
  <2>2. NextUser \in Users /\ req[i].op = "register" /\ req[i].arg \in Invites \cup {"none"}
    BY <1>3 DEF RegisterCreate, At, Control, Sane
  <2>3. Sane(r)
    BY <2>1, <2>2 DEF Asks, Sane
  <2> QED BY <2>1, <2>3, ControlTurns
<1>4. ASSUME NEW i \in Slots, RegisterConsume(i) PROVE Kept
  <2>1. PICK r : Turns(i, r) /\ Asks(r, "login", "issue", req[i].u, req[i].birth, First)
    BY <1>4, ConsumeAsks
  <2>2. req[i].u \in Users
    BY <1>4, ConsumeInvite
  <2>3. Sane(r)
    BY <2>1, <2>2 DEF Asks, Sane
  <2> QED BY <2>1, <2>3, ControlTurns
<1>5. ASSUME NEW i \in Slots, RegisterUndo(i) PROVE Kept
  <2>1. PICK r : Turns(i, r) /\ Asks(r, "remove", "role", req[i].u, req[i].birth, req[i].arg)
    BY <1>5, UndoAsks
  <2>2. req[i].u \in Users
    BY <1>5 DEF RegisterUndo, At, Control, Sane
  <2>3. Sane(r)
    BY <2>1, <2>2 DEF Asks, Sane
  <2> QED BY <2>1, <2>3, ControlTurns
<1>6. ASSUME NEW i \in Slots, NEW a \in Users, NEW u \in Users, AdminStart(i, a, u) PROVE Kept
  <2>1. PICK r, what :
          /\ Turns(i, r) /\ what \in {"remove", "lock", "unlock", "owner", "admin", "user"}
          /\ Asks(r, what, IF what \in {"unlock", "owner"} THEN "write" ELSE "role",
                  u, acct[u].birth, "none")
    BY <1>6, AdminAsks
  <2>2. Sane(r)
    BY <2>1 DEF Asks, Sane
  <2> QED BY <2>1, <2>2, ControlTurns
<1>7. ASSUME NEW i \in Slots, NEW u \in Users, DeleteMe(i, u) PROVE Kept
  <2>1. PICK r : Turns(i, r) /\ Asks(r, "remove", "role", u, acct[u].birth, "none")
    BY <1>7, DeleteAsks
  <2>2. Sane(r)
    BY <2>1 DEF Asks, Sane
  <2> QED BY <2>1, <2>2, ControlTurns
<1>8. ASSUME NEW i \in Slots, NEW u \in Users, Login(i, u) PROVE Kept
  <2>1. PICK r : Turns(i, r) /\ Asks(r, "login", "rehash", u, acct[u].birth, acct[u].pw)
    BY <1>8, LoginAsks
  <2>2. Sane(r)
    BY <2>1, AccountFields DEF Asks, Sane
  <2> QED BY <2>1, <2>2, ControlTurns
<1>9. ASSUME NEW i \in Slots, NEW u \in Users, NEW s \in Sessions \cup {None}, ChangeStart(i, u, s)
      PROVE  Kept
  <2>1. PICK r, p : /\ Turns(i, r) /\ p \in Passwords
                    /\ Asks(r, "change", "set", u, acct[u].birth, p)
    BY <1>9, ChangeAsks
  <2>2. Sane(r)
    BY <2>1 DEF Asks, Sane
  <2> QED BY <2>1, <2>2, ControlTurns
<1>10. ASSUME NEW i \in Slots, NEW u \in Users, ResetStart(i, u) PROVE Kept
  <2>1. PICK r, p : /\ Turns(i, r) /\ p \in Passwords
                    /\ Asks(r, "reset", "reset", u, acct[u].birth, p)
    BY <1>10, ResetAsks
  <2>2. Sane(r)
    BY <2>1 DEF Asks, Sane
  <2> QED BY <2>1, <2>2, ControlTurns
<1>11. ASSUME NEW i \in Slots,
              \/ RegisterConflict(i) \/ SetRole(i) \/ LockEvicts(i) \/ IssueSession(i)
              \/ ChangeSweep(i) \/ ResetRefused(i) \/ Drop(i)
       PROVE  Kept
  <2>1. Finish(i)
    BY <1>11 DEF RegisterConflict, SetRole, LockEvicts, IssueSession, ChangeSweep,
                 ResetRefused, Drop
  <2> QED BY <2>1, ControlFinishes
<1>12. ASSUME NEW i \in Slots, ReadRole(i) PROVE Kept
  <2>1. CASE Finish(i)
    BY <2>1, ControlFinishes
  <2>2. CASE ~ Finish(i)
    <3>1. PICK pc \in {"count", "write"} :
             Goto(i, pc) /\ (pc = "count" => req[i].u \in Owners /\ req[i].op # "lock")
      BY <1>12, <2>2 DEF ReadRole
    <3>2. req[i].pc = "role" /\ pc \in Pcs
      BY <1>12 DEF ReadRole, At, Pcs
    <3> QED BY <3>1, <3>2, ControlGoes
  <2> QED BY <2>1, <2>2
<1>13. ASSUME NEW i \in Slots, CountOwners(i) PROVE Kept
  <2>1. Finish(i) \/ (Goto(i, "write") /\ req[i].pc = "count")
    BY <1>13 DEF CountOwners, At
  <2>2. "write" \in Pcs
    BY DEF Pcs
  <2> QED BY <2>1, <2>2, ControlFinishes, ControlGoes
<1>14. ASSUME NEW i \in Slots, Remove(i) \/ Reset(i) PROVE Kept
  <2>1. req' = [Spent(req[i].u) EXCEPT ![i] = NoRequest]
    BY <1>14 DEF Remove, Reset
  <2> QED BY <2>1, ControlSpends
<1>15. ASSUME NEW i \in Slots, SetLocked(i) PROVE Kept
  <2>1. Finish(i) \/ (Goto(i, "evict") /\ req[i].pc = "write" /\ req[i].op = "lock")
    BY <1>15 DEF SetLocked, At
  <2>2. "evict" \in Pcs
    BY DEF Pcs
  <2> QED BY <2>1, <2>2, ControlFinishes, ControlGoes
<1>16. ASSUME NEW i \in Slots, NeedsRehash(i) \/ Rehash(i) \/ ChangeSet(i) PROVE Kept
  <2>1. PICK pc \in Pcs :
          /\ Goto(i, pc)
          /\ \/ req[i].pc = "rehash" /\ pc \in {"persist", "issue"}
             \/ req[i].pc = "persist" /\ pc = "issue"
             \/ req[i].pc = "set" /\ pc = "sweep"
    <3>1. CASE NeedsRehash(i)
      BY <3>1 DEF NeedsRehash, At, Pcs
    <3>2. CASE Rehash(i) \/ ChangeSet(i)
      BY <3>2 DEF Rehash, ChangeSet, At, Pcs
    <3> QED BY <1>16, <3>1, <3>2
  <2> QED BY <2>1, ControlGoes
<1>17. ASSUME NEW v \in Invites, InviteEnds(v) \/ \E u \in Users : CreateInvite(v, u) PROVE Kept
  <2>1. UNCHANGED req
    BY <1>17 DEF InviteEnds, CreateInvite
  <2> QED BY <2>1, ControlSame DEF Shapes
<1>18. ASSUME NEW s \in Sessions, SessionEnds(s) PROVE Kept
  <2>1. UNCHANGED req
    BY <1>18 DEF SessionEnds
  <2> QED BY <2>1, ControlSame DEF Shapes
<1>19. ASSUME UNCHANGED vars PROVE Kept
  <2>1. UNCHANGED req
    BY <1>19 DEF vars
  <2> QED BY <2>1, ControlSame DEF Shapes
<1> HIDE DEF Kept
<1>20. ASSUME NEW i \in Slots, Starts(i) PROVE Kept
  BY <1>20, <1>2, <1>6, <1>7, <1>8, <1>9, <1>10, Zenon DEF Starts
<1>21. ASSUME NEW i \in Slots, Goes(i) PROVE Kept
  BY <1>21, <1>1, <1>3, <1>4, <1>5, <1>11, <1>12, <1>13, <1>14, <1>15, <1>16, Zenon DEF Goes
<1>22. Kept
  BY <1>17, <1>18, <1>19, <1>20, <1>21, Steps
<1> QED
  BY <1>22 DEF Kept
-----------------------------------------------------------------------------
(* The rows: what most of the steps leave alone. *)

\* Neither a birth, nor a removal, nor a role, nor an invite.
Tame ==
    /\ acct' \in [Users -> AccountRow] /\ births' = births /\ invite' = invite
    /\ \A w \in Users : /\ Same(w) /\ acct'[w].role = acct[w].role
                        /\ acct'[w].granted = acct[w].granted

LEMMA TameSame ==
    ASSUME Shapes, UNCHANGED <<acct, births, invite>>
    PROVE  Tame
BY DEF Shapes, Tame, Same

LEMMA StartsQuiet ==
    ASSUME NEW i \in Slots, Starts(i)
    PROVE  UNCHANGED <<acct, invite, sess, births, overlap, odd>>
BY DEF Starts, RegisterCheck, AdminStart, DeleteMe, Login, ResetStart, ChangeStart

LEMMA TameGoes ==
    ASSUME Shapes, Control, NEW i \in Slots, Goes(i),
           ~ Setup(i), ~ RegisterCreate(i), ~ RegisterConsume(i), ~ Remove(i), ~ SetRole(i)
    PROVE  Tame
<1>1. ASSUME \/ RegisterConflict(i) \/ RegisterUndo(i) \/ ReadRole(i) \/ CountOwners(i)
             \/ LockEvicts(i) \/ NeedsRehash(i) \/ IssueSession(i) \/ ChangeSweep(i)
             \/ ResetRefused(i) \/ Drop(i)
      PROVE  Tame
  <2>1. UNCHANGED <<acct, births, invite>>
    BY <1>1 DEF RegisterConflict, RegisterUndo, ReadRole, CountOwners, LockEvicts, NeedsRehash,
                IssueSession, ChangeSweep, ResetRefused, Drop
  <2> QED BY <2>1, TameSame
<1>2. ASSUME SetLocked(i) PROVE Tame
  <2>1. births' = births /\ invite' = invite
    BY <1>2 DEF SetLocked
  <2>2. CASE req[i].u \notin Here
    <3>1. acct' = acct
      BY <1>2, <2>2 DEF SetLocked
    <3> QED BY <2>1, <3>1, TameSame
  <2>3. CASE req[i].u \in Here
    <3>1. acct' = [acct EXCEPT ![req[i].u].locked = (req[i].op = "lock")]
      BY <1>2, <2>3 DEF SetLocked
    <3>2. req[i].u \in Users /\ (req[i].op = "lock") \in BOOLEAN
      BY <2>3 DEF Here
    <3> QED BY <2>1, <3>1, <3>2, LockedSet DEF Tame
  <2> QED BY <2>2, <2>3
<1>3. ASSUME Rehash(i) \/ ChangeSet(i) \/ Reset(i) PROVE Tame
  <2>1. births' = births /\ invite' = invite
    BY <1>3 DEF Rehash, ChangeSet, Reset
  <2>2. CASE acct' = acct
    BY <2>1, <2>2, TameSame
  <2>3. CASE acct' # acct
    <3>1. acct' = [acct EXCEPT ![req[i].u].pw = req[i].arg, ![req[i].u].weak = FALSE]
      BY <1>3, <2>3 DEF Rehash, ChangeSet, Reset
    <3>2. req[i].u \in Users /\ req[i].arg \in Passwords
      BY <1>3 DEF Rehash, ChangeSet, Reset, At, Control, Sane
    <3> QED BY <2>1, <3>1, <3>2, PasswordSet DEF Tame
  <2> QED BY <2>2, <2>3
<1> QED
  BY <1>1, <1>2, <1>3 DEF Goes

LEMMA Kinds ==
    ASSUME Shapes, Control, [Next]_vars
    PROVE  \/ Tame
           \/ \E i \in Slots : \/ Setup(i) \/ RegisterCreate(i) \/ RegisterConsume(i)
                               \/ Remove(i) \/ SetRole(i)
           \/ \E v \in Invites : InviteEnds(v) \/ \E u \in Users : CreateInvite(v, u)
<1>1. ASSUME NEW i \in Slots, Starts(i) PROVE Tame
  BY <1>1, StartsQuiet, TameSame
<1>2. ASSUME NEW i \in Slots, Goes(i)
      PROVE  Tame \/ Setup(i) \/ RegisterCreate(i) \/ RegisterConsume(i)
                  \/ Remove(i) \/ SetRole(i)
  BY <1>2, TameGoes
<1>3. ASSUME NEW s \in Sessions, SessionEnds(s) PROVE Tame
  BY <1>3, TameSame DEF SessionEnds
<1>4. ASSUME UNCHANGED vars PROVE Tame
  BY <1>4, TameSame DEF vars
<1> QED
  BY <1>1, <1>2, <1>3, <1>4, Steps

-----------------------------------------------------------------------------
(* The sessions a step leaves. *)

\* Where session s comes from: it was closed, is as it was, was kept through a
\* change of password, or has just been issued.
Closed(s) == sess'[s] = NoSession
Kept(s)   == sess'[s] = sess[s]
Renewed(i, s) == /\ ChangeSweep(i) /\ s \in Live
                 /\ sess[s].u = req[i].u /\ sess'[s].u = sess[s].u
                 /\ sess'[s].under = acct[req[i].u].pw
Issued(i, s)  == /\ IssueSession(i) /\ req[i].u \in Here
                 /\ sess'[s].u = req[i].u /\ sess'[s].under = acct[req[i].u].pw

LEMMA SessionsStep ==
    ASSUME Shapes, Control, [Next]_vars
    PROVE  /\ sess' \in [Sessions -> SessionRow]
           /\ \A s \in Sessions :
                Closed(s) \/ Kept(s) \/ \E i \in Slots : Renewed(i, s) \/ Issued(i, s)
<1> DEFINE Done == /\ sess' \in [Sessions -> SessionRow]
                   /\ \A s \in Sessions :
                        Closed(s) \/ Kept(s) \/ \E i \in Slots : Renewed(i, s) \/ Issued(i, s)
<1>1. ASSUME sess' = sess PROVE Done
  BY <1>1 DEF Shapes, Kept
<1>2. ASSUME NEW ids, sess' = Without(ids) PROVE Done
  BY <1>2, WithoutKeeps DEF Kept, Closed
<1>3. ASSUME NEW i \in Slots, IssueSession(i) PROVE Done
  BY <1>3, IssueSets DEF Kept, Issued
<1>4. ASSUME NEW i \in Slots, ChangeSweep(i) PROVE Done
  BY <1>4, SweepSets DEF Kept, Closed, Renewed
<1>5. ASSUME NEW s \in Sessions, SessionEnds(s) PROVE Done
  <2>1. sess' = [sess EXCEPT ![s] = NoSession]
    BY <1>5 DEF SessionEnds
  <2> QED BY <2>1, Literals DEF Shapes, Kept, Closed
<1>6. ASSUME NEW i \in Slots, Starts(i) PROVE Done
  BY <1>1, <1>6, StartsQuiet
<1>7. ASSUME NEW i \in Slots, Goes(i) PROVE Done
  <2>1. CASE Remove(i) \/ LockEvicts(i) \/ Reset(i)
    <3>1. sess' = Without({req[i].u})
      BY <2>1 DEF Remove, LockEvicts, Reset
    <3> HIDE DEF Done
    <3> QED BY <1>2, <3>1
  <2>2. CASE IssueSession(i) \/ ChangeSweep(i)
    BY <1>3, <1>4, <2>2
  <2>3. CASE \/ Setup(i) \/ RegisterCreate(i) \/ RegisterConflict(i) \/ RegisterConsume(i)
             \/ RegisterUndo(i) \/ ReadRole(i) \/ CountOwners(i) \/ SetRole(i) \/ SetLocked(i)
             \/ NeedsRehash(i) \/ Rehash(i) \/ ChangeSet(i) \/ ResetRefused(i) \/ Drop(i)
    <3>1. sess' = sess
      BY <2>3 DEF Setup, RegisterCreate, RegisterConflict, RegisterConsume, RegisterUndo, ReadRole,
                  CountOwners, SetRole, SetLocked, NeedsRehash, Rehash, ChangeSet, ResetRefused, Drop
    <3> QED BY <1>1, <3>1
  <2> HIDE DEF Done
  <2> QED BY <1>7, <2>1, <2>2, <2>3 DEF Goes
<1>8. ASSUME NEW v \in Invites, InviteEnds(v) \/ \E u \in Users : CreateInvite(v, u) PROVE Done
  <2>1. sess' = sess
    BY <1>8 DEF InviteEnds, CreateInvite
  <2> QED BY <1>1, <2>1
<1>9. ASSUME UNCHANGED vars PROVE Done
  <2>1. sess' = sess
    BY <1>9 DEF vars
  <2> QED BY <1>1, <2>1
<1> HIDE DEF Done
<1>10. Done
  BY <1>5, <1>6, <1>7, <1>8, <1>9, Steps
<1> QED
  BY <1>10 DEF Done
LEMMA ShapesStep ==
    ASSUME Shapes, Control, [Next]_vars
    PROVE  Shapes' /\ Control'
<1>1. req' \in [Slots -> Request] /\ Control' /\ sess' \in [Sessions -> SessionRow]
  BY ControlStep, SessionsStep
<1> DEFINE Rows == /\ acct' \in [Users -> AccountRow] /\ invite' \in [Invites -> InviteRow]
                   /\ births' \in Nat
<1>2. invite \in [Invites -> InviteRow] /\ births \in Nat /\ acct \in [Users -> AccountRow]
  BY DEF Shapes
<1>3. ASSUME Tame PROVE Rows
  BY <1>2, <1>3 DEF Tame
<1>4. ASSUME NEW i \in Slots, Setup(i) PROVE Rows
  <2>1. invite' = invite
    BY <1>4 DEF Setup
  <2>2. acct' \in [Users -> AccountRow] /\ births' = births + 1
    BY <1>4, SetupSets
  <2> QED BY <1>2, <2>1, <2>2
<1>5. ASSUME NEW i \in Slots, RegisterCreate(i) PROVE Rows
  <2>1. invite' = invite
    BY <1>5 DEF RegisterCreate
  <2>2. acct' \in [Users -> AccountRow] /\ births' = births + 1
    BY <1>5, CreateSets
  <2> QED BY <1>2, <2>1, <2>2
<1>6. ASSUME NEW i \in Slots, RegisterConsume(i) PROVE Rows
  <2>1. births' = births
    BY <1>6 DEF RegisterConsume
  <2>2. invite' \in [Invites -> InviteRow] /\ req[i].u \in Users /\ req[i].arg \in Invites
        /\ acct' = [acct EXCEPT ![req[i].u].granted = @ \cup {req[i].arg}]
    BY <1>6, ConsumeInvite
  <2>3. acct' \in [Users -> AccountRow]
    BY <2>2, GrantedSet
  <2> QED BY <1>2, <2>1, <2>2, <2>3
<1>7. ASSUME NEW i \in Slots, Remove(i) PROVE Rows
  BY <1>2, <1>7, RemoveSets, RemoveInvites DEF Remove
<1>8. ASSUME NEW i \in Slots, SetRole(i) PROVE Rows
  <2>1. births' = births /\ invite' = invite
    BY <1>8 DEF SetRole
  <2>2. CASE req[i].u \in Here
    <3>1. req[i].u \in Users /\ req[i].op \in Roles /\ acct' = [acct EXCEPT ![req[i].u].role = req[i].op]
      BY <1>8, <2>2 DEF SetRole, Roles, Here
    <3>2. acct' \in [Users -> AccountRow]
      BY <3>1, RoleSet
    <3> QED BY <1>2, <2>1, <3>2
  <2>3. CASE req[i].u \notin Here
    BY <1>2, <1>8, <2>1, <2>3 DEF SetRole
  <2> QED BY <2>2, <2>3
<1>9. ASSUME NEW v \in Invites, InviteEnds(v) \/ \E u \in Users : CreateInvite(v, u) PROVE Rows
  <2>1. acct' = acct /\ births' = births
    BY <1>9 DEF InviteEnds, CreateInvite
  <2>2. invite' \in [Invites -> InviteRow]
    BY <1>9, InviteEndsSets, CreateInviteSets
  <2> QED BY <1>2, <2>1, <2>2
<1> HIDE DEF Rows
<1>10. Rows
  BY <1>3, <1>4, <1>5, <1>6, <1>7, <1>8, <1>9, Kinds
<1> QED
  BY <1>1, <1>10 DEF Rows, Shapes

-----------------------------------------------------------------------------
(* The requests a step leaves. *)

\* Where the request of slot j comes from: it is over, it starts for an account
\* that is there, or it goes on; a step with a birth is neither of these.
Blank(j) == req'[j].u = None /\ req'[j].birth = 0 /\ req'[j].pc \in {"idle", "create"}
Fresh(j) ==
    /\ req'[j].u \in Here /\ req'[j].birth = acct[req'[j].u].birth
    /\ req'[j].arg \notin Invites
    /\ req'[j].op \in {"login", "change", "reset"} => acct[req'[j].u].st = "here"
Moved(j) ==
    /\ req'[j].u = req[j].u /\ req'[j].birth = req[j].birth
    /\ req'[j].arg = req[j].arg \/ req'[j].arg \notin Invites
    /\ req'[j].op \in {"register", "login", "change", "reset"}
         => req[j].op \in {"register", "login", "change", "reset"}
    /\ req'[j].pc = "reset" => req[j].pc = "reset"
Made(j) == Blank(j) \/ Fresh(j) \/ Moved(j)

LEMMA MadeTurns ==
    ASSUME NEW i \in Slots, NEW r, Turns(i, r), Made(i)
    PROVE  \A j \in Slots : Made(j)
BY DEF Turns, Alone, Made, Moved

LEMMA MadeFinishes ==
    ASSUME Shapes, NEW i \in Slots, Finish(i)
    PROVE  \A j \in Slots : Made(j)
<1>1. Turns(i, NoRequest)
  BY Finishes
<1>2. Made(i)
  BY <1>1 DEF Turns, Made, Blank, NoRequest
<1> QED
  BY <1>1, <1>2, MadeTurns

LEMMA MadeGoes ==
    ASSUME Shapes, NEW i \in Slots, NEW pc \in Pcs, Goto(i, pc), pc # "reset"
    PROVE  \A j \in Slots : Made(j)
<1>1. PICK r : Turns(i, r) /\ Asks(r, req[i].op, pc, req[i].u, req[i].birth, req[i].arg)
  BY GoesOn
<1>2. Made(i)
  BY <1>1 DEF Turns, Asks, Made, Moved
<1> QED
  BY <1>1, <1>2, MadeTurns

LEMMA MadeSpends ==
    ASSUME Shapes, NEW i \in Slots, NEW u, req' = [Spent(u) EXCEPT ![i] = NoRequest]
    PROVE  \A j \in Slots : Made(j)
<1>1. Made(i)
  <2>1. req'[i] = NoRequest
    BY Spends
  <2> QED BY <2>1 DEF Made, Blank, NoRequest
<1>2. ASSUME NEW j \in Slots \ {i} PROVE Made(j)
  <2>1. /\ req'[j].op = req[j].op /\ req'[j].u = req[j].u
        /\ req'[j].birth = req[j].birth /\ req'[j].arg = req[j].arg
        /\ req'[j].pc = "spent" \/ req'[j].pc = req[j].pc
    BY Spends
  <2> QED BY <2>1 DEF Made, Moved
<1> QED
  BY <1>1, <1>2

LEMMA MadeStarts ==
    ASSUME Shapes, NEW i \in Slots, Starts(i)
    PROVE  \A j \in Slots : Made(j)
<1> DEFINE All == \A j \in Slots : Made(j)
<1> USE Literals
<1>1. ASSUME NEW v \in Invites \cup {"none"}, RegisterCheck(i, v) PROVE All
  <2>1. PICK r : Turns(i, r) /\ Asks(r, "register", "create", None, 0, v)
    BY <1>1, RegisterAsks
  <2>2. Made(i)
    BY <2>1 DEF Turns, Asks, Made, Blank
  <2> QED BY <2>1, <2>2, MadeTurns
<1>2. ASSUME NEW a \in Users, NEW u \in Users, AdminStart(i, a, u) PROVE All
  <2>1. PICK r, what :
          /\ Turns(i, r) /\ what \in {"remove", "lock", "unlock", "owner", "admin", "user"}
          /\ Asks(r, what, IF what \in {"unlock", "owner"} THEN "write" ELSE "role",
                  u, acct[u].birth, "none")
    BY <1>2, AdminAsks
  <2>2. u \in Here
    BY <1>2 DEF AdminStart
  <2>3. Made(i)
    BY <2>1, <2>2 DEF Turns, Asks, Made, Fresh
  <2> QED BY <2>1, <2>3, MadeTurns
<1>3. ASSUME NEW u \in Users, DeleteMe(i, u) PROVE All
  <2>1. PICK r : Turns(i, r) /\ Asks(r, "remove", "role", u, acct[u].birth, "none")
    BY <1>3, DeleteAsks
  <2>2. u \in Here
    BY <1>3 DEF DeleteMe, SignedIn, Allowed
  <2>3. Made(i)
    BY <2>1, <2>2 DEF Turns, Asks, Made, Fresh
  <2> QED BY <2>1, <2>3, MadeTurns
<1>4. ASSUME NEW u \in Users, NEW r, NEW op, NEW pc, NEW p \in Passwords, acct[u].st = "here",
             Turns(i, r), Asks(r, op, pc, u, acct[u].birth, p)
      PROVE  All
  <2>1. u \in Here
    BY <1>4 DEF Here
  <2>2. Made(i)
    BY <1>4, <2>1 DEF Turns, Asks, Made, Fresh
  <2> QED BY <1>4, <2>2, MadeTurns
<1> HIDE DEF All
<1>5. ASSUME NEW u \in Users, Login(i, u) PROVE All
  <2>1. PICK r : Turns(i, r) /\ Asks(r, "login", "rehash", u, acct[u].birth, acct[u].pw)
    BY <1>5, LoginAsks
  <2>2. acct[u].st = "here" /\ acct[u].pw \in Passwords
    BY <1>5, AccountFields DEF Login
  <2> QED BY <1>4, <2>1, <2>2
<1>6. ASSUME NEW u \in Users, NEW s \in Sessions \cup {None}, ChangeStart(i, u, s) PROVE All
  <2>1. PICK r, p : /\ Turns(i, r) /\ p \in Passwords
                    /\ Asks(r, "change", "set", u, acct[u].birth, p)
    BY <1>6, ChangeAsks
  <2>2. acct[u].st = "here"
    BY <1>6 DEF ChangeStart
  <2> QED BY <1>4, <2>1, <2>2
<1>7. ASSUME NEW u \in Users, ResetStart(i, u) PROVE All
  <2>1. PICK r, p : /\ Turns(i, r) /\ p \in Passwords
                    /\ Asks(r, "reset", "reset", u, acct[u].birth, p)
    BY <1>7, ResetAsks
  <2>2. acct[u].st = "here"
    BY <1>7 DEF ResetStart
  <2> QED BY <1>4, <2>1, <2>2
<1> HIDE Literals
<1>8. All
  BY <1>1, <1>2, <1>3, <1>5, <1>6, <1>7 DEF Starts
<1> QED
  BY <1>8 DEF All

LEMMA MadeStep ==
    ASSUME Shapes, Control, [Next]_vars,
           \A i \in Slots : ~ Setup(i) /\ ~ RegisterCreate(i)
    PROVE  \A j \in Slots : Made(j)
<1> DEFINE All == \A j \in Slots : Made(j)
<1>1. ASSUME UNCHANGED req PROVE All
  BY <1>1 DEF Made, Moved
<1>2. ASSUME NEW i \in Slots, Starts(i) PROVE All
  BY <1>2, MadeStarts
<1>3. ASSUME NEW i \in Slots, Goes(i) PROVE All
  <2>1. CASE \/ RegisterConflict(i) \/ SetRole(i) \/ LockEvicts(i) \/ IssueSession(i)
             \/ ChangeSweep(i) \/ ResetRefused(i) \/ Drop(i)
    <3>1. Finish(i)
      BY <2>1 DEF RegisterConflict, SetRole, LockEvicts, IssueSession, ChangeSweep,
                  ResetRefused, Drop
    <3> QED BY <3>1, MadeFinishes
  <2>2. CASE \/ ReadRole(i) \/ CountOwners(i) \/ SetLocked(i) \/ NeedsRehash(i)
             \/ Rehash(i) \/ ChangeSet(i)
    <3>1. Finish(i) \/ \E pc \in Pcs \ {"reset"} : Goto(i, pc)
      BY <2>2 DEF ReadRole, CountOwners, SetLocked, NeedsRehash, Rehash, ChangeSet, Pcs
    <3> QED BY <3>1, MadeFinishes, MadeGoes
  <2>3. CASE Remove(i) \/ Reset(i)
    <3>1. req' = [Spent(req[i].u) EXCEPT ![i] = NoRequest]
      BY <2>3 DEF Remove, Reset
    <3> QED BY <3>1, MadeSpends
  <2>4. CASE RegisterConsume(i)
    <3>1. PICK r : Turns(i, r) /\ Asks(r, "login", "issue", req[i].u, req[i].birth, First)
      BY <2>4, ConsumeAsks
    <3>2. req[i].op = "register"
      BY <2>4 DEF RegisterConsume, At, Control, Sane
    <3>3. Made(i)
      BY <3>1, <3>2, Literals DEF Turns, Asks, Made, Moved
    <3> QED BY <3>1, <3>3, MadeTurns
  <2>5. CASE RegisterUndo(i)
    <3>1. PICK r : Turns(i, r) /\ Asks(r, "remove", "role", req[i].u, req[i].birth, req[i].arg)
      BY <2>5, UndoAsks
    <3>2. Made(i)
      BY <3>1 DEF Turns, Asks, Made, Moved
    <3> QED BY <3>1, <3>2, MadeTurns
  <2> HIDE DEF All
  <2> QED BY <1>3, <2>1, <2>2, <2>3, <2>4, <2>5 DEF Goes
<1>4. ASSUME \/ \E s \in Sessions : SessionEnds(s)
             \/ \E v \in Invites : InviteEnds(v) \/ \E u \in Users : CreateInvite(v, u)
             \/ UNCHANGED vars
      PROVE  All
  <2>1. UNCHANGED req
    BY <1>4 DEF SessionEnds, InviteEnds, CreateInvite, vars
  <2> QED BY <1>1, <2>1
<1> HIDE DEF All
<1>5. All
  BY <1>2, <1>3, <1>4, Steps
<1> QED
  BY <1>5 DEF All
-----------------------------------------------------------------------------
(* Which account a request, a session or a token is about. *)

\* No two accounts have one birth, and the placeholder has none and redeemed no
\* invite.
Births ==
    /\ \A u \in Here : /\ acct[u].birth <= births
                       /\ acct[u].st = "placeholder" => acct[u].via = "none"
                       /\ acct[u].st = "here" => acct[u].birth # 0
    /\ \A u, w \in Here : acct[u].birth = acct[w].birth => u = w

\* The account a request is about, when it is still there, is the one of its
\* id, and a registration's is the one made with its invite.
Own ==
    \A j \in Slots :
      /\ req[j].birth <= births
      /\ req[j].u # None =>
           \A w \in Here : acct[w].birth = req[j].birth =>
             w = req[j].u /\ (req[j].arg \in Invites => acct[w].via = req[j].arg)

\* Nobody signs in to the placeholder, or resets its password.
Claims ==
    \A j \in Slots :
      req[j].op \in {"register", "login", "change", "reset"} /\ req[j].u # None
        => acct[req[j].u].st # "placeholder"

Opened == \A s \in Live : sess[s].u \in Users /\ acct[sess[s].u].st = "here"

\* A token found active is its account's until it is consumed.
Tokens ==
    \A j \in Slots : At(j, "reset") =>
      acct[req[j].u].st = "here" /\ acct[req[j].u].birth = req[j].birth

Base == Shapes /\ Control /\ Births /\ Own /\ Claims /\ Opened /\ Tokens

\* Nobody is born, and who is there was there and is the same.
Older ==
    /\ births' = births
    /\ \A w \in Users : acct'[w].st # "none" => acct[w].st # "none" /\ Same(w)

LEMMA RolesStay ==
    ASSUME Shapes, NEW i \in Slots, SetRole(i)
    PROVE  \A w \in Users :
             /\ Same(w) /\ acct'[w].pw = acct[w].pw /\ acct'[w].granted = acct[w].granted
             /\ w # req[i].u => acct'[w].role = acct[w].role
<1>1. CASE req[i].u \in Here
  <2>1. req[i].u \in Users /\ req[i].op \in Roles /\ acct' = [acct EXCEPT ![req[i].u].role = req[i].op]
    BY <1>1 DEF SetRole, Roles, Here
  <2> QED BY <2>1, RoleSet
<1>2. CASE req[i].u \notin Here
  <2>1. acct' = acct
    BY <1>2 DEF SetRole
  <2> QED BY <2>1 DEF Same
<1> QED
  BY <1>1, <1>2

LEMMA GrantsStay ==
    ASSUME Shapes, Control, NEW i \in Slots, RegisterConsume(i)
    PROVE  \A w \in Users :
             /\ Same(w) /\ acct'[w].pw = acct[w].pw /\ acct'[w].role = acct[w].role
             /\ acct'[w].granted = IF w = req[i].u THEN acct[w].granted \cup {req[i].arg}
                                                   ELSE acct[w].granted
<1>1. /\ req[i].u \in Users /\ req[i].arg \in Invites
      /\ acct' = [acct EXCEPT ![req[i].u].granted = @ \cup {req[i].arg}]
  BY ConsumeInvite
<1>2. /\ acct'[req[i].u].granted = acct[req[i].u].granted \cup {req[i].arg}
      /\ \A w \in Users : Same(w) /\ acct'[w].pw = acct[w].pw /\ acct'[w].role = acct[w].role
      /\ \A w \in Users \ {req[i].u} : acct'[w] = acct[w]
  BY <1>1, GrantedSet
<1> QED
  BY <1>2

LEMMA SameOrRemoved ==
    ASSUME Shapes, Control, [Next]_vars,
           \A i \in Slots : ~ Setup(i) /\ ~ RegisterCreate(i) /\ ~ Remove(i)
    PROVE  births' = births /\ \A w \in Users : Same(w)
<1> DEFINE Done == births' = births /\ \A w \in Users : Same(w)
<1>1. ASSUME Tame PROVE Done
  BY <1>1 DEF Tame
<1>2. ASSUME NEW i \in Slots, RegisterConsume(i) PROVE Done
  BY <1>2, GrantsStay DEF RegisterConsume
<1>3. ASSUME NEW i \in Slots, SetRole(i) PROVE Done
  BY <1>3, RolesStay DEF SetRole
<1>4. ASSUME NEW v \in Invites, InviteEnds(v) \/ \E u \in Users : CreateInvite(v, u) PROVE Done
  BY <1>4 DEF InviteEnds, CreateInvite, Same
<1> HIDE DEF Done
<1>5. Done
  BY <1>1, <1>2, <1>3, <1>4, Kinds
<1> QED
  BY <1>5 DEF Done

LEMMA OlderStep ==
    ASSUME Shapes, Control, [Next]_vars, \A i \in Slots : ~ Setup(i) /\ ~ RegisterCreate(i)
    PROVE  Older
<1>1. ASSUME NEW i \in Slots, Remove(i) PROVE Older
  <2>1. births' = births /\ req[i].u \in Users
    BY <1>1 DEF Remove, At, Control, Sane
  <2>2. acct'[req[i].u] = NoAccount /\ \A w \in Users \ {req[i].u} : acct'[w] = acct[w]
    BY <1>1, <2>1, RemoveSets
  <2>3. NoAccount.st = "none"
    BY DEF NoAccount
  <2> QED BY <2>1, <2>2, <2>3 DEF Older, Same
<1>2. ASSUME \A i \in Slots : ~ Remove(i) PROVE Older
  BY <1>2, SameOrRemoved DEF Older, Same
<1> QED
  BY <1>1, <1>2

\* A step without a birth keeps Births, Own and Claims.
LEMMA QuietStep ==
    ASSUME Base, Older, \A j \in Slots : Made(j), Shapes', Control'
    PROVE  Births' /\ Own' /\ Claims'
<1>1. \A w \in Users : w \in Here' => w \in Here /\ Same(w)
  BY DEF Older, Here
<1>2. Here' \subseteq Users /\ births' = births
  BY DEF Older, Here
<1>3. Births'
  BY <1>1, <1>2 DEF Births, Base, Same
<1>4. ASSUME NEW j \in Slots
      PROVE  /\ req'[j].birth <= births
             /\ req'[j].u # None =>
                  \A w \in Here' : acct'[w].birth = req'[j].birth =>
                    w = req'[j].u /\ (req'[j].arg \in Invites => acct'[w].via = req'[j].arg)
  <2>1. CASE Blank(j)
    <3>1. births \in Nat
      BY DEF Base, Shapes
    <3> QED BY <2>1, <3>1 DEF Blank
  <2>2. CASE Fresh(j)
    BY <1>1, <1>2, <2>2 DEF Fresh, Base, Births, Same
  <2>3. CASE Moved(j)
    BY <1>1, <1>2, <2>3 DEF Moved, Base, Own, Same
  <2> QED BY <2>1, <2>2, <2>3 DEF Made
<1>5. Own'
  BY <1>2, <1>4 DEF Own
<1>6. ASSUME NEW j \in Slots, req'[j].op \in {"register", "login", "change", "reset"},
             req'[j].u # None, acct'[req'[j].u].st = "placeholder"
      PROVE  FALSE
  <2>1. req'[j].u \in Users
    <3>1. req'[j].u \in Users \cup {None}
      BY DEF Shapes, Request
    <3> QED BY <1>6, <3>1
  <2>2. acct[req'[j].u].st = "placeholder"
    BY <1>6, <2>1 DEF Older, Same
  <2>3. req'[j].op = "register" => ~ Fresh(j)
    <3>1. req'[j].op = "register" => req'[j].u = None \/ req'[j].arg \in Invites
      BY DEF Control, Sane
    <3> QED BY <1>6, <3>1 DEF Fresh
  <2>4. ~ Fresh(j)
    BY <1>6, <2>2, <2>3 DEF Fresh
  <2>5. Moved(j)
    BY <1>6, <2>4 DEF Made, Blank
  <2> QED BY <1>6, <2>2, <2>5 DEF Moved, Base, Claims
<1>7. Claims'
  BY <1>6 DEF Claims
<1> QED
  BY <1>3, <1>5, <1>7

\* A step with a birth: account u is new, and request i is about it.
LEMMA BirthStep ==
    ASSUME Base, NEW i \in Slots, NEW u \in Users,
           acct[u].st \in {"none", "placeholder"}, acct'[u].st = "here",
           births' = births + 1, acct'[u].birth = births + 1,
           \A w \in Users \ {u} : acct'[w] = acct[w],
           \A j \in Slots \ {i} : req'[j] = req[j],
           req'[i].u = u, req'[i].birth = births + 1,
           req'[i].arg \in Invites => acct'[u].via = req'[i].arg
    PROVE  Births' /\ Own' /\ Claims'
<1>1. births \in Nat /\ \A w \in Users : acct[w].birth \in Nat
  BY AccountFields DEF Base, Shapes
<1>2. \A j \in Slots : req[j].birth \in Nat
  BY RequestFields DEF Base
<1>3. Here' \subseteq Users /\ u \in Here' /\ \A w \in Here' : w = u \/ w \in Here
  BY DEF Here
<1>4. \A w \in Here' : w # u => acct'[w] = acct[w] /\ acct[w].birth <= births
  BY <1>3 DEF Base, Births
<1>5. births + 1 \in Nat /\ births <= births + 1 /\ births + 1 <= births + 1
      /\ \A n \in Nat : n <= births => n <= births + 1 /\ n # births + 1
  BY <1>1
<1>6. \A w \in Here' : w # u => acct'[w].birth <= births + 1 /\ acct'[w].birth # births + 1
  BY <1>1, <1>3, <1>4, <1>5
<1>7. Births'
  <2>1. \A w \in Here' : acct'[w].birth <= births'
    BY <1>5, <1>6
  <2>2. \A w \in Here' : /\ acct'[w].st = "placeholder" => acct'[w].via = "none"
                         /\ acct'[w].st = "here" => acct'[w].birth # 0
    <3>1. births + 1 # 0
      BY <1>1
    <3> QED BY <1>3, <1>4, <3>1 DEF Base, Births
  <2>3. \A w, x \in Here' : acct'[w].birth = acct'[x].birth => w = x
    BY <1>3, <1>4, <1>6 DEF Base, Births
  <2> QED BY <2>1, <2>2, <2>3 DEF Births
<1>8. ASSUME NEW j \in Slots
      PROVE  /\ req'[j].birth <= births'
             /\ req'[j].u # None =>
                  \A w \in Here' : acct'[w].birth = req'[j].birth =>
                    w = req'[j].u /\ (req'[j].arg \in Invites => acct'[w].via = req'[j].arg)
  <2>1. CASE j = i
    BY <1>5, <1>6, <2>1
  <2>2. CASE j # i
    <3>1. req'[j] = req[j] /\ req[j].birth <= births
      BY <2>2 DEF Base, Own
    <3>2. req'[j].birth <= births' /\ req'[j].birth # births + 1
      BY <1>2, <1>5, <3>1
    <3> QED BY <1>3, <1>4, <3>1, <3>2 DEF Base, Own
  <2> QED BY <2>1, <2>2
<1>9. Own'
  BY <1>8 DEF Own
<1>10. Claims'
  <2>1. \A j \in Slots \ {i} : req[j].u \in Users \cup {None}
    BY RequestFields DEF Base
  <2> QED BY <2>1 DEF Claims, Base
<1> QED
  BY <1>7, <1>9, <1>10
LEMMA TokenHolder ==
    ASSUME Base, NEW j \in Slots, req[j].pc = "reset"
    PROVE  /\ req[j].u \in Users /\ acct[req[j].u].st = "here"
           /\ acct[req[j].u].birth = req[j].birth
BY DEF Base, Tokens, At, Control, Sane

\* A session nobody touches follows its account, which no step takes from it.
LEMMA OpenedStep ==
    ASSUME Base, [Next]_vars,
           \A w \in Users : acct[w].st = "here" =>
             \/ acct'[w].st = "here"
             \/ \A s \in Sessions : sess[s].u = w => sess'[s] = NoSession
    PROVE  Opened'
<1>1. ASSUME NEW s \in Sessions, sess'[s] # NoSession
      PROVE  sess'[s].u \in Users /\ acct'[sess'[s].u].st = "here"
  <2>1. Closed(s) \/ Kept(s) \/ \E i \in Slots : Renewed(i, s) \/ Issued(i, s)
    BY SessionsStep DEF Base
  <2>2. CASE Kept(s)
    <3>1. s \in Live /\ sess'[s].u = sess[s].u
      BY <1>1, <2>2 DEF Kept, Live
    <3>2. sess[s].u \in Users /\ acct[sess[s].u].st = "here"
      BY <3>1 DEF Base, Opened
    <3> QED BY <1>1, <3>1, <3>2
  <2>3. ASSUME NEW i \in Slots, Renewed(i, s)
        PROVE  sess'[s].u \in Users /\ acct'[sess'[s].u].st = "here"
    <3>1. s \in Live /\ sess'[s].u = sess[s].u
      BY <2>3 DEF Renewed
    <3>2. sess[s].u \in Users /\ acct[sess[s].u].st = "here"
      BY <3>1 DEF Base, Opened
    <3> QED BY <1>1, <3>1, <3>2
  <2>4. ASSUME NEW i \in Slots, Issued(i, s)
        PROVE  sess'[s].u \in Users /\ acct'[sess'[s].u].st = "here"
    <3>1. req[i].u \in Users /\ sess'[s].u = req[i].u /\ acct[req[i].u].st # "none"
          /\ acct' = acct
      BY <2>4 DEF Issued, Here, IssueSession
    <3>2. req[i].op = "login"
      BY <2>4 DEF Issued, IssueSession, At, Base, Control, Sane
    <3>3. acct[req[i].u].st # "placeholder"
      BY <3>1, <3>2, Literals DEF Base, Claims
    <3>4. acct[req[i].u].st = "here"
      BY <3>1, <3>3, AccountFields DEF Base
    <3> QED BY <3>1, <3>4
  <2> QED BY <1>1, <2>1, <2>2, <2>3, <2>4 DEF Closed
<1> QED
  BY <1>1 DEF Opened, Live

LEMMA BaseBirth ==
    ASSUME Base, [Next]_vars, NEW i \in Slots, Setup(i) \/ RegisterCreate(i)
    PROVE  Base'
<1>1. Shapes' /\ Control'
  BY ShapesStep DEF Base
<1>2. Shapes /\ Control
  BY DEF Base
<1>3. PICK u \in Users :
        /\ acct[u].st \in {"none", "placeholder"} /\ acct'[u].st = "here"
        /\ births' = births + 1 /\ acct'[u].birth = births + 1
        /\ \A w \in Users \ {u} : acct'[w] = acct[w]
        /\ \A j \in Slots \ {i} : req'[j] = req[j]
        /\ req'[i].u = u /\ req'[i].birth = births + 1 /\ req'[i].pc # "reset"
        /\ req'[i].arg \in Invites => acct'[u].via = req'[i].arg
  <2>1. CASE Setup(i)
    <3>1. PICK r : Turns(i, r) /\ Asks(r, "login", "issue", 1, births + 1, First)
      BY <1>2, <2>1, SetupAsks
    <3>2. /\ acct[1].st = "placeholder" /\ acct'[1].st = "here" /\ births' = births + 1
          /\ acct'[1].birth = births + 1 /\ \A w \in Users \ {1} : acct'[w] = acct[w]
      BY <1>2, <2>1, SetupSets
    <3> QED BY <3>1, <3>2, Literals DEF Turns, Alone, Asks
  <2>2. CASE RegisterCreate(i)
    <3>1. PICK r : /\ Turns(i, r)
                   /\ IF req[i].arg = "none"
                        THEN Asks(r, "login", "issue", NextUser, births + 1, First)
                        ELSE Asks(r, req[i].op, "consume", NextUser, births + 1, req[i].arg)
      BY <1>2, <2>2, CreateAsks
    <3>2. PICK u : u = NextUser
      OBVIOUS
    <3>3. /\ u \in Users /\ u \notin Here /\ acct'[u].st = "here" /\ births' = births + 1
          /\ acct'[u].birth = births + 1 /\ \A w \in Users \ {u} : acct'[w] = acct[w]
          /\ acct'[u].via = req[i].arg
      BY <1>2, <2>2, <3>2, CreateSets
    <3>4. req'[i].u = u /\ req'[i].birth = births + 1 /\ req'[i].pc # "reset"
          /\ (req'[i].arg \in Invites => req'[i].arg = req[i].arg)
      BY <3>1, <3>2, Literals DEF Turns, Asks
    <3>5. \A j \in Slots \ {i} : req'[j] = req[j]
      BY <3>1 DEF Turns, Alone
    <3> QED BY <3>3, <3>4, <3>5 DEF Here
  <2> QED BY <2>1, <2>2
<1>4. Births' /\ Own' /\ Claims'
  BY <1>3, BirthStep
<1>5. \A w \in Users : acct[w].st = "here" => acct'[w] = acct[w]
  BY <1>3
<1>6. Opened'
  BY <1>5, OpenedStep
<1>7. Tokens'
  <2>1. ASSUME NEW j \in Slots, req'[j].pc = "reset"
        PROVE  acct'[req'[j].u].st = "here" /\ acct'[req'[j].u].birth = req'[j].birth
    <3>1. req'[j] = req[j]
      BY <1>3, <2>1
    <3> QED BY <1>5, <2>1, <3>1, TokenHolder
  <2> QED BY <2>1 DEF Tokens, At
<1> QED
  BY <1>1, <1>4, <1>6, <1>7 DEF Base

LEMMA BaseRemove ==
    ASSUME Base, [Next]_vars, NEW i \in Slots, Remove(i)
    PROVE  Opened' /\ Tokens'
<1>1. Shapes /\ Control /\ req[i].u \in Users
  BY DEF Base, Remove, At, Control, Sane
<1>2. /\ acct'[req[i].u] = NoAccount /\ \A w \in Users \ {req[i].u} : acct'[w] = acct[w]
  BY <1>1, RemoveSets
<1>3. Opened'
  <2>1. sess' = Without({req[i].u})
    BY DEF Remove
  <2>2. \A s \in Sessions : sess[s].u = req[i].u => sess'[s] = NoSession
    BY <1>1, <2>1, WithoutKeeps
  <2> QED BY <1>2, <2>2, OpenedStep
<1>4. Tokens'
  <2>1. req' = [Spent(req[i].u) EXCEPT ![i] = NoRequest]
    BY DEF Remove
  <2>2. /\ req'[i] = NoRequest
        /\ \A j \in Slots \ {i} :
             /\ req'[j].u = req[j].u /\ req'[j].birth = req[j].birth
             /\ IF At(j, "reset") /\ req[j].u = req[i].u THEN req'[j].pc = "spent"
                                                        ELSE req'[j].pc = req[j].pc
    BY <1>1, <2>1, Spends
  <2>3. ASSUME NEW j \in Slots, req'[j].pc = "reset"
        PROVE  acct'[req'[j].u].st = "here" /\ acct'[req'[j].u].birth = req'[j].birth
    <3>1. j # i
      BY <2>2, <2>3 DEF NoRequest
    <3>2. req[j].pc = "reset" /\ req[j].u # req[i].u
          /\ req'[j].u = req[j].u /\ req'[j].birth = req[j].birth
      BY <2>2, <2>3, <3>1 DEF At
    <3> QED BY <1>2, <3>2, TokenHolder
  <2> QED BY <2>3 DEF Tokens, At
<1> QED
  BY <1>3, <1>4

LEMMA BaseStep ==
    ASSUME Base, [Next]_vars
    PROVE  Base'
<1>1. Shapes' /\ Control'
  BY ShapesStep DEF Base
<1>2. ASSUME NEW i \in Slots, Setup(i) \/ RegisterCreate(i) PROVE Base'
  BY <1>2, BaseBirth
<1>3. ASSUME \A i \in Slots : ~ Setup(i) /\ ~ RegisterCreate(i) PROVE Base'
  <2>1. Older /\ \A j \in Slots : Made(j)
    BY <1>3, OlderStep, MadeStep DEF Base
  <2>2. Births' /\ Own' /\ Claims'
    BY <1>1, <2>1, QuietStep
  <2>3. ASSUME NEW i \in Slots, Remove(i) PROVE Opened' /\ Tokens'
    BY <2>3, BaseRemove
  <2>4. ASSUME \A i \in Slots : ~ Remove(i) PROVE Opened' /\ Tokens'
    <3>1. \A w \in Users : Same(w)
      BY <1>3, <2>4, SameOrRemoved DEF Base
    <3>2. Opened'
      BY <3>1, OpenedStep DEF Same
    <3>3. ASSUME NEW j \in Slots, req'[j].pc = "reset"
          PROVE  acct'[req'[j].u].st = "here" /\ acct'[req'[j].u].birth = req'[j].birth
      <4>1. ~ Blank(j)
        BY <3>3 DEF Blank
      <4>2. CASE Fresh(j)
        <5>1. req'[j].op = "reset" /\ req'[j].u \in Users
          BY <1>1, <3>3, <4>2 DEF Control, Sane, Fresh, Here
        <5> QED BY <3>1, <4>2, <5>1 DEF Fresh, Same
      <4>3. CASE Moved(j)
        <5>1. req[j].pc = "reset" /\ req'[j].u = req[j].u /\ req'[j].birth = req[j].birth
          BY <3>3, <4>3 DEF Moved
        <5> QED BY <3>1, <5>1, TokenHolder DEF Same
      <4> QED BY <2>1, <4>1, <4>2, <4>3 DEF Made
    <3>4. Tokens'
      BY <3>3 DEF Tokens, At
    <3> QED BY <3>2, <3>4
  <2> QED BY <1>1, <2>2, <2>3, <2>4 DEF Base
<1> QED
  BY <1>2, <1>3
-----------------------------------------------------------------------------
(* An owner remains. *)

\* While no two guarded removals overlap, one request at most is past its role
\* read, and when it has the count behind it there is an owner besides its own.
Guard ==
    ~ overlap =>
      /\ Owners # {}
      /\ \A i, j \in Passed : i = j
      /\ \A i \in Passed : At(i, "write") => \E w \in Owners : w # req[i].u

\* Request j was already past its role read, at the same statement.
Waits(j) ==
    req'[j].op \in Guarded /\ req'[j].pc \in {"count", "write"} =>
      req[j].op = req'[j].op /\ req[j].pc = req'[j].pc /\ req[j].u = req'[j].u

LEMMA WaitsTurns ==
    ASSUME NEW i \in Slots, NEW r, Turns(i, r),
           r.op \notin Guarded \/ r.pc \notin {"count", "write"}
    PROVE  \A j \in Slots : Waits(j)
BY DEF Turns, Alone, Waits

LEMMA WaitsFinishes ==
    ASSUME Shapes, NEW i \in Slots, Finish(i)
    PROVE  \A j \in Slots : Waits(j)
<1>1. Turns(i, NoRequest) /\ NoRequest.pc \notin {"count", "write"}
  BY Finishes DEF NoRequest
<1> QED
  BY <1>1, WaitsTurns

LEMMA WaitsSpends ==
    ASSUME Shapes, NEW i \in Slots, NEW u, req' = [Spent(u) EXCEPT ![i] = NoRequest]
    PROVE  \A j \in Slots : Waits(j)
<1>1. Waits(i)
  <2>1. req'[i] = NoRequest
    BY Spends
  <2> QED BY <2>1 DEF Waits, NoRequest
<1>2. ASSUME NEW j \in Slots \ {i} PROVE Waits(j)
  <2>1. /\ req'[j].op = req[j].op /\ req'[j].u = req[j].u
        /\ req'[j].pc = "spent" \/ req'[j].pc = req[j].pc
    BY Spends
  <2> QED BY <2>1 DEF Waits
<1> QED
  BY <1>1, <1>2

LEMMA WaitsStarts ==
    ASSUME Shapes, NEW i \in Slots, Starts(i)
    PROVE  \A j \in Slots : Waits(j)
<1> DEFINE Before == \E r : Turns(i, r) /\ (r.op \notin Guarded \/ r.pc \notin {"count", "write"})
<1>1. Before
  <2>1. ASSUME NEW v \in Invites \cup {"none"}, RegisterCheck(i, v) PROVE Before
    BY <2>1, RegisterAsks DEF Asks
  <2>2. ASSUME NEW a \in Users, NEW u \in Users, AdminStart(i, a, u) PROVE Before
    <3>1. PICK r, what :
            /\ Turns(i, r) /\ what \in {"remove", "lock", "unlock", "owner", "admin", "user"}
            /\ Asks(r, what, IF what \in {"unlock", "owner"} THEN "write" ELSE "role",
                    u, acct[u].birth, "none")
      BY <2>2, AdminAsks
    <3> QED BY <3>1 DEF Asks, Guarded
  <2>3. ASSUME NEW u \in Users, DeleteMe(i, u) \/ Login(i, u) \/ ResetStart(i, u) PROVE Before
    BY <2>3, DeleteAsks, LoginAsks, ResetAsks DEF Asks
  <2>4. ASSUME NEW u \in Users, NEW s \in Sessions \cup {None}, ChangeStart(i, u, s) PROVE Before
    BY <2>4, ChangeAsks DEF Asks
  <2> HIDE DEF Before
  <2> QED BY <2>1, <2>2, <2>3, <2>4 DEF Starts
<1> QED
  BY <1>1, WaitsTurns

LEMMA WaitsStep ==
    ASSUME Shapes, Control, [Next]_vars, \A i \in Slots : ~ ReadRole(i) /\ ~ CountOwners(i)
    PROVE  \A j \in Slots : Waits(j)
<1> DEFINE All == \A j \in Slots : Waits(j)
<1>1. ASSUME UNCHANGED req PROVE All
  BY <1>1 DEF Waits
<1>2. ASSUME NEW i \in Slots, Starts(i) PROVE All
  BY <1>2, WaitsStarts
<1>3. ASSUME NEW i \in Slots, Goes(i) PROVE All
  <2>1. CASE \/ RegisterConflict(i) \/ SetRole(i) \/ LockEvicts(i) \/ IssueSession(i)
             \/ ChangeSweep(i) \/ ResetRefused(i) \/ Drop(i)
    <3>1. Finish(i)
      BY <2>1 DEF RegisterConflict, SetRole, LockEvicts, IssueSession, ChangeSweep,
                  ResetRefused, Drop
    <3> QED BY <3>1, WaitsFinishes
  <2>2. CASE SetLocked(i) \/ NeedsRehash(i) \/ Rehash(i) \/ ChangeSet(i)
    <3>1. Finish(i) \/ \E pc \in Pcs \ {"count", "write"} : Goto(i, pc)
      BY <2>2 DEF SetLocked, NeedsRehash, Rehash, ChangeSet, Pcs
    <3>2. ASSUME NEW pc \in Pcs \ {"count", "write"}, Goto(i, pc) PROVE All
      <4>1. PICK r : Turns(i, r) /\ Asks(r, req[i].op, pc, req[i].u, req[i].birth, req[i].arg)
        BY <3>2, GoesOn
      <4> QED BY <4>1, WaitsTurns DEF Asks
    <3> QED BY <3>1, <3>2, WaitsFinishes
  <2>3. CASE Remove(i) \/ Reset(i)
    <3>1. req' = [Spent(req[i].u) EXCEPT ![i] = NoRequest]
      BY <2>3 DEF Remove, Reset
    <3> QED BY <3>1, WaitsSpends
  <2>4. CASE Setup(i) \/ RegisterCreate(i) \/ RegisterConsume(i) \/ RegisterUndo(i)
    <3>1. \E r : Turns(i, r) /\ r.pc \in {"issue", "consume", "role"}
      BY <2>4, SetupAsks, CreateAsks, ConsumeAsks, UndoAsks DEF Asks
    <3> QED BY <3>1, WaitsTurns
  <2> HIDE DEF All
  <2> QED BY <1>3, <2>1, <2>2, <2>3, <2>4 DEF Goes
<1>4. ASSUME \/ \E s \in Sessions : SessionEnds(s)
             \/ \E v \in Invites : InviteEnds(v) \/ \E u \in Users : CreateInvite(v, u)
             \/ UNCHANGED vars
      PROVE  All
  <2>1. UNCHANGED req
    BY <1>4 DEF SessionEnds, InviteEnds, CreateInvite, vars
  <2> QED BY <1>1, <2>1
<1> HIDE DEF All
<1>5. All
  BY <1>2, <1>3, <1>4, Steps
<1> QED
  BY <1>5 DEF All

\* Only a removal and a demotion take an owner.
LEMMA OwnersStep ==
    ASSUME Base, [Next]_vars,
           \A i \in Slots : ~ Remove(i) /\ (SetRole(i) => req[i].op = "owner")
    PROVE  Owners \subseteq Owners'
<1> DEFINE Stay == \A w \in Users : acct[w].st # "none" /\ acct[w].role = "owner"
                                      => acct'[w].st # "none" /\ acct'[w].role = "owner"
<1>1. ASSUME Tame PROVE Stay
  BY <1>1 DEF Tame, Same
<1>2. ASSUME NEW i \in Slots, Setup(i) PROVE Stay
  BY <1>2, SetupSets DEF Base
<1>3. ASSUME NEW i \in Slots, RegisterCreate(i) PROVE Stay
  <2>1. \A w \in Users \ {NextUser} : acct'[w] = acct[w]
    BY <1>3, CreateSets DEF Base
  <2>2. NextUser \notin Here
    BY <1>3, CreateSets DEF Base
  <2> QED BY <2>1, <2>2 DEF Here
<1>4. ASSUME NEW i \in Slots, RegisterConsume(i) PROVE Stay
  BY <1>4, GrantsStay DEF Base, Same
<1>5. ASSUME NEW i \in Slots, SetRole(i) PROVE Stay
  <2>1. \A w \in Users : Same(w) /\ (w # req[i].u => acct'[w].role = acct[w].role)
    BY <1>5, RolesStay DEF Base
  <2>2. req[i].u \in Here => acct'[req[i].u].role = "owner"
    <3>1. req[i].u \in Here => req[i].u \in Users
      BY DEF Here
    <3>2. req[i].u \in Here => acct' = [acct EXCEPT ![req[i].u].role = "owner"]
      BY <1>5 DEF SetRole
    <3>3. "owner" \in Roles
      BY DEF Roles
    <3> QED BY <3>1, <3>2, <3>3, RoleSet DEF Base
  <2> QED BY <2>1, <2>2 DEF Same, Here
<1>6. ASSUME NEW v \in Invites, InviteEnds(v) \/ \E u \in Users : CreateInvite(v, u) PROVE Stay
  BY <1>6 DEF InviteEnds, CreateInvite
<1> HIDE DEF Stay
<1>7. Stay
  BY <1>1, <1>2, <1>3, <1>4, <1>5, <1>6, Kinds DEF Base
<1> QED
  BY <1>7 DEF Stay, Owners, Here

LEMMA AnotherOwner ==
    ASSUME Enough, NEW u \in Users
    PROVE  \E w \in Owners : w # u
<1>1. IsFiniteSet({u}) /\ Cardinality({u}) = 1
  BY FS_Singleton
<1> SUFFICES ASSUME Owners \subseteq {u} PROVE FALSE
  OBVIOUS
<1>2. Cardinality(Owners) <= Cardinality({u}) /\ IsFiniteSet(Owners)
  BY <1>1, FS_Subset
<1>3. Cardinality(Owners) \in Nat
  BY <1>2, FS_CardinalityType
<1> QED
  BY <1>1, <1>2, <1>3 DEF Enough
LEMMA OverlapStays ==
    ASSUME [Next]_vars, \A i \in Slots : ~ ReadRole(i)
    PROVE  overlap' = overlap
<1>1. ASSUME NEW i \in Slots, Starts(i) PROVE overlap' = overlap
  BY <1>1, StartsQuiet
<1>2. ASSUME NEW i \in Slots, Goes(i), ~ ReadRole(i) PROVE overlap' = overlap
  BY <1>2 DEF Goes, Setup, RegisterCreate, RegisterConflict, RegisterConsume, RegisterUndo,
              CountOwners, Remove, SetRole, SetLocked, LockEvicts, NeedsRehash, Rehash,
              IssueSession, ChangeSet, ChangeSweep, Reset, ResetRefused, Drop
<1>3. ASSUME \/ \E s \in Sessions : SessionEnds(s)
             \/ \E v \in Invites : InviteEnds(v) \/ \E u \in Users : CreateInvite(v, u)
             \/ UNCHANGED vars
      PROVE  overlap' = overlap
  BY <1>3 DEF SessionEnds, InviteEnds, CreateInvite, vars
<1> QED
  BY <1>1, <1>2, <1>3, Steps

\* The request that removes or demotes an owner was the only one past its guard.
LEMMA GuardedWrite ==
    ASSUME Base, Guard, ~ overlap, NEW i \in Slots, Remove(i) \/ (SetRole(i) /\ req[i].op # "owner")
    PROVE  /\ \A j \in Slots : Waits(j) => j \notin Passed'
           /\ \E w \in Owners' : TRUE
<1>1. i \in Passed /\ At(i, "write") /\ Passed = {i}
  <2>1. req[i].pc = "write" /\ req[i].op \in Guarded
    BY DEF Remove, SetRole, Guarded, At
  <2>2. i \in Passed /\ \A j \in Passed : j = i
    BY <2>1 DEF Passed, Guard
  <2> QED BY <2>1, <2>2 DEF At
<1>2. PICK w \in Owners : w # req[i].u
  BY <1>1 DEF Guard
<1>3. w \in Users /\ acct[w].st # "none" /\ acct[w].role = "owner"
  BY DEF Owners, Here
<1>4. acct'[w].st # "none" /\ acct'[w].role = "owner"
  <2>1. CASE Remove(i)
    BY <1>2, <1>3, <2>1, RemoveSets DEF Base
  <2>2. CASE SetRole(i)
    BY <1>2, <1>3, <2>2, RolesStay DEF Base, Same
  <2> QED BY <2>1, <2>2
<1>5. w \in Owners'
  BY <1>3, <1>4 DEF Owners, Here
<1>6. req'[i].pc # "write"  /\ req'[i].pc # "count"
  <2>1. CASE Remove(i)
    <3>1. req' = [Spent(req[i].u) EXCEPT ![i] = NoRequest]
      BY <2>1 DEF Remove
    <3>2. req'[i] = NoRequest
      BY <3>1, Spends DEF Base
    <3> QED BY <3>2 DEF NoRequest
  <2>2. CASE SetRole(i)
    <3>1. req'[i] = NoRequest
      BY <2>2, Finishes DEF Base, SetRole, Turns
    <3> QED BY <3>1 DEF NoRequest
  <2> QED BY <2>1, <2>2
<1>7. ASSUME NEW j \in Slots, Waits(j), j \in Passed' PROVE FALSE
  <2>1. j # i
    BY <1>6, <1>7 DEF Passed
  <2>2. j \in Passed
    BY <1>7 DEF Passed, Waits
  <2> QED BY <1>1, <2>1, <2>2
<1> QED
  BY <1>5, <1>7

\* Who read a role has no other request past its guard, and either finds no
\* owner there or goes on to count them.
LEMMA GuardRead ==
    ASSUME Base, Guard, NEW i \in Slots, ReadRole(i), ~ overlap'
    PROVE  /\ Owners' # {}
           /\ \A j, k \in Passed' : j = k
           /\ \A j \in Passed' : req'[j].pc = "write" => \E w \in Owners' : w # req'[j].u
<1>1. Owners' = Owners
  BY DEF ReadRole, Owners, Here
<1>2. ~ overlap /\ (req[i].op \in Guarded => Passed = {})
  BY DEF ReadRole
<1>3. Owners # {} /\ (\A j, k \in Passed : j = k)
      /\ \A j \in Passed : req[j].pc = "write" => \E w \in Owners : w # req[j].u
  BY <1>2 DEF Guard, At
<1>4. Alone(i) /\ ( \/ req'[i].pc = "idle"
                    \/ req'[i].pc = "count" /\ req'[i].op = req[i].op
                    \/ /\ req'[i].pc = "write" /\ req'[i].op = req[i].op
                       /\ req'[i].u = req[i].u /\ req[i].u \notin Owners )
  <2>1. CASE Finish(i)
    BY <2>1, Finishes DEF Base, Turns, NoRequest
  <2>2. CASE Goto(i, "count")
    <3>1. "count" \in Pcs
      BY DEF Pcs
    <3>2. PICK r : Turns(i, r) /\ Asks(r, req[i].op, "count", req[i].u, req[i].birth, req[i].arg)
      BY <2>2, <3>1, GoesOn DEF Base
    <3> QED BY <3>2 DEF Turns, Asks
  <2>3. CASE Goto(i, "write") /\ req[i].u \notin Owners
    <3>1. "write" \in Pcs
      BY DEF Pcs
    <3>2. PICK r : Turns(i, r) /\ Asks(r, req[i].op, "write", req[i].u, req[i].birth, req[i].arg)
      BY <2>3, <3>1, GoesOn DEF Base
    <3> QED BY <2>3, <3>2 DEF Turns, Asks
  <2> QED BY <2>1, <2>2, <2>3 DEF ReadRole
<1>5. \A j \in Slots \ {i} : j \in Passed' => j \in Passed /\ req'[j] = req[j]
  BY <1>4 DEF Alone, Passed
<1>6. CASE i \in Passed'
  <2>1. req[i].op \in Guarded
    BY <1>4, <1>6 DEF Passed
  <2>2. Passed' \subseteq {i}
    BY <1>2, <1>5, <2>1 DEF Passed
  <2>3. req'[i].pc = "write" => req'[i].u \notin Owners
    BY <1>4
  <2> QED BY <1>1, <1>3, <2>2, <2>3
<1>7. CASE i \notin Passed'
  <2>1. \A j \in Passed' : j \in Passed /\ req'[j] = req[j]
    BY <1>5, <1>7 DEF Passed
  <2> QED BY <1>1, <1>3, <2>1
<1> QED
  BY <1>6, <1>7

LEMMA GuardCount ==
    ASSUME Base, Guard, NEW i \in Slots, CountOwners(i), ~ overlap
    PROVE  /\ Owners' # {}
           /\ \A j, k \in Passed' : j = k
           /\ \A j \in Passed' : req'[j].pc = "write" => \E w \in Owners' : w # req'[j].u
<1>1. Owners' = Owners
  BY DEF CountOwners, Owners, Here
<1>2. Owners # {} /\ (\A j, k \in Passed : j = k)
      /\ \A j \in Passed : req[j].pc = "write" => \E w \in Owners : w # req[j].u
  BY DEF Guard, At
<1>3. req[i].pc = "count" /\ i \in Passed /\ req[i].u \in Users
  BY DEF CountOwners, At, Passed, Guarded, Base, Control, Sane
<1>4. Alone(i) /\ ( \/ req'[i].pc = "idle"
                    \/ req'[i].u = req[i].u /\ Enough )
  <2>1. CASE Finish(i)
    BY <2>1, Finishes DEF Base, Turns, NoRequest
  <2>2. CASE Goto(i, "write") /\ Enough
    <3>1. "write" \in Pcs
      BY DEF Pcs
    <3>2. PICK r : Turns(i, r) /\ Asks(r, req[i].op, "write", req[i].u, req[i].birth, req[i].arg)
      BY <2>2, <3>1, GoesOn DEF Base
    <3> QED BY <2>2, <3>2 DEF Turns, Asks
  <2> QED BY <2>1, <2>2 DEF CountOwners
<1>5. Passed' \subseteq {i}
  BY <1>2, <1>3, <1>4 DEF Alone, Passed
<1>6. i \in Passed' => \E w \in Owners : w # req'[i].u
  BY <1>3, <1>4, AnotherOwner DEF Passed
<1> QED
  BY <1>1, <1>2, <1>5, <1>6

LEMMA GuardStep ==
    ASSUME Base, Guard, [Next]_vars
    PROVE  Guard'
<1> DEFINE Sole == /\ Owners' # {}
                   /\ \A j, k \in Passed' : j = k
                   /\ \A j \in Passed' : req'[j].pc = "write" => \E w \in Owners' : w # req'[j].u
<1> SUFFICES ASSUME ~ overlap' PROVE Sole
  BY DEF Guard, At
<1>1. ASSUME NEW i \in Slots, ReadRole(i) PROVE Sole
  BY <1>1, GuardRead
<1>2. ASSUME \A i \in Slots : ~ ReadRole(i) PROVE Sole
  <2>1. ~ overlap
    BY <1>2, OverlapStays
  <2>2. ASSUME NEW i \in Slots, CountOwners(i) PROVE Sole
    BY <2>1, <2>2, GuardCount
  <2>3. ASSUME \A i \in Slots : ~ CountOwners(i) PROVE Sole
    <3>1. \A j \in Slots : Waits(j)
      BY <1>2, <2>3, WaitsStep DEF Base
    <3>2. ASSUME NEW i \in Slots, Remove(i) \/ (SetRole(i) /\ req[i].op # "owner") PROVE Sole
      <4>1. Passed' = {}
        BY <2>1, <3>1, <3>2, GuardedWrite DEF Passed
      <4>2. Owners' # {}
        BY <2>1, <3>2, GuardedWrite
      <4> QED BY <4>1, <4>2
    <3>3. ASSUME \A i \in Slots : ~ Remove(i) /\ (SetRole(i) => req[i].op = "owner") PROVE Sole
      <4>1. Owners \subseteq Owners'
        BY <3>3, OwnersStep
      <4>2. Owners # {} /\ (\A j, k \in Passed : j = k)
            /\ \A j \in Passed : req[j].pc = "write" => \E w \in Owners : w # req[j].u
        BY <2>1 DEF Guard, At
      <4>3. \A j \in Passed' : j \in Passed /\ req'[j].pc = req[j].pc /\ req'[j].u = req[j].u
        BY <3>1 DEF Waits, Passed
      <4> QED BY <4>1, <4>2, <4>3
    <3> QED BY <3>2, <3>3
  <2> QED BY <2>2, <2>3
<1> QED
  BY <1>1, <1>2

-----------------------------------------------------------------------------
(* The grants of an invite. *)

\* Who holds the grants of an invite is the account that consumed it.
Grants ==
    \A v \in Invites :
      /\ \A u \in Here : v \in acct[u].granted <=> invite[v].by = u
      /\ invite[v].by \in Here \cup {None}
      /\ invite[v].st = "none" => invite[v].by = None

LEMMA GrantsStep ==
    ASSUME Base, Grants, [Next]_vars
    PROVE  Grants'
<1> DEFINE Row(v) == /\ \A u \in Here' : v \in acct'[u].granted <=> invite'[v].by = u
                     /\ invite'[v].by \in Here' \cup {None}
                     /\ invite'[v].st = "none" => invite'[v].by = None
           Rows == \A v \in Invites : Row(v)
<1>0. /\ Shapes /\ Control /\ None \notin Users /\ Here \subseteq Users /\ Here' \subseteq Users
  BY Literals DEF Base, Here
<1>1. ASSUME Tame PROVE Rows
  <2>1. Here' = Here /\ invite' = invite /\ \A u \in Users : acct'[u].granted = acct[u].granted
    BY <1>1 DEF Tame, Same, Here
  <2> QED BY <1>0, <2>1 DEF Grants
<1>2. ASSUME NEW i \in Slots, Setup(i) PROVE Rows
  <2>1. \A u \in Users : /\ acct'[u].granted = acct[u].granted
                         /\ acct'[u].st = "none" <=> acct[u].st = "none"
    BY <1>0, <1>2, SetupSets
  <2>2. Here' = Here /\ invite' = invite
    BY <1>2, <2>1 DEF Here, Setup
  <2> QED BY <1>0, <2>1, <2>2 DEF Grants
<1>3. ASSUME NEW i \in Slots, RegisterCreate(i) PROVE Rows
  <2>1. PICK n : n = NextUser
    OBVIOUS
  <2>2. /\ n \in Users /\ n \notin Here /\ acct'[n].st = "here" /\ acct'[n].granted = {}
        /\ \A w \in Users \ {n} : acct'[w] = acct[w]
    BY <1>0, <1>3, <2>1, CreateSets
  <2>3. Here' = Here \cup {n}
    BY <2>2 DEF Here
  <2>4. invite' = invite
    BY <1>3 DEF RegisterCreate
  <2> QED BY <1>0, <2>2, <2>3, <2>4 DEF Grants
<1>4. ASSUME NEW i \in Slots, RegisterConsume(i) PROVE Rows
  <2>1. /\ req[i].u \in Here /\ req[i].arg \in Invites /\ invite[req[i].arg].by = None
        /\ invite'[req[i].arg].by = req[i].u /\ invite'[req[i].arg].st = "open"
        /\ \A v \in Invites \ {req[i].arg} : invite'[v] = invite[v]
    BY <1>0, <1>4, ConsumeInvite
  <2>2. \A w \in Users : Same(w) /\ acct'[w].granted = IF w = req[i].u
                                      THEN acct[w].granted \cup {req[i].arg} ELSE acct[w].granted
    BY <1>0, <1>4, GrantsStay
  <2>3. Here' = Here
    <3>1. \A w \in Users : acct'[w].st = acct[w].st
      BY <2>2 DEF Same
    <3> QED BY <3>1 DEF Here
  <2>4. Row(req[i].arg)
    <3>1. \A u \in Here : req[i].arg \notin acct[u].granted
      BY <1>0, <2>1 DEF Grants
    <3>2. \A u \in Here : req[i].arg \in acct'[u].granted <=> u = req[i].u
      BY <1>0, <2>2, <3>1
    <3> QED BY <2>1, <2>3, <3>2
  <2>5. ASSUME NEW v \in Invites, v # req[i].arg PROVE Row(v)
    <3>1. \A u \in Here : v \in acct'[u].granted <=> v \in acct[u].granted
      BY <1>0, <2>2, <2>5
    <3>2. invite'[v] = invite[v]
      BY <2>1, <2>5
    <3> QED BY <2>3, <3>1, <3>2 DEF Grants
  <2> HIDE DEF Row
  <2> QED BY <2>4, <2>5
<1>5. ASSUME NEW i \in Slots, Remove(i) PROVE Rows
  <2>1. req[i].u \in Users
    BY <1>5 DEF Remove, At, Base, Control, Sane
  <2>2. acct'[req[i].u] = NoAccount /\ NoAccount.st = "none"
        /\ \A w \in Users \ {req[i].u} : acct'[w] = acct[w]
    BY <1>0, <1>5, <2>1, RemoveSets DEF NoAccount
  <2>3. Here' = Here \ {req[i].u}
    BY <2>2 DEF Here
  <2>4. \A v \in Invites :
          /\ invite'[v].by = IF invite[v].by = req[i].u THEN None ELSE invite[v].by
          /\ invite'[v].st = invite[v].st \/ invite'[v].st = "gone"
    BY <1>0, <1>5, RemoveInvites
  <2> QED BY <1>0, <2>1, <2>2, <2>3, <2>4 DEF Grants
<1>6. ASSUME NEW i \in Slots, SetRole(i) PROVE Rows
  <2>1. \A w \in Users : Same(w) /\ acct'[w].granted = acct[w].granted
    BY <1>0, <1>6, RolesStay
  <2>2. Here' = Here /\ invite' = invite
    BY <1>6, <2>1 DEF Here, Same, SetRole
  <2> QED BY <1>0, <2>1, <2>2 DEF Grants
<1>7. ASSUME NEW v \in Invites, InviteEnds(v) PROVE Rows
  <2>1. /\ invite'[v].by = invite[v].by /\ invite'[v].st = "gone"
        /\ \A x \in Invites \ {v} : invite'[x] = invite[x]
    BY <1>0, <1>7, InviteEndsSets
  <2>2. Here' = Here /\ acct' = acct
    BY <1>7 DEF InviteEnds, Here
  <2> QED BY <1>0, <2>1, <2>2 DEF Grants
<1>8. ASSUME NEW v \in Invites, NEW u \in Users, CreateInvite(v, u) PROVE Rows
  <2>1. /\ invite[v].st = "none" /\ invite'[v].by = None /\ invite'[v].st = "open"
        /\ \A x \in Invites \ {v} : invite'[x] = invite[x]
    BY <1>0, <1>8, CreateInviteSets
  <2>2. Here' = Here /\ acct' = acct
    BY <1>8 DEF CreateInvite, Here
  <2> QED BY <1>0, <2>1, <2>2 DEF Grants
<1> HIDE DEF Rows
<1>9. Rows
  BY <1>0, <1>1, <1>2, <1>3, <1>4, <1>5, <1>6, <1>7, <1>8, Kinds
<1> QED
  BY <1>9 DEF Rows, Grants
-----------------------------------------------------------------------------
(* An invite makes one account. *)

\* The registration of account u is on its way to its invite, or is undone.
On(j, u) == req[j].birth = acct[u].birth /\ req[j].arg \in Invites /\ req[j].u # None

Redeems ==
    \A u \in Here : acct[u].via \in Invites =>
      \/ acct[u].via \in acct[u].granted
      \/ \E j \in Slots : On(j, u)
      \/ \E what \in {"orphan", "alias"} : <<acct[u].birth, what>> \in odd

\* A registration that made its account goes on until it consumes its invite,
\* removes the account or is cut short, and then the account's story says so.
Carries(j) ==
    req[j].arg \in Invites /\ req[j].u # None =>
      \/ /\ req'[j].birth = req[j].birth /\ req'[j].arg = req[j].arg
         /\ req'[j].u = req[j].u
      \/ RegisterConsume(j) \/ Remove(j)
      \/ req[j].birth # 0 => <<req[j].birth, "orphan">> \in odd'

LEMMA CarriesTurns ==
    ASSUME NEW i \in Slots, NEW r, Turns(i, r), Carries(i)
    PROVE  \A j \in Slots : Carries(j)
BY DEF Turns, Alone, Carries

LEMMA CarriesOther ==
    ASSUME NEW i \in Slots, NEW r, Turns(i, r), req[i].arg \notin Invites \/ req[i].u = None
    PROVE  \A j \in Slots : Carries(j)
BY CarriesTurns DEF Carries

LEMMA CarriesSpends ==
    ASSUME Shapes, NEW i \in Slots, NEW u, req' = [Spent(u) EXCEPT ![i] = NoRequest],
           Remove(i) \/ req[i].arg \notin Invites
    PROVE  \A j \in Slots : Carries(j)
<1>1. ASSUME NEW j \in Slots \ {i} PROVE Carries(j)
  <2>1. req'[j].u = req[j].u /\ req'[j].birth = req[j].birth /\ req'[j].arg = req[j].arg
    BY Spends
  <2> QED BY <2>1 DEF Carries
<1>2. Carries(i)
  BY DEF Carries
<1> QED
  BY <1>1, <1>2

LEMMA CarriesStarts ==
    ASSUME Shapes, Control, [Next]_vars, NEW i \in Slots, Starts(i)
    PROVE  \A j \in Slots : Carries(j)
<1>1. req[i].op = "idle"
  BY DEF Starts, RegisterCheck, AdminStart, DeleteMe, Login, ResetStart, ChangeStart, Begin
<1>2. req[i].u = None
  BY <1>1 DEF Control, Sane
<1>3. \E r : Turns(i, r)
  <2>1. PICK r : req' = [req EXCEPT ![i] = r]
    BY DEF Starts, RegisterCheck, AdminStart, DeleteMe, Login, ResetStart, ChangeStart, Begin
  <2>2. req' \in [Slots -> Request]
    BY ControlStep
  <2> QED BY <2>1, <2>2 DEF Shapes, Turns, Alone
<1> QED
  BY <1>2, <1>3, CarriesOther

LEMMA CarriesStep ==
    ASSUME Shapes, Control, [Next]_vars
    PROVE  \A j \in Slots : Carries(j)
<1> DEFINE All == \A j \in Slots : Carries(j)
<1>1. ASSUME UNCHANGED req PROVE All
  BY <1>1 DEF Carries
<1>2. ASSUME NEW i \in Slots, Starts(i) PROVE All
  BY <1>2, CarriesStarts
<1>3. ASSUME NEW i \in Slots, Finish(i), Carries(i) PROVE All
  BY <1>3, Finishes, CarriesTurns
<1>4. ASSUME NEW i \in Slots, NEW pc \in Pcs, Goto(i, pc) PROVE All
  <2>1. PICK r : Turns(i, r) /\ Asks(r, req[i].op, pc, req[i].u, req[i].birth, req[i].arg)
    BY <1>4, GoesOn
  <2>2. Carries(i)
    BY <2>1 DEF Turns, Asks, Carries
  <2> QED BY <2>1, <2>2, CarriesTurns
<1>5. ASSUME NEW i \in Slots, Orphans(i) PROVE Carries(i)
  BY <1>5 DEF Orphans, Carries
<1>6. ASSUME NEW i \in Slots, Goes(i) PROVE All
  <2>1. CASE \/ RegisterConflict(i) \/ SetRole(i) \/ LockEvicts(i) \/ IssueSession(i)
             \/ ChangeSweep(i) \/ ResetRefused(i) \/ SetLocked(i)
    <3>1. req[i].arg \notin Invites \/ req[i].u = None
      <4>1. Sane(req[i])
        BY DEF Control
      <4> QED BY <2>1, <4>1 DEF RegisterConflict, SetRole, LockEvicts, IssueSession, ChangeSweep,
                                ResetRefused, SetLocked, At, Sane
    <3>2. Carries(i)
      BY <3>1 DEF Carries
    <3>3. "evict" \in Pcs
      BY DEF Pcs
    <3>4. Finish(i) \/ Goto(i, "evict")
      BY <2>1 DEF RegisterConflict, SetRole, LockEvicts, IssueSession, ChangeSweep,
                  ResetRefused, SetLocked
    <3> HIDE DEF All
    <3> QED BY <1>3, <1>4, <3>2, <3>3, <3>4
  <2>2. CASE Drop(i) \/ CountOwners(i)
    <3>1. Finish(i) \/ Goto(i, "write")
      BY <2>2 DEF Drop, CountOwners
    <3>2. Finish(i) => Orphans(i) \/ req[i].pc = "sweep" \/ Goto(i, "write")
      BY <2>2 DEF Drop, CountOwners, At
    <3>3. req[i].pc = "sweep" => Carries(i)
      BY DEF Control, Sane, Carries
    <3>4. "write" \in Pcs
      BY DEF Pcs
    <3> HIDE DEF All
    <3> QED BY <1>3, <1>4, <1>5, <3>1, <3>2, <3>3, <3>4
  <2>3. CASE ReadRole(i)
    <3>1. \/ Finish(i) /\ req[i].op = "lock"
          \/ Goto(i, "count") \/ Goto(i, "write")
      BY <2>3 DEF ReadRole
    <3>2. req[i].op = "lock" => Carries(i)
      BY DEF Control, Sane, Carries
    <3>3. "count" \in Pcs /\ "write" \in Pcs
      BY DEF Pcs
    <3> HIDE DEF All
    <3> QED BY <1>3, <1>4, <3>1, <3>2, <3>3
  <2>4. CASE NeedsRehash(i) \/ Rehash(i) \/ ChangeSet(i)
    <3>1. \E pc \in Pcs : Goto(i, pc)
      BY <2>4 DEF NeedsRehash, Rehash, ChangeSet, Pcs
    <3> HIDE DEF All
    <3> QED BY <1>4, <3>1
  <2>5. CASE Remove(i) \/ Reset(i)
    <3>1. req' = [Spent(req[i].u) EXCEPT ![i] = NoRequest]
      BY <2>5 DEF Remove, Reset
    <3>2. Reset(i) => req[i].arg \notin Invites
      BY DEF Reset, At, Control, Sane
    <3> QED BY <2>5, <3>1, <3>2, CarriesSpends
  <2>6. CASE Setup(i) \/ RegisterCreate(i)
    <3>1. \E r : Turns(i, r)
      BY <2>6, SetupAsks, CreateAsks
    <3>2. req[i].u = None
      BY <2>6 DEF Setup, Idle, RegisterCreate, At, Control, Sane
    <3> QED BY <3>1, <3>2, CarriesOther
  <2>7. CASE RegisterConsume(i)
    <3>1. \E r : Turns(i, r)
      BY <2>7, ConsumeAsks
    <3>2. Carries(i)
      BY <2>7 DEF Carries
    <3> QED BY <3>1, <3>2, CarriesTurns
  <2>8. CASE RegisterUndo(i)
    <3>1. PICK r : Turns(i, r) /\ Asks(r, "remove", "role", req[i].u, req[i].birth, req[i].arg)
      BY <2>8, UndoAsks
    <3>2. Carries(i)
      BY <3>1 DEF Turns, Asks, Carries
    <3> QED BY <3>1, <3>2, CarriesTurns
  <2> HIDE DEF All
  <2> QED BY <1>6, <2>1, <2>2, <2>3, <2>4, <2>5, <2>6, <2>7, <2>8 DEF Goes
<1>7. ASSUME \/ \E s \in Sessions : SessionEnds(s)
             \/ \E v \in Invites : InviteEnds(v) \/ \E u \in Users : CreateInvite(v, u)
             \/ UNCHANGED vars
      PROVE  All
  <2>1. UNCHANGED req
    BY <1>7 DEF SessionEnds, InviteEnds, CreateInvite, vars
  <2> QED BY <1>1, <2>1
<1> HIDE DEF All
<1>8. All
  BY <1>2, <1>6, <1>7, Steps
<1> QED
  BY <1>8 DEF All
\* A story is not forgotten, but a password that is settled.
LEMMA StoriesStay ==
    ASSUME [Next]_vars, NEW b, NEW what \in Stories, <<b, what>> \in odd
    PROVE  \/ <<b, what>> \in odd'
           \/ /\ what \in {"unswept", "reverted"}
              /\ \E i \in Slots : \/ ChangeSweep(i) /\ b = req[i].birth
                                  \/ Reset(i) /\ b = acct[req[i].u].birth
<1> DEFINE Done == \/ <<b, what>> \in odd'
                   \/ /\ what \in {"unswept", "reverted"}
                      /\ \E i \in Slots : \/ ChangeSweep(i) /\ b = req[i].birth
                                          \/ Reset(i) /\ b = acct[req[i].u].birth
<1>1. ASSUME NEW i \in Slots, Starts(i) PROVE Done
  BY <1>1, StartsQuiet
<1>2. ASSUME NEW i \in Slots, Goes(i) PROVE Done
  <2>1. CASE odd \subseteq odd'
    BY <2>1
  <2>2. CASE ChangeSweep(i)
    <3>1. odd' = odd \ {<<req[i].birth, "unswept">>, <<req[i].birth, "reverted">>}
      BY <2>2 DEF ChangeSweep, Settled
    <3> QED BY <2>2, <3>1
  <2>3. CASE Reset(i)
    <3>1. odd' = odd \ {<<acct[req[i].u].birth, "unswept">>, <<acct[req[i].u].birth, "reverted">>}
      BY <2>3 DEF Reset, Settled
    <3> QED BY <2>3, <3>1
  <2>4. CASE \/ Setup(i) \/ RegisterCreate(i) \/ RegisterConflict(i) \/ RegisterUndo(i)
             \/ ReadRole(i) \/ Remove(i) \/ SetRole(i) \/ SetLocked(i) \/ LockEvicts(i)
             \/ NeedsRehash(i) \/ ResetRefused(i)
    BY <2>1, <2>4 DEF Setup, RegisterCreate, RegisterConflict, RegisterUndo, ReadRole, Remove,
                      SetRole, SetLocked, LockEvicts, NeedsRehash, ResetRefused
  <2>5. CASE RegisterConsume(i) \/ IssueSession(i) \/ ChangeSet(i)
    <3>1. odd \subseteq odd'
      BY <2>5 DEF RegisterConsume, IssueSession, ChangeSet, Strays
    <3> QED BY <2>1, <3>1
  <2>6. CASE CountOwners(i) \/ Rehash(i) \/ Drop(i)
    <3>1. odd \subseteq odd'
      BY <2>6 DEF CountOwners, Rehash, Drop, Orphans, Told
    <3> QED BY <2>1, <3>1
  <2> HIDE DEF Done
  <2> QED BY <1>2, <2>2, <2>3, <2>4, <2>5, <2>6 DEF Goes
<1>3. ASSUME \/ \E s \in Sessions : SessionEnds(s)
             \/ \E v \in Invites : InviteEnds(v) \/ \E u \in Users : CreateInvite(v, u)
             \/ UNCHANGED vars
      PROVE  Done
  <2>1. odd' = odd
    BY <1>3 DEF SessionEnds, InviteEnds, CreateInvite, vars
  <2> QED BY <2>1
<1> HIDE DEF Done
<1>4. Done
  BY <1>1, <1>2, <1>3, Steps
<1> QED
  BY <1>4 DEF Done

\* Nobody but a removal takes grants away.
LEMMA GrantsKept ==
    ASSUME Base, [Next]_vars, \A i \in Slots : ~ Setup(i) /\ ~ RegisterCreate(i)
    PROVE  \A w \in Users : acct'[w].st # "none" => acct[w].granted \subseteq acct'[w].granted
<1> DEFINE Done == \A w \in Users : acct'[w].st # "none" => acct[w].granted \subseteq acct'[w].granted
<1>1. ASSUME Tame PROVE Done
  BY <1>1 DEF Tame
<1>2. ASSUME NEW i \in Slots, RegisterConsume(i) PROVE Done
  BY <1>2, GrantsStay DEF Base
<1>3. ASSUME NEW i \in Slots, Remove(i) PROVE Done
  <2>1. \A w \in Users : acct'[w] = NoAccount \/ acct'[w] = acct[w]
    BY <1>3, RemoveSets DEF Base
  <2> QED BY <2>1 DEF NoAccount
<1>4. ASSUME NEW i \in Slots, SetRole(i) PROVE Done
  BY <1>4, RolesStay DEF Base
<1>5. ASSUME NEW v \in Invites, InviteEnds(v) \/ \E u \in Users : CreateInvite(v, u) PROVE Done
  BY <1>5 DEF InviteEnds, CreateInvite
<1> HIDE DEF Done
<1>6. Done
  BY <1>1, <1>2, <1>3, <1>4, <1>5, Kinds DEF Base
<1> QED
  BY <1>6 DEF Done

LEMMA RedeemsStep ==
    ASSUME Base, Redeems, [Next]_vars
    PROVE  Redeems'
<1> DEFINE Good(u) == \/ acct'[u].via \in acct'[u].granted
                      \/ \E j \in Slots : req'[j].birth = acct'[u].birth /\ req'[j].arg \in Invites
                                          /\ req'[j].u # None
                      \/ \E what \in {"orphan", "alias"} : <<acct'[u].birth, what>> \in odd'
<1> SUFFICES ASSUME NEW u \in Users, acct'[u].st # "none", acct'[u].via \in Invites
             PROVE  Good(u)
  BY DEF Redeems, Here, On
<1>1. \A j \in Slots : Carries(j)
  BY CarriesStep DEF Base
\* An account that was there, whose invite and grants it still has.
<1>2. ASSUME acct[u].st # "none", Same(u), acct[u].granted \subseteq acct'[u].granted PROVE Good(u)
  <2>1. u \in Here /\ acct[u].via \in Invites /\ acct'[u].birth = acct[u].birth
        /\ acct'[u].via = acct[u].via
    BY <1>2 DEF Here, Same
  <2>2. acct[u].birth # 0
    <3>1. "none" \notin Invites /\ acct[u].st \in {"none", "placeholder", "here"}
      BY Literals, AccountFields DEF Base
    <3> QED BY <2>1, <3>1, <1>2 DEF Base, Births
  <2>3. CASE acct[u].via \in acct[u].granted
    BY <1>2, <2>1, <2>3
  <2>4. ASSUME NEW what \in {"orphan", "alias"}, <<acct[u].birth, what>> \in odd PROVE Good(u)
    <3>1. what \in Stories /\ what \notin {"unswept", "reverted"}
      BY DEF Stories
    <3>2. <<acct[u].birth, what>> \in odd'
      BY <2>4, <3>1, StoriesStay
    <3> QED BY <2>1, <3>2
  <2>5. ASSUME NEW j \in Slots, On(j, u) PROVE Good(u)
    <3>1. u = req[j].u /\ acct[u].via = req[j].arg
      BY <2>1, <2>5 DEF On, Base, Own
    <3>2. CASE RegisterConsume(j)
      <4>1. acct'[u].granted = acct[u].granted \cup {req[j].arg}
        BY <3>1, <3>2, GrantsStay DEF Base
      <4> QED BY <2>1, <3>1, <4>1
    <3>3. ~ Remove(j)
      <4>1. Remove(j) => acct'[u] = NoAccount
        BY <3>1, RemoveSets DEF Base
      <4> QED BY <4>1 DEF NoAccount
    <3>4. \/ /\ req'[j].birth = req[j].birth /\ req'[j].arg = req[j].arg
             /\ req'[j].u = req[j].u
          \/ RegisterConsume(j)
          \/ <<req[j].birth, "orphan">> \in odd'
      BY <1>1, <2>2, <2>5, <3>3 DEF Carries, On
    <3> QED BY <2>1, <2>5, <3>2, <3>4 DEF On
  <2> QED BY <2>1, <2>3, <2>4, <2>5 DEF Redeems
<1>3. CASE \A i \in Slots : ~ Setup(i) /\ ~ RegisterCreate(i)
  <2>1. acct[u].st # "none" /\ Same(u)
    BY <1>3, OlderStep DEF Base, Older
  <2>2. acct[u].granted \subseteq acct'[u].granted
    BY <1>3, GrantsKept
  <2> QED BY <1>2, <2>1, <2>2
<1>4. ASSUME NEW i \in Slots, Setup(i) PROVE Good(u)
  <2>1. u # 1
    <3>1. acct[1].st = "placeholder" /\ acct'[1].via = acct[1].via /\ 1 \in Users
      BY <1>4, SetupSets, Literals DEF Base
    <3>2. acct[1].via = "none"
      BY <3>1 DEF Base, Births, Here
    <3> QED BY <3>1, <3>2, Literals
  <2>2. acct'[u] = acct[u]
    BY <1>4, <2>1, SetupSets DEF Base
  <2> QED BY <1>2, <2>2 DEF Same
<1>5. ASSUME NEW i \in Slots, RegisterCreate(i) PROVE Good(u)
  <2>1. PICK n : n = NextUser
    OBVIOUS
  <2>2. /\ n \in Users /\ acct'[n].via = req[i].arg /\ acct'[n].birth = births + 1
        /\ \A w \in Users \ {n} : acct'[w] = acct[w]
    BY <1>5, <2>1, CreateSets DEF Base
  <2>3. CASE u = n
    <3>1. PICK r : /\ Turns(i, r)
                   /\ IF req[i].arg = "none"
                        THEN Asks(r, "login", "issue", NextUser, births + 1, First)
                        ELSE Asks(r, req[i].op, "consume", NextUser, births + 1, req[i].arg)
      BY <1>5, CreateAsks DEF Base
    <3>2. req[i].arg \in Invites /\ req[i].arg # "none"
      BY <2>2, <2>3, Literals
    <3>3. req'[i].birth = births + 1 /\ req'[i].arg = req[i].arg /\ req'[i].u = n
      BY <2>1, <3>1, <3>2 DEF Turns, Asks
    <3> QED BY <2>2, <2>3, <3>2, <3>3, Literals
  <2>4. CASE u # n
    BY <1>2, <2>2, <2>4 DEF Same
  <2> QED BY <2>3, <2>4
<1> HIDE DEF Good
<1> QED
  BY <1>3, <1>4, <1>5
-----------------------------------------------------------------------------
(* A session outlives no password. *)

Sweeps(j, u) == req[j].pc = "sweep" /\ req[j].u = u /\ req[j].birth = acct[u].birth

Follow ==
    \A s \in Live :
      \/ sess[s].under = acct[sess[s].u].pw
      \/ \E j \in Slots : Sweeps(j, sess[s].u)
      \/ \E what \in {"unswept", "reverted", "alias"} : <<acct[sess[s].u].birth, what>> \in odd

\* A change that has set its password still has to delete the sessions, until it
\* does or its request is dropped.
Owes(j) ==
    req[j].pc = "sweep" =>
      \/ req'[j].pc = "sweep" /\ req'[j].u = req[j].u /\ req'[j].birth = req[j].birth
      \/ ChangeSweep(j)
      \/ <<req[j].birth, "unswept">> \in odd'

LEMMA OwesTurns ==
    ASSUME NEW i \in Slots, NEW r, Turns(i, r), Owes(i)
    PROVE  \A j \in Slots : Owes(j)
BY DEF Turns, Alone, Owes

LEMMA OwesStep ==
    ASSUME Shapes, Control, [Next]_vars
    PROVE  \A j \in Slots : Owes(j)
<1> DEFINE All == \A j \in Slots : Owes(j)
<1>1. ASSUME UNCHANGED req PROVE All
  BY <1>1 DEF Owes
<1>2. ASSUME NEW i \in Slots, NEW r, req' = [req EXCEPT ![i] = r], Owes(i) PROVE All
  <2>1. req' \in [Slots -> Request]
    BY ControlStep
  <2>2. Turns(i, r)
    BY <1>2, <2>1 DEF Shapes, Turns, Alone
  <2> QED BY <1>2, <2>2, OwesTurns
<1>3. ASSUME NEW i \in Slots, Starts(i) PROVE All
  <2>1. req[i].op = "idle"
    BY <1>3 DEF Starts, RegisterCheck, AdminStart, DeleteMe, Login, ResetStart, ChangeStart, Begin
  <2>2. Owes(i)
    BY <2>1 DEF Control, Sane, Owes
  <2>3. PICK r : req' = [req EXCEPT ![i] = r]
    BY <1>3 DEF Starts, RegisterCheck, AdminStart, DeleteMe, Login, ResetStart, ChangeStart, Begin
  <2> QED BY <1>2, <2>2, <2>3
<1>4. ASSUME NEW i \in Slots, Finish(i), Owes(i) PROVE All
  BY <1>2, <1>4 DEF Finish
<1>5. ASSUME NEW i \in Slots, NEW pc, Goto(i, pc), Owes(i) PROVE All
  BY <1>2, <1>5 DEF Goto
<1>6. ASSUME NEW i \in Slots, Goes(i) PROVE All
  <2>1. CASE ChangeSweep(i) \/ Drop(i)
    <3>1. Finish(i)
      BY <2>1 DEF ChangeSweep, Drop
    <3>2. Owes(i)
      BY <2>1 DEF Owes, Drop, Told, At
    <3> HIDE DEF All
    <3> QED BY <1>4, <3>1, <3>2
  <2>2. CASE \/ RegisterConflict(i) \/ SetRole(i) \/ LockEvicts(i) \/ IssueSession(i)
             \/ ResetRefused(i) \/ SetLocked(i) \/ CountOwners(i) \/ ReadRole(i)
             \/ NeedsRehash(i) \/ Rehash(i) \/ ChangeSet(i)
    <3>1. req[i].pc # "sweep"
      BY <2>2 DEF RegisterConflict, SetRole, LockEvicts, IssueSession, ResetRefused, SetLocked,
                  CountOwners, ReadRole, NeedsRehash, Rehash, ChangeSet, At
    <3>2. Owes(i)
      BY <3>1 DEF Owes
    <3>3. Finish(i) \/ \E pc \in Pcs : Goto(i, pc)
      BY <2>2 DEF RegisterConflict, SetRole, LockEvicts, IssueSession, ResetRefused, SetLocked,
                  CountOwners, ReadRole, NeedsRehash, Rehash, ChangeSet, Pcs
    <3> HIDE DEF All
    <3> QED BY <1>4, <1>5, <3>2, <3>3
  <2>3. CASE Remove(i) \/ Reset(i)
    <3>1. req' = [Spent(req[i].u) EXCEPT ![i] = NoRequest] /\ req[i].pc # "sweep"
      BY <2>3 DEF Remove, Reset, At
    <3>2. Owes(i)
      BY <3>1 DEF Owes
    <3>3. ASSUME NEW j \in Slots \ {i} PROVE Owes(j)
      <4>1. /\ req'[j].u = req[j].u /\ req'[j].birth = req[j].birth
            /\ req[j].pc # "reset" => req'[j].pc = req[j].pc
        BY <3>1, Spends DEF At
      <4> QED BY <4>1 DEF Owes
    <3> QED BY <3>2, <3>3
  <2>4. CASE Setup(i) \/ RegisterCreate(i) \/ RegisterConsume(i) \/ RegisterUndo(i)
    <3>1. req[i].pc # "sweep"
      BY <2>4 DEF Setup, Idle, RegisterCreate, RegisterConsume, RegisterUndo, At, Control, Sane
    <3>2. Owes(i)
      BY <3>1 DEF Owes
    <3>3. \E r : Turns(i, r)
      BY <2>4, SetupAsks, CreateAsks, ConsumeAsks, UndoAsks
    <3> QED BY <3>2, <3>3, OwesTurns
  <2> HIDE DEF All
  <2> QED BY <1>6, <2>1, <2>2, <2>3, <2>4 DEF Goes
<1>7. ASSUME \/ \E s \in Sessions : SessionEnds(s)
             \/ \E v \in Invites : InviteEnds(v) \/ \E u \in Users : CreateInvite(v, u)
             \/ UNCHANGED vars
      PROVE  All
  <2>1. UNCHANGED req
    BY <1>7 DEF SessionEnds, InviteEnds, CreateInvite, vars
  <2> QED BY <1>1, <2>1
<1> HIDE DEF All
<1>8. All
  BY <1>3, <1>6, <1>7, Steps
<1> QED
  BY <1>8 DEF All

\* Three requests give an account another password.
LEMMA PasswordsStep ==
    ASSUME Base, [Next]_vars, NEW u \in Users, acct[u].st = "here", acct'[u].st # "none"
    PROVE  \/ acct'[u].pw = acct[u].pw
           \/ \E i \in Slots : u = req[i].u /\ (ChangeSet(i) \/ Rehash(i) \/ Reset(i))
<1> DEFINE Done == \/ acct'[u].pw = acct[u].pw
                   \/ \E i \in Slots : u = req[i].u /\ (ChangeSet(i) \/ Rehash(i) \/ Reset(i))
<1>1. ASSUME acct' = acct PROVE Done
  BY <1>1
<1>2. ASSUME NEW i \in Slots, Starts(i) PROVE Done
  BY <1>2, StartsQuiet
<1>3. ASSUME NEW i \in Slots, Goes(i) PROVE Done
  <2>1. CASE ChangeSet(i) \/ Rehash(i) \/ Reset(i)
    <3>1. CASE u = req[i].u
      BY <2>1, <3>1
    <3>2. CASE u # req[i].u
      <4>1. \/ acct' = acct
            \/ acct' = [acct EXCEPT ![req[i].u].pw = req[i].arg, ![req[i].u].weak = FALSE]
        BY <2>1 DEF ChangeSet, Rehash, Reset
      <4>2. req[i].u \in Users /\ req[i].arg \in Passwords
        BY <2>1 DEF Rehash, ChangeSet, Reset, At, Base, Control, Sane
      <4>3. acct'[u] = acct[u]
        BY <3>2, <4>1, <4>2, PasswordSet DEF Base
      <4> QED BY <4>3
    <3> QED BY <3>1, <3>2
  <2>2. CASE Remove(i)
    <3>1. req[i].u \in Users
      BY <2>2 DEF Remove, At, Base, Control, Sane
    <3>2. acct'[req[i].u] = NoAccount /\ \A w \in Users \ {req[i].u} : acct'[w] = acct[w]
      BY <2>2, <3>1, RemoveSets DEF Base
    <3> QED BY <3>1, <3>2 DEF NoAccount
  <2>3. CASE SetRole(i)
    BY <2>3, RolesStay DEF Base
  <2>4. CASE RegisterConsume(i)
    BY <2>4, GrantsStay DEF Base
  <2>5. CASE Setup(i)
    BY <2>5, SetupSets DEF Base
  <2>6. CASE RegisterCreate(i)
    <3>1. /\ NextUser \notin Here /\ \A w \in Users \ {NextUser} : acct'[w] = acct[w]
      BY <2>6, CreateSets DEF Base
    <3>2. u \in Here
      BY DEF Here
    <3> QED BY <3>1, <3>2
  <2>7. CASE SetLocked(i)
    <3>1. CASE req[i].u \in Here
      <4>1. acct' = [acct EXCEPT ![req[i].u].locked = (req[i].op = "lock")]
        BY <2>7, <3>1 DEF SetLocked
      <4>2. req[i].u \in Users /\ (req[i].op = "lock") \in BOOLEAN
        BY <3>1 DEF Here
      <4> QED BY <4>1, <4>2, LockedSet DEF Base
    <3>2. CASE req[i].u \notin Here
      BY <1>1, <2>7, <3>2 DEF SetLocked
    <3> QED BY <3>1, <3>2
  <2>8. CASE \/ RegisterConflict(i) \/ RegisterUndo(i) \/ ReadRole(i) \/ CountOwners(i)
             \/ LockEvicts(i) \/ NeedsRehash(i) \/ IssueSession(i) \/ ChangeSweep(i)
             \/ ResetRefused(i) \/ Drop(i)
    <3>1. acct' = acct
      BY <2>8 DEF RegisterConflict, RegisterUndo, ReadRole, CountOwners, LockEvicts, NeedsRehash,
                  IssueSession, ChangeSweep, ResetRefused, Drop
    <3> QED BY <1>1, <3>1
  <2> HIDE DEF Done
  <2> QED BY <1>3, <2>1, <2>2, <2>3, <2>4, <2>5, <2>6, <2>7, <2>8 DEF Goes
<1>4. ASSUME \/ \E s \in Sessions : SessionEnds(s)
             \/ \E v \in Invites : InviteEnds(v) \/ \E w \in Users : CreateInvite(v, w)
             \/ UNCHANGED vars
      PROVE  Done
  <2>1. acct' = acct
    BY <1>4 DEF SessionEnds, InviteEnds, CreateInvite, vars
  <2> QED BY <1>1, <2>1
<1> HIDE DEF Done
<1>5. Done
  BY <1>2, <1>3, <1>4, Steps
<1> QED
  BY <1>5 DEF Done
LEMMA BirthKept ==
    ASSUME Base, [Next]_vars, NEW u \in Users, acct[u].st = "here", acct'[u].st # "none"
    PROVE  acct'[u].birth = acct[u].birth
<1>1. ASSUME NEW i \in Slots, Setup(i) PROVE acct'[u].birth = acct[u].birth
  <2>1. acct[1].st = "placeholder" /\ \A w \in Users \ {1} : acct'[w] = acct[w]
    BY <1>1, SetupSets DEF Base
  <2> QED BY <2>1
<1>2. ASSUME NEW i \in Slots, RegisterCreate(i) PROVE acct'[u].birth = acct[u].birth
  <2>1. NextUser \notin Here /\ \A w \in Users \ {NextUser} : acct'[w] = acct[w]
    BY <1>2, CreateSets DEF Base
  <2> QED BY <2>1 DEF Here
<1>3. CASE \A i \in Slots : ~ Setup(i) /\ ~ RegisterCreate(i)
  BY <1>3, OlderStep DEF Base, Older, Same
<1> QED
  BY <1>1, <1>2, <1>3

\* A request that changes the password of its account, or of one that has its id.
LEMMA ChangeFollows ==
    ASSUME Base, [Next]_vars, NEW i \in Slots, ChangeSet(i), acct[req[i].u].st = "here"
    PROVE  \/ <<acct[req[i].u].birth, "alias">> \in odd'
           \/ /\ req'[i].pc = "sweep" /\ req'[i].u = req[i].u
              /\ req'[i].birth = acct[req[i].u].birth
<1>1. req[i].u \in Here
  BY DEF ChangeSet, At, Base, Control, Sane, Here
<1>2. CASE Astray(i)
  BY <1>1, <1>2 DEF ChangeSet, Strays
<1>3. CASE ~ Astray(i)
  <2>1. acct[req[i].u].birth = req[i].birth
    BY <1>1, <1>3 DEF Astray
  <2>2. "sweep" \in Pcs
    BY DEF Pcs
  <2>3. PICK r : Turns(i, r) /\ Asks(r, req[i].op, "sweep", req[i].u, req[i].birth, req[i].arg)
    BY <2>2, GoesOn DEF ChangeSet, Base
  <2> QED BY <2>1, <2>3 DEF Turns, Asks
<1> QED
  BY <1>2, <1>3

LEMMA RehashFollows ==
    ASSUME Base, NEW i \in Slots, Rehash(i), acct[req[i].u].st = "here"
    PROVE  \/ <<acct[req[i].u].birth, "reverted">> \in odd'
           \/ acct'[req[i].u].pw = acct[req[i].u].pw
<1>1. req[i].u \in Here /\ req[i].u \in Users /\ req[i].arg \in Passwords
  BY DEF Rehash, At, Base, Control, Sane, Here
<1>2. CASE acct[req[i].u].pw # req[i].arg
  BY <1>1, <1>2 DEF Rehash, Told
<1>3. CASE acct[req[i].u].pw = req[i].arg
  <2>1. acct' = [acct EXCEPT ![req[i].u].pw = req[i].arg, ![req[i].u].weak = FALSE]
    BY <1>1 DEF Rehash
  <2> QED BY <1>1, <1>3, <2>1, PasswordSet DEF Base
<1> QED
  BY <1>2, <1>3

\* What ends the sessions of an account leaves none of them, and what settles
\* an account's story has ended its sessions.
LEMMA SweepEnds ==
    ASSUME Base, NEW i \in Slots, ChangeSweep(i), NEW s \in Live, sess[s].u = req[i].u
    PROVE  sess'[s] = NoSession \/ (sess'[s].u = sess[s].u /\ sess'[s].under = acct[sess[s].u].pw)
<1>1. s \in Sessions
  BY DEF Live
<1> QED
  BY <1>1, SweepSets DEF Base

LEMMA ResetEnds ==
    ASSUME Base, NEW i \in Slots, Reset(i), NEW s \in Live, sess[s].u = req[i].u
    PROVE  sess'[s] = NoSession
<1>1. s \in Sessions /\ sess' = Without({req[i].u})
  BY DEF Live, Reset
<1> QED
  BY <1>1, WithoutKeeps DEF Base

LEMMA FollowStep ==
    ASSUME Base, Base', Follow, [Next]_vars
    PROVE  Follow'
<1> DEFINE Good(s) ==
      \/ sess'[s].under = acct'[sess'[s].u].pw
      \/ \E j \in Slots : req'[j].pc = "sweep" /\ req'[j].u = sess'[s].u
                          /\ req'[j].birth = acct'[sess'[s].u].birth
      \/ \E what \in {"unswept", "reverted", "alias"} : <<acct'[sess'[s].u].birth, what>> \in odd'
<1> SUFFICES ASSUME NEW s \in Sessions, sess'[s] # NoSession PROVE Good(s)
  BY DEF Follow, Live, Sweeps
<1>1. Closed(s) \/ Kept(s) \/ \E i \in Slots : Renewed(i, s) \/ Issued(i, s)
  BY SessionsStep DEF Base
<1>2. ASSUME NEW i \in Slots, Renewed(i, s) \/ Issued(i, s) PROVE Good(s)
  BY <1>2 DEF Renewed, Issued, ChangeSweep, IssueSession
<1>3. ASSUME sess'[s] = sess[s] PROVE Good(s)
  <2>1. PICK u : u = sess[s].u
    OBVIOUS
  <2>2. s \in Live /\ sess'[s].u = u /\ sess'[s].under = sess[s].under
    BY <1>3, <2>1 DEF Live
  <2>3. u \in Users /\ acct[u].st = "here" /\ acct'[u].st # "none"
    <3>1. s \in Live' /\ u = sess'[s].u
      BY <2>2 DEF Live
    <3> QED BY <2>1, <2>2, <3>1 DEF Base, Opened
  <2>4. acct'[u].birth = acct[u].birth /\ u \in Here
    BY <2>3, BirthKept DEF Here
  <2>5. ASSUME NEW i \in Slots, ChangeSweep(i), u = req[i].u PROVE Good(s)
    <3>1. sess'[s].under = acct[u].pw /\ acct' = acct
      BY <2>1, <2>2, <2>5, SweepEnds DEF ChangeSweep
    <3> QED BY <2>2, <3>1
  <2>6. ASSUME NEW i \in Slots, Reset(i), u = req[i].u PROVE FALSE
    BY <2>1, <2>2, <2>6, ResetEnds
  <2>7. ASSUME NEW what \in {"unswept", "reverted", "alias"}, <<acct[u].birth, what>> \in odd
        PROVE  Good(s)
    <3>1. what \in Stories
      BY DEF Stories
    <3>2. \/ <<acct[u].birth, what>> \in odd'
          \/ \E i \in Slots : \/ ChangeSweep(i) /\ acct[u].birth = req[i].birth
                              \/ Reset(i) /\ acct[u].birth = acct[req[i].u].birth
      BY <2>7, <3>1, StoriesStay
    <3>3. ASSUME NEW i \in Slots, ChangeSweep(i), acct[u].birth = req[i].birth PROVE Good(s)
      <4>1. req[i].u \in Users
        BY <3>3 DEF ChangeSweep, At, Base, Control, Sane
      <4>2. u = req[i].u
        BY <2>4, <3>3, <4>1, Literals DEF Base, Own
      <4> QED BY <2>5, <3>3, <4>2
    <3>4. ASSUME NEW i \in Slots, Reset(i), acct[u].birth = acct[req[i].u].birth PROVE FALSE
      <4>1. req[i].u \in Here
        <5>1. req[i].u \in Users /\ acct[req[i].u].st = "here"
          BY <3>4, TokenHolder DEF Reset, At
        <5> QED BY <5>1 DEF Here
      <4>2. u = req[i].u
        BY <2>4, <3>4, <4>1 DEF Base, Births
      <4> QED BY <2>6, <3>4, <4>2
    <3>5. CASE <<acct[u].birth, what>> \in odd'
      BY <2>2, <2>4, <3>5
    <3> HIDE DEF Good
    <3> QED BY <3>2, <3>3, <3>4, <3>5
  <2>8. ASSUME NEW j \in Slots, Sweeps(j, u) PROVE Good(s)
    <3>1. req[j].pc = "sweep" /\ req[j].u = u /\ req[j].birth = acct[u].birth
      BY <2>8 DEF Sweeps
    <3>2. CASE ChangeSweep(j)
      BY <2>5, <3>1, <3>2
    <3>3. CASE req'[j].pc = "sweep" /\ req'[j].u = req[j].u /\ req'[j].birth = req[j].birth
      BY <2>2, <2>4, <3>1, <3>3
    <3>4. CASE <<req[j].birth, "unswept">> \in odd'
      BY <2>2, <2>4, <3>1, <3>4
    <3> QED BY <3>1, <3>2, <3>3, <3>4, OwesStep DEF Owes, Base
  <2>9. ASSUME sess[s].under = acct[u].pw PROVE Good(s)
    <3>1. CASE acct'[u].pw = acct[u].pw
      BY <2>2, <2>9, <3>1
    <3>2. ASSUME NEW i \in Slots, u = req[i].u, ChangeSet(i) PROVE Good(s)
      BY <2>2, <2>3, <2>4, <3>2, ChangeFollows
    <3>3. ASSUME NEW i \in Slots, u = req[i].u, Rehash(i) PROVE Good(s)
      BY <2>2, <2>3, <2>4, <2>9, <3>3, RehashFollows
    <3> HIDE DEF Good
    <3> QED BY <2>3, <2>6, <3>1, <3>2, <3>3, PasswordsStep
  <2> HIDE DEF Good
  <2> QED BY <2>1, <2>2, <2>7, <2>8, <2>9 DEF Follow
<1> HIDE DEF Good
<1> QED
  BY <1>1, <1>2, <1>3 DEF Closed, Kept

-----------------------------------------------------------------------------
(* The initial states, and the theorems. *)

LEMMA OwnerRow ==
    ASSUME NEW st \in {"placeholder", "here"}, NEW b \in Nat
    PROVE  /\ Owner(st, b) \in AccountRow /\ [Owner(st, b) EXCEPT !.weak = TRUE] \in AccountRow
           /\ \A r \in {Owner(st, b), [Owner(st, b) EXCEPT !.weak = TRUE]} :
                /\ r.st = st /\ r.role = "owner" /\ r.birth = b /\ r.pw = First
                /\ r.via = "none" /\ r.granted = {}
BY Literals DEF Owner, NoAccount, AccountRow, Roles

\* Every account of the first states is an owner's, whose sessions follow the
\* first password; the placeholder has no session.
LEMMA InitRows ==
    ASSUME Init
    PROVE  /\ acct \in [Users -> AccountRow] /\ sess \in [Sessions -> SessionRow] /\ births \in Nat
           /\ Owners # {}
           /\ \A u \in Here : /\ acct[u].via = "none" /\ acct[u].granted = {} /\ acct[u].pw = First
                              /\ acct[u].birth <= births
                              /\ acct[u].st = "here" => acct[u].birth # 0
           /\ \A u, w \in Here : acct[u].birth = acct[w].birth => u = w
           /\ \A s \in Live : /\ sess[s].u \in Users /\ acct[sess[s].u].st = "here"
                              /\ sess[s].under = First
<1>1. /\ 1 \in Users /\ MaxUsers \in Nat /\ 1 < MaxUsers /\ Users = 1..MaxUsers
      /\ MaxUsers - 1 \in Nat /\ Sessions \subseteq Nat /\ \A s \in Sessions : s >= 1
  BY AccountAssumption DEF Users, Sessions
<1>2. NoAccount.st = "none"
  BY DEF NoAccount
<1>3. CASE /\ acct = [u \in Users |-> IF u = 1 THEN Owner("placeholder", 0) ELSE NoAccount]
           /\ sess = [s \in Sessions |-> NoSession]
           /\ births = 0
  <2>1. acct \in [Users -> AccountRow]
    BY <1>3, OwnerRow, Literals
  <2>0. PICK o : o = Owner("placeholder", 0)
    OBVIOUS
  <2>6. /\ o.st = "placeholder" /\ o.role = "owner" /\ o.birth = 0 /\ o.pw = First
        /\ o.via = "none" /\ o.granted = {}
    BY <2>0 DEF Owner, NoAccount
  <2>2. acct[1] = o /\ Here = {1}
    <3>1. acct[1] = o /\ \A u \in Users \ {1} : acct[u].st = "none"
      BY <1>1, <1>2, <1>3, <2>0
    <3>2. acct[1].st = "placeholder"
      BY <2>6, <3>1
    <3> QED BY <1>1, <3>1, <3>2 DEF Here
  <2>3. /\ acct[1].role = "owner" /\ acct[1].via = "none" /\ acct[1].granted = {}
        /\ acct[1].pw = First /\ acct[1].birth = 0 /\ acct[1].st = "placeholder"
    BY <2>2, <2>6
  <2>4. sess \in [Sessions -> SessionRow] /\ Live = {}
    BY <1>3, Literals DEF Live
  <2>5. 1 \in Owners
    BY <2>2, <2>3 DEF Owners
  <2> QED BY <1>3, <2>1, <2>2, <2>3, <2>4, <2>5
<1>4. CASE /\ acct = [u \in Users |-> IF u = MaxUsers THEN NoAccount
                                      ELSE [Owner("here", u) EXCEPT !.weak = TRUE]]
           /\ sess = [s \in Sessions |-> IF s < MaxUsers THEN [u |-> s, under |-> First]
                                                         ELSE NoSession]
           /\ births = MaxUsers - 1
  <2>1. ASSUME NEW u \in Users, u # MaxUsers
        PROVE  /\ acct[u] \in AccountRow /\ acct[u].st = "here" /\ acct[u].role = "owner"
               /\ acct[u].birth = u /\ acct[u].pw = First /\ acct[u].via = "none"
               /\ acct[u].granted = {}
    <3>1. acct[u] = [Owner("here", u) EXCEPT !.weak = TRUE] /\ u \in Nat
      BY <1>1, <1>4, <2>1
    <3> QED BY <3>1, OwnerRow
  <2>2. MaxUsers \in Users => acct[MaxUsers] = NoAccount
    BY <1>4
  <2>3. acct \in [Users -> AccountRow]
    <3>1. \A u \in Users : acct[u] \in AccountRow
      BY <2>1, <2>2, Literals
    <3> QED BY <1>4, <3>1
  <2>4. Here = Users \ {MaxUsers}
    BY <1>2, <2>1, <2>2 DEF Here
  <2>5. 1 \in Owners
    BY <1>1, <2>1, <2>4 DEF Owners
  <2>6. \A u \in Here : u <= births /\ u # 0
    BY <1>1, <1>4, <2>4
  <2>7. ASSUME NEW s \in Sessions
        PROVE  /\ sess[s] \in SessionRow
               /\ sess[s] = NoSession \/ ( /\ sess[s].u \in Users /\ sess[s].u # MaxUsers
                                           /\ sess[s].under = First)
    <3>1. CASE s < MaxUsers
      <4>1. sess[s] = [u |-> s, under |-> First] /\ s \in Users /\ s # MaxUsers
        BY <1>1, <1>4, <3>1
      <4> QED BY <4>1, Literals DEF SessionRow
    <3>2. CASE ~ (s < MaxUsers)
      BY <1>4, <3>2, Literals
    <3> QED BY <3>1, <3>2
  <2>8. sess \in [Sessions -> SessionRow]
    BY <1>4, <2>7
  <2>9. \A s \in Live : sess[s].u \in Users /\ acct[sess[s].u].st = "here" /\ sess[s].under = First
    BY <2>1, <2>7 DEF Live
  <2>10. births \in Nat
    BY <1>1, <1>4
  <2>11. \A u \in Here : /\ acct[u].via = "none" /\ acct[u].granted = {} /\ acct[u].pw = First
                         /\ acct[u].birth = u
    BY <2>1, <2>4
  <2> QED BY <2>3, <2>5, <2>6, <2>8, <2>9, <2>10, <2>11
<1> QED
  BY <1>3, <1>4 DEF Init

Inv == Base /\ Guard /\ Grants /\ Redeems /\ Follow

LEMMA InvInit == Init => Inv
<1> SUFFICES ASSUME Init PROVE Inv
  OBVIOUS
<1>1. /\ req = [i \in Slots |-> NoRequest] /\ odd = {}
      /\ invite = [v \in Invites |-> [st |-> "none", maker |-> None, by |-> None]]
  BY DEF Init
<1>2. /\ NoRequest.u = None /\ NoRequest.birth = 0 /\ NoRequest.op = "idle"
      /\ NoRequest.pc = "idle"
  BY DEF NoRequest
<1>3. invite \in [Invites -> InviteRow] /\ \A v \in Invites : invite[v].by = None
  BY <1>1 DEF InviteRow
<1>4. Shapes
  BY <1>1, <1>3, InitRows, Literals DEF Shapes
<1>5. Control
  BY <1>1, Literals DEF Control
<1>6. Births
  BY InitRows DEF Births
<1>7. Own /\ Claims /\ Tokens
  BY <1>1, <1>2, <1>4 DEF Own, Claims, Tokens, At, Shapes
<1>8. Opened
  BY InitRows DEF Opened
<1>9. Passed = {}
  BY <1>1, <1>2 DEF Passed
<1>10. Guard
  BY <1>9, InitRows DEF Guard
<1>11. Here \subseteq Users
  BY DEF Here
<1>12. Grants
  BY <1>3, <1>11, InitRows, Literals DEF Grants
<1>13. Redeems
  BY InitRows, Literals DEF Redeems
<1>14. Follow
  BY <1>11, InitRows DEF Follow, Here
<1> QED
  BY <1>4, <1>5, <1>6, <1>7, <1>8, <1>10, <1>12, <1>13, <1>14 DEF Inv, Base

LEMMA InvStep == Inv /\ [Next]_vars => Inv'
<1> SUFFICES ASSUME Inv, [Next]_vars PROVE Inv'
  OBVIOUS
<1>1. Base'
  BY BaseStep DEF Inv
<1> QED
  BY <1>1, GuardStep, GrantsStep, RedeemsStep, FollowStep DEF Inv

\* The accounts, invites, sessions and requests of auth.rs and users.rs stay as
\* the statements before left them, in every order the handlers can run.
THEOREM InvCorrect == Spec => []Inv
<1> QED BY InvInit, InvStep, PTL DEF Spec

LEMMA TypesHold == ASSUME Base, Grants PROVE TypeOK
<1>1. \A u \in Here : acct[u].role \in {"owner", "admin", "user"} /\ acct[u].pw \in Passwords
  BY AccountFields DEF Base, Here, Roles
<1>2. \A s \in Live : sess[s].u \in Here /\ sess[s].under \in Passwords
  <2>1. \A s \in Live : sess[s].u \in Here
    BY DEF Base, Opened, Here
  <2>2. \A s \in Live : sess[s].under \in Passwords
    BY DEF Base, Shapes, SessionRow, Live
  <2> QED BY <2>1, <2>2
<1>3. \A v \in Invites : invite[v].by \in Here \cup {None}
  BY DEF Grants
<1>4. \A i \in Slots : At(i, "reset") => req[i].u \in Here /\ ~ Astray(i)
  BY TokenHolder DEF At, Astray, Here
<1> QED
  BY <1>1, <1>2, <1>3, <1>4 DEF TypeOK

\* The installation keeps an owner while no two guarded removals were past
\* their role read at once (can_act_on, count_owners, delete_user and
\* set_user_role), whatever else the requests next to them do.
THEOREM OwnerRemainsCorrect == Spec => []OwnerRemains
<1>1. Inv => OwnerRemains
  BY TypesHold DEF Inv, Guard, OwnerRemains
<1> QED BY <1>1, InvCorrect, PTL

\* An invite makes one account that keeps its grants: the compare-and-set of
\* consume_invite and the rollback of register, for any requests in flight.
THEOREM InviteRedeemedOnceCorrect == Spec => []InviteRedeemedOnce
<1>1. ASSUME Inv PROVE InviteRedeemedOnce
  <2>1. ASSUME NEW v \in Invites
        PROVE  /\ Cardinality({u \in Here : v \in acct[u].granted}) <= 1
               /\ invite[v].by # None => v \in acct[invite[v].by].granted
    <3>1. {u \in Here : v \in acct[u].granted} \subseteq {invite[v].by}
      BY <1>1 DEF Inv, Grants
    <3>2. IsFiniteSet({invite[v].by}) /\ Cardinality({invite[v].by}) = 1
      BY FS_Singleton
    <3>3. Cardinality({u \in Here : v \in acct[u].granted}) <= Cardinality({invite[v].by})
      BY <3>1, <3>2, FS_Subset
    <3>4. invite[v].by # None => v \in acct[invite[v].by].granted
      BY <1>1 DEF Inv, Grants
    <3> QED BY <3>2, <3>3, <3>4
  <2>2. ASSUME NEW u \in Here, acct[u].via \in Invites
        PROVE  \/ acct[u].via \in acct[u].granted
               \/ Redeeming(u) \/ Story(u) \cap {"orphan", "alias"} # {}
    <3>1. CASE acct[u].via \in acct[u].granted
      BY <3>1
    <3>2. CASE \E j \in Slots : On(j, u)
      BY <3>2 DEF On, Redeeming
    <3>3. ASSUME NEW what \in {"orphan", "alias"}, <<acct[u].birth, what>> \in odd
          PROVE  Story(u) \cap {"orphan", "alias"} # {}
      <4>1. what \in Story(u)
        BY <3>3 DEF Story, Stories
      <4> QED BY <4>1
    <3> QED BY <1>1, <2>2, <3>1, <3>2, <3>3 DEF Inv, Redeems
  <2> QED BY <2>1, <2>2 DEF InviteRedeemedOnce
<1> QED BY <1>1, InvCorrect, PTL

\* A session outlives no password: change_password, the resets and the rehash of
\* login against every session opened next to them.
THEOREM SessionsFollowPasswordCorrect == Spec => []SessionsFollowPassword
<1>1. ASSUME Inv PROVE SessionsFollowPassword
  <2>1. ASSUME NEW s \in Live
        PROVE  \/ sess[s].under = acct[sess[s].u].pw
               \/ \E i \in Slots : At(i, "sweep") /\ req[i].u = sess[s].u
               \/ Story(sess[s].u) \cap {"unswept", "reverted", "alias"} # {}
    <3>1. CASE sess[s].under = acct[sess[s].u].pw
      BY <3>1
    <3>2. CASE \E j \in Slots : Sweeps(j, sess[s].u)
      BY <3>2 DEF Sweeps, At
    <3>3. ASSUME NEW what \in {"unswept", "reverted", "alias"}, <<acct[sess[s].u].birth, what>> \in odd
          PROVE  Story(sess[s].u) \cap {"unswept", "reverted", "alias"} # {}
      <4>1. what \in Story(sess[s].u)
        BY <3>3 DEF Story, Stories
      <4> QED BY <4>1
    <3> QED BY <1>1, <3>1, <3>2, <3>3 DEF Inv, Follow
  <2> QED BY <2>1 DEF SessionsFollowPassword
<1> QED BY <1>1, InvCorrect, PTL
=============================================================================
