--------------------------- MODULE Accounts_proofs ---------------------------
(***************************************************************************)
(* Proofs about Accounts, for any number of tenants, addresses and         *)
(* handlers, any lifetime and cooldown, and any readings of the clock.     *)
(***************************************************************************)
EXTENDS Accounts, SequenceTheorems, TLAPS

USE DEF At, Exists, TenantExists

-----------------------------------------------------------------------------
(* The inductive invariant *)

\* The columns of a link that still waits to be opened.
Waiting(u) ==
    /\ ~u.verified
    /\ u.hash \in Nat
    /\ u.expires = u.hash + Lifetime
    /\ u.sent \in {Never, u.hash}

\* A link mailed to this user was opened in time.
Confirmed(k) ==
    \E m \in mailbox, o \in opened :
        m.to = k /\ m.token = o.token /\ o.at <= o.token + Lifetime

\* Handlers that have drawn a token for the user.
DrawSteps == {"register", "resend", "mail"}

HandlerAgrees(t) ==
    /\ pc[t] \in DrawSteps \cup {"verify"} => ctx[t].at \in Nat
    /\ pc[t] = "register" => ctx[t].user = Registered(ctx[t].at)
    /\ pc[t] \in {"verify", "resend"} => Exists(ctx[t].key) /\ Waiting(ctx[t].user)
    /\ pc[t] = "resend" => ctx[t].user.hash < ctx[t].at
    /\ pc[t] = "verify" => Confirmed(ctx[t].key)
    /\ pc[t] = "demo" => ctx[t].key = Demo /\ ctx[t].user = DemoUser

HandlersAgree == \A t \in Tasks : HandlerAgrees(t)

USE DEF HandlerAgrees

UsersAgree ==
    \A k \in Keys :
        Exists(k) => /\ ~users[k].verified => Waiting(users[k])
                     /\ users[k].verified /\ k # Demo => Confirmed(k)

\* Where the token n of the user k may be: in the row, in a mail, or with the
\* handler that drew it.
Holds(k, n) ==
    \/ Exists(k) /\ users[k].hash = n
    \/ \E m \in mailbox : m.to = k /\ m.token = n
    \/ \E t \in Tasks : pc[t] \in DrawSteps /\ ctx[t].key = k /\ ctx[t].at = n

\* A token belongs to one user and was drawn in the past.
TokensAreOwn ==
    \A k \in Keys, n \in Nat :
        Holds(k, n) => n <= clock /\ \A other \in Keys : Holds(other, n) => other = k

IInv ==
    /\ TypeOK
    /\ HandlersAgree
    /\ UsersAgree
    /\ TokensAreOwn
    /\ NoLinkIsSecret
    /\ SessionsAreVerified
    /\ TenantHasUser

-----------------------------------------------------------------------------
(* Types *)

LEMMA UserTypes ==
    /\ DemoUser \in User
    /\ \A n \in Nat : Registered(n) \in User
    /\ \A u \in User, n \in Nat : Renewed(u, n) \in User
    /\ \A cur, old, new \in User : Flushed(cur, old, new) \in User
    /\ \A u \in User : Verified(u) \in User
<1>1. DemoUser \in User
  BY DEF DemoUser, User, Time
<1>2. \A n \in Nat : Registered(n) \in User
  BY ConstantsOK DEF Registered, User, Time, Never
<1>3. \A u \in User, n \in Nat : Renewed(u, n) \in User
  <2>1. \A n \in Nat : n \in Time /\ n + Lifetime \in Time
    BY ConstantsOK DEF Time
  <2>2. QED
    BY <2>1 DEF Renewed, User
<1>4. \A cur, old, new \in User : Flushed(cur, old, new) \in User
  BY DEF Flushed, User
<1>5. \A u \in User : Verified(u) \in User
  BY DEF Verified, User, Time
<1>6. QED
  BY <1>1, <1>2, <1>3, <1>4, <1>5

\* Going on, or leaving, changes one handler.
LEMMA Moved ==
    ASSUME TypeOK, NEW t \in Tasks
    PROVE  /\ \A step \in Steps, key \in Keys, at \in Time, user \in User :
                 Goto(t, step, key, at, user) =>
                    /\ pc' \in [Tasks -> Steps] /\ ctx' \in [Tasks -> Locals]
                    /\ pc'[t] = step /\ ctx'[t].key = key /\ ctx'[t].at = at
                    /\ ctx'[t].user = user
                    /\ \A u \in Tasks \ {t} : pc'[u] = pc[u] /\ ctx'[u] = ctx[u]
           /\ Leave(t) =>
                 /\ pc' \in [Tasks -> Steps] /\ ctx' \in [Tasks -> Locals]
                 /\ pc'[t] = "idle"
                 /\ \A u \in Tasks \ {t} : pc'[u] = pc[u] /\ ctx'[u] = ctx[u]
<1>1. ASSUME NEW step \in Steps, NEW key \in Keys, NEW at \in Time, NEW user \in User,
             Goto(t, step, key, at, user)
      PROVE  /\ pc' \in [Tasks -> Steps] /\ ctx' \in [Tasks -> Locals]
             /\ pc'[t] = step /\ ctx'[t].key = key /\ ctx'[t].at = at
             /\ ctx'[t].user = user
             /\ \A u \in Tasks \ {t} : pc'[u] = pc[u] /\ ctx'[u] = ctx[u]
  <2>1. [key |-> key, at |-> at, user |-> user] \in Locals
    BY DEF Locals
  <2>2. QED
    BY <1>1, <2>1 DEF Goto, TypeOK
<1>2. ASSUME Leave(t)
      PROVE  /\ pc' \in [Tasks -> Steps] /\ ctx' \in [Tasks -> Locals]
             /\ pc'[t] = "idle"
             /\ \A u \in Tasks \ {t} : pc'[u] = pc[u] /\ ctx'[u] = ctx[u]
  <2>1. Nothing \in Locals
    BY UserTypes, ConstantsOK DEF Nothing, Locals, Time
  <2>2. "idle" \in Steps
    BY DEF Steps
  <2>3. QED
    BY <1>2, <2>1, <2>2 DEF Leave, TypeOK
<1>3. QED
  BY <1>1, <1>2

LEMMA LocalTypes ==
    ASSUME TypeOK, NEW t \in Tasks
    PROVE  /\ ctx[t].key \in Keys /\ ctx[t].at \in Time /\ ctx[t].user \in User
           /\ pc[t] \in Steps
           /\ Exists(ctx[t].key) => users[ctx[t].key] \in User
           /\ clock \in Nat /\ Now \in Nat /\ Now \in Time /\ Now > clock
BY DEF TypeOK, Locals, Now, Time

\* Rows are never deleted.
LEMMA UsersStay ==
    ASSUME TypeOK, HandlersAgree, [Next]_vars, NEW k \in Keys, Exists(k)
    PROVE  Exists(k)'
<1>1. users \in [Keys -> User \cup {NoUser}] /\ users[k] \in User
  BY DEF TypeOK
<1>2. ASSUME NEW t \in Tasks, InsertAccount(t) PROVE Exists(k)'
  BY <1>1, <1>2 DEF InsertAccount
<1>3. ASSUME NEW t \in Tasks, Verify(t) PROVE Exists(k)'
  <2>1. Flushed(users[k], ctx[t].user, Verified(ctx[t].user)) \in User
    BY <1>1, LocalTypes, UserTypes
  <2>2. QED
    BY <1>1, <1>3, <2>1, NoUserIsNoUser DEF Verify
<1>4. ASSUME NEW t \in Tasks, CommitResend(t) PROVE Exists(k)'
  <2>1. ctx[t].at \in Nat
    BY <1>4 DEF CommitResend, HandlersAgree, DrawSteps
  <2>2. Flushed(users[k], ctx[t].user, Renewed(ctx[t].user, ctx[t].at)) \in User
    BY <1>1, <2>1, LocalTypes, UserTypes
  <2>3. QED
    BY <1>1, <1>4, <2>2, NoUserIsNoUser DEF CommitResend
<1>5. ASSUME NEW t \in Tasks, InsertDemo(t) PROVE Exists(k)'
  BY <1>1, <1>5 DEF InsertDemo
<1>6. CASE UNCHANGED users
  BY <1>6
<1>7. QED
  BY <1>2, <1>3, <1>4, <1>5, <1>6
     DEF Next, Start, Continue, Register, AccountConflict, SendMail, MailFails, OpenLink,
         Resend, Login, DemoLogin, Tick, vars

-----------------------------------------------------------------------------
(* What the two updates write *)

\* An accepted link verifies the row as it is now and keeps its token.
LEMMA VerifyWrites ==
    ASSUME TypeOK, HandlersAgree, NEW t \in Tasks, Verify(t)
    PROVE  /\ Exists(ctx[t].key) /\ ctx[t].key \in Keys
           /\ users' \in [Keys -> User \cup {NoUser}]
           /\ users'[ctx[t].key] \in User
           /\ users'[ctx[t].key].verified
           /\ users'[ctx[t].key].hash = users[ctx[t].key].hash
           /\ users'[ctx[t].key].sent = users[ctx[t].key].sent
           /\ \A k \in Keys : k # ctx[t].key => users'[k] = users[k]
<1> DEFINE old == ctx[t].user
           new == Verified(old)
           cur == users[ctx[t].key]
<1>1. /\ Exists(ctx[t].key) /\ ctx[t].key \in Keys /\ Waiting(old)
      /\ old \in User /\ cur \in User
  BY LocalTypes DEF HandlersAgree, Verify
<1>2. Flushed(cur, old, new) \in User
  BY <1>1, UserTypes
<1>3. new.verified = TRUE /\ new.hash = old.hash /\ new.sent = old.sent
  BY <1>1 DEF Verified, User
<1>4. /\ Flushed(cur, old, new).verified /\ Flushed(cur, old, new).hash = cur.hash
      /\ Flushed(cur, old, new).sent = cur.sent
  BY <1>1, <1>3 DEF Flushed, Waiting
<1>5. users \in [Keys -> User \cup {NoUser}]
  BY DEF TypeOK
<1>6. users' = [users EXCEPT ![ctx[t].key] = Flushed(cur, old, new)]
  BY DEF Verify
<1> HIDE DEF old, new, cur
<1>7. users'[ctx[t].key] = Flushed(cur, old, new)
  BY <1>1, <1>5, <1>6
<1>8. QED
  BY <1>1, <1>2, <1>4, <1>5, <1>6, <1>7 DEF cur

\* A resend writes all three columns of its link, as it drew a later token than
\* the one it had loaded.
LEMMA ResendWrites ==
    ASSUME TypeOK, HandlersAgree, NEW t \in Tasks, CommitResend(t)
    PROVE  /\ Exists(ctx[t].key) /\ ctx[t].key \in Keys /\ ctx[t].at \in Nat
           /\ users' \in [Keys -> User \cup {NoUser}]
           /\ users'[ctx[t].key] \in User
           /\ users'[ctx[t].key].verified = users[ctx[t].key].verified
           /\ users'[ctx[t].key].hash = ctx[t].at
           /\ users'[ctx[t].key].sent = ctx[t].at
           /\ ~users[ctx[t].key].verified => Waiting(users'[ctx[t].key])
           /\ \A k \in Keys : k # ctx[t].key => users'[k] = users[k]
<1> DEFINE old == ctx[t].user
           at  == ctx[t].at
           new == Renewed(old, at)
           cur == users[ctx[t].key]
<1>1. /\ Exists(ctx[t].key) /\ ctx[t].key \in Keys /\ Waiting(old)
      /\ old \in User /\ cur \in User /\ at \in Nat /\ old.hash < at
  BY LocalTypes DEF HandlersAgree, DrawSteps, CommitResend
<1>2. Flushed(cur, old, new) \in User
  BY <1>1, UserTypes
<1>3. /\ new.verified = old.verified /\ new.hash = at
      /\ new.expires = at + Lifetime /\ new.sent = at
  BY <1>1 DEF Renewed, User
<1>4. at # old.hash /\ at + Lifetime # old.expires /\ at # old.sent
  BY <1>1, ConstantsOK DEF Waiting, Never
<1>5. /\ Flushed(cur, old, new).verified = cur.verified
      /\ Flushed(cur, old, new).hash = at
      /\ Flushed(cur, old, new).expires = at + Lifetime
      /\ Flushed(cur, old, new).sent = at
  BY <1>3, <1>4 DEF Flushed
<1>6. ~cur.verified => Waiting(Flushed(cur, old, new))
  BY <1>1, <1>5 DEF Waiting
<1>7. users \in [Keys -> User \cup {NoUser}]
  BY DEF TypeOK
<1>8. users' = [users EXCEPT ![ctx[t].key] = Flushed(cur, old, new)]
  BY DEF CommitResend
<1> HIDE DEF old, new, cur, at
<1>9. users'[ctx[t].key] = Flushed(cur, old, new)
  BY <1>1, <1>7, <1>8
<1>10. QED
  BY <1>1, <1>2, <1>5, <1>6, <1>7, <1>8, <1>9 DEF cur, at

\* A new row: of a registration, or of the demo user.
LEMMA InsertWrites ==
    ASSUME TypeOK, HandlersAgree, NEW t \in Tasks
    PROVE  /\ InsertAccount(t) =>
                 /\ ctx[t].key \in Keys /\ ctx[t].at \in Nat /\ ~Exists(ctx[t].key)
                 /\ users' \in [Keys -> User \cup {NoUser}]
                 /\ users'[ctx[t].key] = Registered(ctx[t].at)
                 /\ Exists(ctx[t].key)'
                 /\ \A k \in Keys : k # ctx[t].key => users'[k] = users[k]
           /\ InsertDemo(t) /\ ~Exists(Demo) =>
                 /\ users' \in [Keys -> User \cup {NoUser}]
                 /\ users'[Demo] = DemoUser /\ Exists(Demo)'
                 /\ \A k \in Keys : k # Demo => users'[k] = users[k]
<1>1. users \in [Keys -> User \cup {NoUser}] /\ ctx[t].key \in Keys
  BY LocalTypes DEF TypeOK
<1>2. ASSUME InsertAccount(t)
      PROVE  /\ ctx[t].at \in Nat /\ ctx[t].user = Registered(ctx[t].at)
             /\ Registered(ctx[t].at) \in User
  BY <1>2, UserTypes DEF InsertAccount, HandlersAgree, DrawSteps
<1>3. ASSUME InsertDemo(t) PROVE ctx[t].user = DemoUser
  BY <1>3 DEF InsertDemo, HandlersAgree
<1>4. DemoUser \in User /\ Demo \in Keys
  BY UserTypes, ConstantsOK
<1>5. ASSUME InsertAccount(t)
      PROVE  /\ ~Exists(ctx[t].key)
             /\ users' \in [Keys -> User \cup {NoUser}]
             /\ users'[ctx[t].key] = Registered(ctx[t].at)
             /\ Exists(ctx[t].key)'
             /\ \A k \in Keys : k # ctx[t].key => users'[k] = users[k]
  <2>1. ~Exists(ctx[t].key) /\ users' = [users EXCEPT ![ctx[t].key] = ctx[t].user]
    BY <1>5 DEF InsertAccount
  <2>2. users'[ctx[t].key] = Registered(ctx[t].at)
    BY <1>1, <1>2, <1>5, <2>1
  <2>3. Exists(ctx[t].key)'
    <3>1. Registered(ctx[t].at) # NoUser
      BY <1>2, <1>5, NoUserIsNoUser
    <3>2. users'[ctx'[t].key] # NoUser
      <4>1. ctx'[t].key = ctx[t].key
        BY <1>1, <1>5 DEF InsertAccount, Goto, TypeOK
      <4>2. QED
        BY <2>2, <3>1, <4>1
    <3>3. QED
      BY <3>2
  <2>4. ctx[t].user \in User
    BY <1>2, <1>5
  <2>5. /\ users' \in [Keys -> User \cup {NoUser}]
        /\ \A k \in Keys : k # ctx[t].key => users'[k] = users[k]
    BY <1>1, <2>1, <2>4
  <2>6. QED
    BY <2>1, <2>2, <2>3, <2>5
<1>6. ASSUME InsertDemo(t), ~Exists(Demo)
      PROVE  /\ users' \in [Keys -> User \cup {NoUser}]
             /\ users'[Demo] = DemoUser /\ Exists(Demo)'
             /\ \A k \in Keys : k # Demo => users'[k] = users[k]
  BY <1>1, <1>3, <1>4, <1>6, NoUserIsNoUser DEF InsertDemo
<1>7. QED
  BY <1>1, <1>2, <1>5, <1>6

-----------------------------------------------------------------------------
(* How handlers move *)

\* A handler that starts, or goes on, and one that leaves; everyone else stays.
Others(t) == \A u \in Tasks \ {t} : pc'[u] = pc[u] /\ ctx'[u] = ctx[u]

LEMMA Starts ==
    ASSUME IInv, NEW t \in Tasks
    PROVE  /\ \A k \in Keys : Register(t, k) =>
                 /\ pc'[t] = "register" /\ ctx'[t].key = k /\ ctx'[t].at = Now
                 /\ ctx'[t].user = Registered(Now) /\ Others(t)
                 /\ pc' \in [Tasks -> Steps] /\ ctx' \in [Tasks -> Locals]
           /\ \A k \in Keys : Resend(t, k) =>
                 /\ pc'[t] = "resend" /\ ctx'[t].key = k /\ ctx'[t].at = Now
                 /\ ctx'[t].user = users[k] /\ Others(t)
                 /\ pc' \in [Tasks -> Steps] /\ ctx' \in [Tasks -> Locals]
           /\ \A m \in mailbox, k \in Keys : OpenLink(t, m, k) =>
                 /\ pc'[t] = "verify" /\ ctx'[t].key = k /\ ctx'[t].at = Now
                 /\ ctx'[t].user = users[k] /\ Others(t)
                 /\ pc' \in [Tasks -> Steps] /\ ctx' \in [Tasks -> Locals]
           /\ DemoLogin(t) =>
                 \/ UNCHANGED <<pc, ctx, clock>>
                 \/ /\ pc'[t] = "demo" /\ ctx'[t].key = Demo
                    /\ ctx'[t].user = DemoUser /\ Others(t) /\ clock' = Now
                    /\ pc' \in [Tasks -> Steps] /\ ctx' \in [Tasks -> Locals]
<1>1. /\ TypeOK /\ Now \in Nat /\ Now \in Time
      /\ Registered(Now) \in User /\ DemoUser \in User /\ Demo \in Keys
      /\ {"register", "resend", "verify", "demo"} \subseteq Steps
  BY LocalTypes, UserTypes, ConstantsOK DEF IInv, Steps
<1>2. \A k \in Keys : Exists(k) => users[k] \in User
  BY <1>1 DEF TypeOK
<1>3. ASSUME NEW k \in Keys, Register(t, k)
      PROVE  /\ pc'[t] = "register" /\ ctx'[t].key = k /\ ctx'[t].at = Now
             /\ ctx'[t].user = Registered(Now) /\ Others(t)
             /\ pc' \in [Tasks -> Steps] /\ ctx' \in [Tasks -> Locals]
  BY <1>1, <1>3, Moved DEF Register, Others
<1>4. ASSUME NEW k \in Keys, Resend(t, k)
      PROVE  /\ pc'[t] = "resend" /\ ctx'[t].key = k /\ ctx'[t].at = Now
             /\ ctx'[t].user = users[k] /\ Others(t)
             /\ pc' \in [Tasks -> Steps] /\ ctx' \in [Tasks -> Locals]
  BY <1>1, <1>2, <1>4, Moved DEF Resend, Others
<1>5. ASSUME NEW m \in mailbox, NEW k \in Keys, OpenLink(t, m, k)
      PROVE  /\ pc'[t] = "verify" /\ ctx'[t].key = k /\ ctx'[t].at = Now
             /\ ctx'[t].user = users[k] /\ Others(t)
             /\ pc' \in [Tasks -> Steps] /\ ctx' \in [Tasks -> Locals]
  BY <1>1, <1>2, <1>5, Moved DEF OpenLink, HasHash, Others
<1>6. ASSUME DemoLogin(t)
      PROVE  \/ UNCHANGED <<pc, ctx, clock>>
             \/ /\ pc'[t] = "demo" /\ ctx'[t].key = Demo
                /\ ctx'[t].user = DemoUser /\ Others(t) /\ clock' = Now
                /\ pc' \in [Tasks -> Steps] /\ ctx' \in [Tasks -> Locals]
  BY <1>1, <1>6, Moved DEF DemoLogin, ReadClock, Others
<1>7. QED
  BY <1>3, <1>4, <1>5, <1>6

\* The steps that end a handler.
Ends(t) ==
    AccountConflict(t) \/ SendMail(t) \/ MailFails(t) \/ Verify(t) \/ InsertDemo(t)

\* The steps that go on to the mail.
Commits(t) == InsertAccount(t) \/ CommitResend(t)

LEMMA Continues ==
    ASSUME IInv, NEW t \in Tasks
    PROVE  /\ Ends(t) =>
                 /\ pc'[t] = "idle" /\ Others(t) /\ UNCHANGED clock
                 /\ pc' \in [Tasks -> Steps] /\ ctx' \in [Tasks -> Locals]
           /\ Commits(t) =>
                 /\ pc[t] \in {"register", "resend"} /\ pc'[t] = "mail"
                 /\ ctx'[t].key = ctx[t].key /\ ctx'[t].at = ctx[t].at
                 /\ Others(t) /\ UNCHANGED clock
                 /\ pc' \in [Tasks -> Steps] /\ ctx' \in [Tasks -> Locals]
<1>1. /\ TypeOK /\ ctx[t].key \in Keys /\ ctx[t].at \in Time /\ ctx[t].user \in User
      /\ "mail" \in Steps
  BY LocalTypes DEF IInv, Steps
<1>2. ASSUME Ends(t)
      PROVE  /\ pc'[t] = "idle" /\ Others(t) /\ UNCHANGED clock
             /\ pc' \in [Tasks -> Steps] /\ ctx' \in [Tasks -> Locals]
  <2>1. Leave(t) /\ UNCHANGED clock
    BY <1>2 DEF Ends, AccountConflict, SendMail, MailFails, Verify, InsertDemo
  <2>2. QED
    BY <1>1, <2>1, Moved DEF Others
<1>3. ASSUME Commits(t)
      PROVE  /\ pc[t] \in {"register", "resend"} /\ pc'[t] = "mail"
             /\ ctx'[t].key = ctx[t].key /\ ctx'[t].at = ctx[t].at
             /\ Others(t) /\ UNCHANGED clock
             /\ pc' \in [Tasks -> Steps] /\ ctx' \in [Tasks -> Locals]
  <2>1. /\ Goto(t, "mail", ctx[t].key, ctx[t].at, ctx[t].user) /\ UNCHANGED clock
        /\ pc[t] \in {"register", "resend"}
    BY <1>3 DEF Commits, InsertAccount, CommitResend
  <2>2. QED
    BY <1>1, <2>1, Moved DEF Others
<1>4. QED
  BY <1>2, <1>3

\* What a step can be.
LEMMA StepKinds ==
    ASSUME [Next]_vars
    PROVE  \/ \E t \in Tasks :
                 \/ \E k \in Keys : Register(t, k) \/ Resend(t, k)
                 \/ \E m \in mailbox, k \in Keys : OpenLink(t, m, k)
                 \/ DemoLogin(t) \/ Ends(t) \/ Commits(t)
           \/ \E k \in Keys : Login(k)
           \/ Tick
           \/ UNCHANGED vars
BY DEF Next, Start, Continue, Ends, Commits

-----------------------------------------------------------------------------
(* Each part of the invariant is preserved *)

LEMMA TypeStep == IInv /\ [Next]_vars => TypeOK'
<1> SUFFICES ASSUME IInv, [Next]_vars PROVE TypeOK'
  OBVIOUS
<1>1. /\ TypeOK /\ HandlersAgree
      /\ tenants \in SUBSET Slugs /\ users \in [Keys -> User \cup {NoUser}]
      /\ pc \in [Tasks -> Steps] /\ ctx \in [Tasks -> Locals] /\ clock \in Nat
      /\ mailbox \in SUBSET [to : Keys, token : Nat] /\ lost \in SUBSET Nat
      /\ opened \in SUBSET [token : Nat, at : Nat] /\ sessions \in SUBSET Keys
      /\ resends \in Seq([key : Keys, at : Nat, done : Nat])
  BY DEF IInv, TypeOK
<1>2. Now \in Nat
  BY <1>1 DEF Now
<1>3. \A k \in Keys : k[1] \in Slugs
  BY DEF Keys
<1>4. ASSUME NEW t \in Tasks, NEW k \in Keys, Register(t, k) \/ Resend(t, k) PROVE TypeOK'
  <2>1. pc' \in [Tasks -> Steps] /\ ctx' \in [Tasks -> Locals]
    BY <1>4, Starts
  <2>2. clock' \in Nat
    BY <1>2, <1>4 DEF Register, Resend, ReadClock
  <2>3. UNCHANGED <<tenants, users, mailbox, lost, opened, sessions, resends>>
    BY <1>4 DEF Register, Resend, hist
  <2>4. QED
    BY <1>1, <2>1, <2>2, <2>3 DEF TypeOK
<1>5. ASSUME NEW t \in Tasks, NEW m \in mailbox, NEW k \in Keys, OpenLink(t, m, k)
      PROVE  TypeOK'
  <2>1. pc' \in [Tasks -> Steps] /\ ctx' \in [Tasks -> Locals]
    BY <1>5, Starts
  <2>2. clock' \in Nat
    BY <1>2, <1>5 DEF OpenLink, ReadClock
  <2>3. opened' \in SUBSET [token : Nat, at : Nat]
    <3>1. m.token \in Nat
      BY <1>1
    <3>2. QED
      BY <1>1, <1>2, <1>5, <3>1 DEF OpenLink
  <2>4. UNCHANGED <<tenants, users, mailbox, lost, sessions, resends>>
    BY <1>5 DEF OpenLink
  <2>5. QED
    BY <1>1, <2>1, <2>2, <2>3, <2>4 DEF TypeOK
<1>6. ASSUME NEW t \in Tasks, DemoLogin(t) PROVE TypeOK'
  <2>1. /\ pc' \in [Tasks -> Steps] /\ ctx' \in [Tasks -> Locals] /\ clock' \in Nat
    BY <1>1, <1>2, <1>6, Starts
  <2>2. sessions' \in SUBSET Keys
    BY <1>1, <1>6, ConstantsOK DEF DemoLogin
  <2>3. UNCHANGED <<tenants, users, mailbox, lost, opened, resends>>
    BY <1>6 DEF DemoLogin
  <2>4. QED
    BY <1>1, <2>1, <2>2, <2>3 DEF TypeOK
<1>7. ASSUME NEW t \in Tasks, Ends(t) PROVE TypeOK'
  <2>1. pc' \in [Tasks -> Steps] /\ ctx' \in [Tasks -> Locals] /\ clock' \in Nat
    BY <1>1, <1>7, Continues
  <2>2. ctx[t].key \in Keys /\ (pc[t] = "mail" => ctx[t].at \in Nat)
    BY <1>1, LocalTypes DEF HandlersAgree, DrawSteps
  <2>3. users' \in [Keys -> User \cup {NoUser}]
    <3>1. CASE Verify(t)
      BY <1>1, <3>1, VerifyWrites
    <3>2. CASE InsertDemo(t)
      BY <1>1, <3>2, InsertWrites DEF InsertDemo
    <3>3. QED
      BY <1>1, <1>7, <3>1, <3>2 DEF Ends, AccountConflict, SendMail, MailFails
  <2>4. /\ mailbox' \in SUBSET [to : Keys, token : Nat]
        /\ lost' \in SUBSET Nat /\ sessions' \in SUBSET Keys
    <3>1. CASE SendMail(t)
      BY <1>1, <2>2, <3>1 DEF SendMail, Mail
    <3>2. CASE MailFails(t)
      BY <1>1, <2>2, <3>2 DEF MailFails
    <3>3. CASE InsertDemo(t)
      BY <1>1, <3>3, ConstantsOK DEF InsertDemo
    <3>4. QED
      BY <1>1, <1>7, <3>1, <3>2, <3>3 DEF Ends, AccountConflict, Verify, hist
  <2>5. UNCHANGED <<tenants, opened, resends>>
    BY <1>7 DEF Ends, AccountConflict, SendMail, MailFails, Verify, InsertDemo, hist
  <2>6. QED
    BY <1>1, <2>1, <2>3, <2>4, <2>5 DEF TypeOK
<1>8. ASSUME NEW t \in Tasks, Commits(t) PROVE TypeOK'
  <2>1. pc' \in [Tasks -> Steps] /\ ctx' \in [Tasks -> Locals] /\ clock' \in Nat
    BY <1>1, <1>8, Continues
  <2>2. ctx[t].key \in Keys /\ ctx[t].at \in Nat
    BY <1>1, <1>8, Continues, LocalTypes DEF HandlersAgree, DrawSteps
  <2>3. CASE InsertAccount(t)
    <3>1. users' \in [Keys -> User \cup {NoUser}]
      BY <1>1, <2>3, InsertWrites
    <3>2. tenants' \in SUBSET Slugs
      BY <1>1, <1>3, <2>2, <2>3 DEF InsertAccount
    <3>3. UNCHANGED <<mailbox, lost, opened, sessions, resends>>
      BY <2>3 DEF InsertAccount, hist
    <3>4. QED
      BY <1>1, <2>1, <3>1, <3>2, <3>3 DEF TypeOK
  <2>4. CASE CommitResend(t)
    <3>1. users' \in [Keys -> User \cup {NoUser}]
      BY <1>1, <2>4, ResendWrites
    <3>2. resends' \in Seq([key : Keys, at : Nat, done : Nat])
      <4>1. [key |-> ctx[t].key, at |-> ctx[t].at, done |-> clock]
               \in [key : Keys, at : Nat, done : Nat]
        BY <1>1, <2>2
      <4>2. QED
        BY <1>1, <2>4, <4>1, AppendProperties DEF CommitResend
    <3>3. UNCHANGED <<tenants, mailbox, lost, opened, sessions>>
      BY <2>4 DEF CommitResend
    <3>4. QED
      BY <1>1, <2>1, <3>1, <3>2, <3>3 DEF TypeOK
  <2>5. QED
    BY <1>8, <2>3, <2>4 DEF Commits
<1>9. ASSUME NEW k \in Keys, Login(k) PROVE TypeOK'
  BY <1>1, <1>9 DEF Login, TypeOK
<1>10. CASE Tick
  BY <1>1, <1>2, <1>10 DEF Tick, ReadClock, hist, TypeOK
<1>11. CASE UNCHANGED vars
  BY <1>1, <1>11 DEF vars, TypeOK
<1>12. QED
  BY <1>4, <1>5, <1>6, <1>7, <1>8, <1>9, <1>10, <1>11, StepKinds

\* Mails and accepted links are kept, so what was confirmed stays so.
LEMMA Remembered ==
    ASSUME [Next]_vars
    PROVE  mailbox \subseteq mailbox' /\ opened \subseteq opened' /\ lost \subseteq lost'
BY DEF Next, Start, Continue, Register, InsertAccount, AccountConflict, SendMail, MailFails,
       OpenLink, Verify, Resend, CommitResend, Login, DemoLogin, InsertDemo, Tick, vars, hist

LEMMA ConfirmedStays ==
    ASSUME [Next]_vars, NEW k, Confirmed(k)
    PROVE  Confirmed(k)'
BY Remembered DEF Confirmed

\* Nobody but the owner of a token can confirm an address with it.
LEMMA OpenedConfirms ==
    ASSUME IInv, NEW t \in Tasks, NEW m \in mailbox, NEW k \in Keys, OpenLink(t, m, k)
    PROVE  Confirmed(k)' /\ Waiting(users[k])
<1>1. /\ TypeOK /\ TokensAreOwn /\ UsersAgree /\ m \in [to : Keys, token : Nat]
  BY DEF IInv, TypeOK
<1>2. /\ Exists(k) /\ users[k].hash = m.token
      /\ ~users[k].verified /\ (users[k].expires = Never \/ users[k].expires >= Now)
      /\ opened' = opened \cup {[token |-> m.token, at |-> Now]}
      /\ mailbox' = mailbox
  BY DEF OpenLink, HasHash, Valid
<1>3. Waiting(users[k])
  BY <1>1, <1>2 DEF UsersAgree
<1>4. m.to = k
  <2>1. m.to \in Keys /\ m.token \in Nat
    BY <1>1
  <2>2. Holds(k, m.token) /\ Holds(m.to, m.token)
    BY <1>2 DEF Holds
  <2>3. QED
    BY <1>1, <2>1, <2>2 DEF TokensAreOwn
<1>5. Now <= m.token + Lifetime
  <2>1. m.token \in Nat /\ Now \in Nat
    BY <1>1, LocalTypes
  <2>2. m.token + Lifetime # Never
    BY <2>1, ConstantsOK DEF Never
  <2>3. QED
    BY <1>2, <1>3, <2>1, <2>2, ConstantsOK DEF Waiting
<1>6. QED
  <2>1. [token |-> m.token, at |-> Now] \in opened' /\ m \in mailbox'
    BY <1>2
  <2>2. QED
    BY <1>3, <1>4, <1>5, <2>1 DEF Confirmed

LEMMA OthersAgree ==
    ASSUME TypeOK, HandlersAgree, [Next]_vars, NEW u \in Tasks,
           pc'[u] = pc[u], ctx'[u] = ctx[u]
    PROVE  HandlerAgrees(u)'
<1>1. ctx[u].key \in Keys
  BY LocalTypes
<1>2. Exists(ctx[u].key) => users'[ctx[u].key] # NoUser
  BY <1>1, UsersStay
<1>3. ASSUME Confirmed(ctx[u].key) PROVE Confirmed(ctx[u].key)'
  BY <1>3, Remembered DEF Confirmed
<1>4. HandlerAgrees(u)
  BY DEF HandlersAgree
<1>5. Exists(ctx[u].key) => Exists(ctx[u].key)'
  BY <1>2
<1>6. QED
  BY <1>3, <1>4, <1>5 DEF Waiting

LEMMA HandlersStep == IInv /\ [Next]_vars => HandlersAgree'
<1> SUFFICES ASSUME IInv, [Next]_vars, NEW u \in Tasks PROVE HandlerAgrees(u)'
  BY DEF HandlersAgree
<1>1. TypeOK /\ HandlersAgree /\ UsersAgree /\ TokensAreOwn /\ Now \in Nat
  BY DEF IInv, TypeOK, Now
<1>2. CASE pc'[u] = pc[u] /\ ctx'[u] = ctx[u]
  BY <1>1, <1>2, OthersAgree
<1>3. ASSUME NEW t \in Tasks, NEW k \in Keys, Register(t, k) PROVE HandlerAgrees(u)'
  <2>1. CASE u = t
    BY <1>1, <1>3, <2>1, Starts DEF DrawSteps
  <2>2. QED
    BY <1>2, <1>3, <2>1, Starts DEF Others
<1>4. ASSUME NEW t \in Tasks, NEW k \in Keys, Resend(t, k) PROVE HandlerAgrees(u)'
  <2>1. CASE u = t
    <3>1. Exists(k) /\ ~users[k].verified /\ users' = users
      BY <1>4 DEF Resend
    <3>2. Waiting(users[k])
      BY <1>1, <3>1 DEF UsersAgree
    <3>3. users[k].hash \in Nat /\ Holds(k, users[k].hash)
      BY <3>1, <3>2 DEF Waiting, Holds
    <3>4. users[k].hash < Now
      BY <1>1, <3>3, LocalTypes DEF TokensAreOwn
    <3>5. /\ pc'[u] = "resend" /\ ctx'[u].key = k /\ ctx'[u].at = Now
          /\ ctx'[u].user = users[k]
      BY <1>4, <2>1, Starts
    <3>6. QED
      BY <1>1, <3>1, <3>2, <3>4, <3>5 DEF DrawSteps, Waiting
  <2>2. QED
    BY <1>2, <1>4, <2>1, Starts DEF Others
<1>5. ASSUME NEW t \in Tasks, NEW m \in mailbox, NEW k \in Keys, OpenLink(t, m, k)
      PROVE  HandlerAgrees(u)'
  <2>1. CASE u = t
    <3>1. Exists(k) /\ users' = users
      BY <1>5 DEF OpenLink, HasHash
    <3>2. Confirmed(k)' /\ Waiting(users[k])
      BY <1>5, OpenedConfirms
    <3>3. /\ pc'[u] = "verify" /\ ctx'[u].key = k /\ ctx'[u].at = Now
          /\ ctx'[u].user = users[k]
      BY <1>5, <2>1, Starts
    <3>4. Confirmed(ctx[u].key)'
      BY <3>2, <3>3 DEF Confirmed
    <3>5. QED
      BY <1>1, <3>1, <3>2, <3>3, <3>4 DEF DrawSteps, Waiting
  <2>2. QED
    BY <1>2, <1>5, <2>1, Starts DEF Others
<1>6. ASSUME NEW t \in Tasks, DemoLogin(t) PROVE HandlerAgrees(u)'
  <2>1. CASE UNCHANGED <<pc, ctx, clock>>
    BY <1>2, <2>1
  <2>2. CASE pc'[t] = "demo" /\ ctx'[t].key = Demo /\ ctx'[t].user = DemoUser /\ Others(t)
    <3>1. CASE u = t
      BY <2>2, <3>1 DEF DrawSteps
    <3>2. QED
      BY <1>2, <2>2, <3>1 DEF Others
  <2>3. QED
    BY <1>6, <2>1, <2>2, Starts
<1>7. ASSUME NEW t \in Tasks, Ends(t) PROVE HandlerAgrees(u)'
  <2>1. CASE u = t
    BY <1>7, <2>1, Continues DEF DrawSteps
  <2>2. QED
    BY <1>2, <1>7, <2>1, Continues DEF Others
<1>8. ASSUME NEW t \in Tasks, Commits(t) PROVE HandlerAgrees(u)'
  <2>1. CASE u = t
    BY <1>1, <1>8, <2>1, Continues DEF DrawSteps, HandlersAgree
  <2>2. QED
    BY <1>2, <1>8, <2>1, Continues DEF Others
<1>9. CASE UNCHANGED <<pc, ctx>>
  BY <1>2, <1>9
<1>10. QED
  BY <1>3, <1>4, <1>5, <1>6, <1>7, <1>8, <1>9, StepKinds DEF Login, Tick, vars

LEMMA UsersStep == IInv /\ [Next]_vars => UsersAgree'
<1> SUFFICES ASSUME IInv, [Next]_vars, NEW k \in Keys, Exists(k)'
             PROVE  /\ ~users'[k].verified => Waiting(users'[k])
                    /\ users'[k].verified /\ k # Demo => Confirmed(k)'
  BY DEF UsersAgree, Waiting
<1>1. TypeOK /\ HandlersAgree /\ UsersAgree
  BY DEF IInv
<1>2. CASE users'[k] = users[k]
  BY <1>1, <1>2, ConfirmedStays DEF UsersAgree
<1>3. CASE users'[k].verified = users[k].verified /\ Exists(k)
           /\ (~users'[k].verified => Waiting(users'[k]))
  BY <1>1, <1>3, ConfirmedStays DEF UsersAgree
<1>4. ASSUME NEW t \in Tasks, Verify(t)
      PROVE  \/ users'[k] = users[k]
             \/ users'[k].verified /\ Confirmed(k)'
  <2>1. CASE k = ctx[t].key
    <3>1. Confirmed(k)
      BY <1>1, <1>4, <2>1 DEF Verify, HandlersAgree
    <3>2. QED
      BY <1>1, <1>4, <2>1, <3>1, VerifyWrites, ConfirmedStays
  <2>2. QED
    BY <1>1, <1>4, <2>1, VerifyWrites
<1>5. ASSUME NEW t \in Tasks, CommitResend(t)
      PROVE  \/ users'[k] = users[k]
             \/ /\ users'[k].verified = users[k].verified /\ Exists(k)
                /\ (~users'[k].verified => Waiting(users'[k]))
  BY <1>1, <1>5, ResendWrites
<1>6. ASSUME NEW t \in Tasks, InsertAccount(t)
      PROVE  \/ users'[k] = users[k]
             \/ ~users'[k].verified /\ Waiting(users'[k])
  <2>1. \A n \in Nat : ~Registered(n).verified /\ Waiting(Registered(n))
    BY DEF Registered, Waiting
  <2>2. QED
    BY <1>1, <1>6, <2>1, InsertWrites
<1>7. ASSUME NEW t \in Tasks, InsertDemo(t)
      PROVE  \/ users'[k] = users[k]
             \/ k = Demo /\ users'[k].verified
  <2>1. CASE Exists(Demo)
    BY <1>7, <2>1 DEF InsertDemo
  <2>2. CASE ~Exists(Demo)
    BY <1>1, <1>7, <2>2, InsertWrites DEF DemoUser
  <2>3. QED
    BY <2>1, <2>2
<1>8. CASE users' = users
  BY <1>2, <1>8
<1>9. QED
  <2>1. CASE \E t \in Tasks : Verify(t)
    BY <1>2, <1>4, <2>1
  <2>2. CASE \E t \in Tasks : CommitResend(t)
    BY <1>2, <1>3, <1>5, <2>2
  <2>3. CASE \E t \in Tasks : InsertAccount(t)
    BY <1>2, <1>6, <2>3
  <2>4. CASE \E t \in Tasks : InsertDemo(t)
    BY <1>2, <1>7, <2>4
  <2>5. QED
    BY <1>8, <2>1, <2>2, <2>3, <2>4
       DEF Next, Start, Continue, Register, AccountConflict, SendMail, MailFails, OpenLink,
           Resend, Login, DemoLogin, Tick, vars

\* A step that reads the clock moves it by one; nothing else does.
LEMMA ClockStep ==
    ASSUME TypeOK, [Next]_vars
    PROVE  clock' \in Nat /\ clock' >= clock
<1>1. clock' = clock \/ clock' = Now
  BY DEF ReadClock, Next, Start, Continue, Register, InsertAccount, AccountConflict,
         SendMail, MailFails, OpenLink, Verify, Resend, CommitResend, Login, DemoLogin,
         InsertDemo, Tick, vars
<1>2. QED
  BY <1>1 DEF TypeOK, Now

\* A token is drawn with the time, for one user; otherwise tokens only move.
LEMMA Drawn ==
    ASSUME IInv, [Next]_vars
    PROVE  \/ \A k \in Keys, n \in Nat : Holds(k, n)' => Holds(k, n)
           \/ /\ clock' = Now
              /\ \E owner \in Keys : \A k \in Keys, n \in Nat :
                    Holds(k, n)' => Holds(k, n) \/ (k = owner /\ n = Now)
<1>1. TypeOK /\ HandlersAgree /\ Now \in Nat
  BY DEF IInv, TypeOK, Now
<1>2. ASSUME NEW t \in Tasks, NEW owner \in Keys, Register(t, owner) \/ Resend(t, owner),
             NEW k \in Keys, NEW n \in Nat, Holds(k, n)'
      PROVE  Holds(k, n) \/ (k = owner /\ n = Now)
  <2>1. ctx'[t].key = owner /\ ctx'[t].at = Now /\ Others(t)
    BY <1>2, Starts
  <2>2. users' = users /\ mailbox' = mailbox
    BY <1>2 DEF Register, Resend, hist
  <2>3. QED
    BY <1>2, <2>1, <2>2 DEF Holds, Others
<1>3. ASSUME NEW t \in Tasks,
             \/ \E m \in mailbox, k \in Keys : OpenLink(t, m, k)
             \/ DemoLogin(t),
             NEW k \in Keys, NEW n \in Nat, Holds(k, n)'
      PROVE  Holds(k, n)
  <2>1. \/ UNCHANGED <<pc, ctx>>
        \/ pc'[t] \notin DrawSteps /\ Others(t)
    BY <1>3, Starts DEF DrawSteps
  <2>2. users' = users /\ mailbox' = mailbox
    BY <1>3 DEF OpenLink, DemoLogin
  <2>3. QED
    BY <1>3, <2>1, <2>2 DEF Holds, Others
<1>4. ASSUME NEW t \in Tasks, Ends(t), NEW k \in Keys, NEW n \in Nat, Holds(k, n)'
      PROVE  Holds(k, n)
  <2>1. pc'[t] \notin DrawSteps /\ Others(t)
    BY <1>4, Continues DEF DrawSteps
  <2>2. Exists(k)' /\ users'[k].hash = n => Exists(k) /\ users[k].hash = n
    <3>1. CASE Verify(t)
      BY <1>1, <3>1, VerifyWrites
    <3>2. CASE InsertDemo(t)
      <4>1. DemoUser.hash # n
        BY DEF DemoUser, Never
      <4>2. CASE Exists(Demo)
        BY <3>2, <4>2 DEF InsertDemo
      <4>3. CASE ~Exists(Demo)
        BY <1>1, <3>2, <4>1, <4>3, InsertWrites
      <4>4. QED
        BY <4>2, <4>3
    <3>3. QED
      BY <1>4, <3>1, <3>2 DEF Ends, AccountConflict, SendMail, MailFails
  <2>3. ASSUME NEW m \in mailbox', m.to = k, m.token = n
        PROVE  Holds(k, n)
    <3>1. CASE m \in mailbox
      BY <2>3, <3>1 DEF Holds
    <3>2. CASE m \notin mailbox
      <4>1. SendMail(t) /\ m = Mail(ctx[t].key, ctx[t].at)
        BY <1>4, <2>3, <3>2
           DEF Ends, AccountConflict, SendMail, MailFails, Verify, InsertDemo, hist
      <4>2. pc[t] = "mail" /\ ctx[t].key = k /\ ctx[t].at = n
        BY <2>3, <4>1 DEF SendMail, Mail
      <4>3. QED
        BY <4>2 DEF Holds, DrawSteps
    <3>3. QED
      BY <3>1, <3>2
  <2>4. QED
    BY <1>4, <2>1, <2>2, <2>3 DEF Holds, Others
<1>5. ASSUME NEW t \in Tasks, Commits(t), NEW k \in Keys, NEW n \in Nat, Holds(k, n)'
      PROVE  Holds(k, n)
  <2>1. /\ pc[t] \in DrawSteps /\ Others(t)
        /\ ctx'[t].key = ctx[t].key /\ ctx'[t].at = ctx[t].at
    BY <1>5, Continues DEF DrawSteps
  <2>2. mailbox' = mailbox
    BY <1>5 DEF Commits, InsertAccount, CommitResend, hist
  <2>3. CASE Exists(k)' /\ users'[k].hash = n
    <3>1. CASE k = ctx[t].key
      <4>1. users'[k].hash = ctx[t].at
        <5>1. \A a \in Nat : Registered(a).hash = a
          BY DEF Registered
        <5>2. QED
          BY <1>1, <1>5, <3>1, <5>1, InsertWrites, ResendWrites DEF Commits
      <4>2. QED
        BY <2>1, <2>3, <3>1, <4>1 DEF Holds
    <3>2. CASE k # ctx[t].key
      BY <1>1, <1>5, <2>3, <3>2, InsertWrites, ResendWrites DEF Commits, Holds
    <3>3. QED
      BY <3>1, <3>2
  <2>4. QED
    BY <1>5, <2>1, <2>2, <2>3 DEF Holds, Others
<1>6. ASSUME UNCHANGED <<users, pc, ctx, mailbox>>, NEW k \in Keys, NEW n \in Nat, Holds(k, n)'
      PROVE  Holds(k, n)
  BY <1>6 DEF Holds
<1>7. CASE \E t \in Tasks, owner \in Keys : Register(t, owner) \/ Resend(t, owner)
  BY <1>2, <1>7 DEF Register, Resend, ReadClock
<1>8. QED
  <2>1. CASE \E k \in Keys : Login(k)
    BY <1>6, <2>1 DEF Login
  <2>2. CASE Tick \/ UNCHANGED vars
    BY <1>6, <2>2 DEF Tick, hist, vars
  <2>3. QED
    BY <1>3, <1>4, <1>5, <1>7, <2>1, <2>2, StepKinds

LEMMA TokensStep == IInv /\ [Next]_vars => TokensAreOwn'
<1> SUFFICES ASSUME IInv, [Next]_vars, NEW k \in Keys, NEW n \in Nat, Holds(k, n)'
             PROVE  n <= clock' /\ \A other \in Keys : Holds(other, n)' => other = k
  BY DEF TokensAreOwn
<1>1. TypeOK /\ TokensAreOwn /\ clock \in Nat /\ Now \in Nat /\ Now > clock
  BY DEF IInv, TypeOK, Now
<1>2. clock' \in Nat /\ clock' >= clock
  BY <1>1, ClockStep
<1>3. CASE \A p \in Keys, q \in Nat : Holds(p, q)' => Holds(p, q)
  BY <1>1, <1>2, <1>3 DEF TokensAreOwn
<1>4. ASSUME clock' = Now, NEW owner \in Keys,
             \A p \in Keys, q \in Nat : Holds(p, q)' => Holds(p, q) \/ (p = owner /\ q = Now)
      PROVE  n <= clock' /\ \A other \in Keys : Holds(other, n)' => other = k
  BY <1>1, <1>2, <1>4 DEF TokensAreOwn
<1>5. QED
  BY <1>3, <1>4, Drawn

\* Whoever knows the token of a row that is not verified keeps knowing it.
Known(k, n) ==
    \/ Mail(k, n) \in mailbox
    \/ n \in lost
    \/ \E t \in Tasks : At(t, "mail") /\ ctx[t].key = k /\ ctx[t].at = n

LEMMA KnownStays ==
    ASSUME IInv, [Next]_vars, NEW k \in Keys, NEW n \in Nat, Known(k, n)
    PROVE  Known(k, n)'
<1>1. Mail(k, n) \in mailbox \/ n \in lost => Known(k, n)'
  BY Remembered DEF Known, Mail
<1>2. ASSUME NEW u \in Tasks, pc[u] = "mail", ctx[u].key = k, ctx[u].at = n
      PROVE  Known(k, n)'
  <2>1. CASE pc'[u] = pc[u] /\ ctx'[u] = ctx[u]
    BY <1>2, <2>1 DEF Known
  <2>2. ASSUME NEW t \in Tasks, NEW j \in Keys, Register(t, j) \/ Resend(t, j)
        PROVE  u # t /\ Others(t)
    BY <1>2, <2>2, Starts DEF Register, Resend
  <2>3. ASSUME NEW t \in Tasks, NEW m \in mailbox, NEW j \in Keys, OpenLink(t, m, j)
        PROVE  u # t /\ Others(t)
    BY <1>2, <2>3, Starts DEF OpenLink
  <2>4. ASSUME NEW t \in Tasks, DemoLogin(t)
        PROVE  UNCHANGED <<pc, ctx>> \/ (u # t /\ Others(t))
    BY <1>2, <2>4, Starts DEF DemoLogin
  <2>5. ASSUME NEW t \in Tasks, Ends(t)
        PROVE  Known(k, n)' \/ (u # t /\ Others(t))
    <3>1. CASE u = t
      BY <1>2, <2>5, <3>1
         DEF Ends, AccountConflict, SendMail, MailFails, Verify, InsertDemo, Known
    <3>2. QED
      BY <2>5, <3>1, Continues
  <2>6. ASSUME NEW t \in Tasks, Commits(t)
        PROVE  u # t /\ Others(t)
    BY <1>2, <2>6, Continues
  <2>7. CASE UNCHANGED <<pc, ctx>>
    BY <2>1, <2>7
  <2>8. CASE \E t \in Tasks : u # t /\ Others(t)
    BY <2>1, <2>8 DEF Others
  <2>9. QED
    BY <2>2, <2>3, <2>4, <2>5, <2>6, <2>7, <2>8, StepKinds DEF Login, Tick, vars
<1>3. QED
  BY <1>1, <1>2 DEF Known

LEMMA SecretStep == IInv /\ [Next]_vars => NoLinkIsSecret'
<1> SUFFICES ASSUME IInv, [Next]_vars, NEW k \in Keys, Exists(k)', ~users'[k].verified,
                    NEW n, n = users'[k].hash
             PROVE  Known(k, n)'
  BY DEF NoLinkIsSecret, Known
<1>1. TypeOK /\ HandlersAgree /\ UsersAgree /\ NoLinkIsSecret
  BY DEF IInv
<1>2. CASE users'[k] = users[k]
  <2>1. n \in Nat
    BY <1>1, <1>2 DEF UsersAgree, Waiting
  <2>2. Known(k, n)
    BY <1>1, <1>2 DEF NoLinkIsSecret, Known
  <2>3. QED
    BY <2>1, <2>2, KnownStays
<1>3. ASSUME NEW t \in Tasks, Verify(t) PROVE users'[k] = users[k]
  BY <1>1, <1>3, VerifyWrites
<1>4. ASSUME NEW t \in Tasks, Commits(t) PROVE users'[k] = users[k] \/ Known(k, n)'
  <2>1. CASE k = ctx[t].key
    <3>1. n = ctx[t].at
      <4>1. \A a \in Nat : Registered(a).hash = a
        BY DEF Registered
      <4>2. QED
        BY <1>1, <1>4, <2>1, <4>1, InsertWrites, ResendWrites DEF Commits
    <3>2. pc'[t] = "mail" /\ ctx'[t].key = k /\ ctx'[t].at = n
      BY <1>4, <2>1, <3>1, Continues
    <3>3. QED
      BY <3>2 DEF Known
  <2>2. QED
    BY <1>1, <1>4, <2>1, InsertWrites, ResendWrites DEF Commits
<1>5. ASSUME NEW t \in Tasks, InsertDemo(t) PROVE users'[k] = users[k]
  BY <1>1, <1>5, InsertWrites DEF InsertDemo, DemoUser
<1>6. CASE users' = users
  BY <1>2, <1>6
<1>7. QED
  <2>1. CASE \E t \in Tasks : Verify(t) \/ Commits(t) \/ InsertDemo(t)
    BY <1>2, <1>3, <1>4, <1>5, <2>1
  <2>2. QED
    BY <1>6, <2>1
       DEF Next, Start, Continue, Register, AccountConflict, SendMail, MailFails, OpenLink,
           Resend, Login, DemoLogin, Tick, vars, Commits

\* A verified user stays one.
LEMMA VerifiedStays ==
    ASSUME IInv, [Next]_vars, NEW k \in Keys, Exists(k)
    PROVE  Exists(k)' /\ (users[k].verified => users'[k].verified)
<1>1. TypeOK /\ HandlersAgree
  BY DEF IInv
<1>2. Exists(k)'
  BY <1>1, UsersStay
<1>3. ASSUME NEW t \in Tasks, Verify(t) PROVE users[k].verified => users'[k].verified
  BY <1>1, <1>3, VerifyWrites
<1>4. ASSUME NEW t \in Tasks, CommitResend(t) PROVE users[k].verified => users'[k].verified
  BY <1>1, <1>4, ResendWrites
<1>5. ASSUME NEW t \in Tasks, InsertAccount(t) PROVE users'[k] = users[k]
  BY <1>1, <1>5, InsertWrites
<1>6. ASSUME NEW t \in Tasks, InsertDemo(t) PROVE users'[k] = users[k]
  BY <1>1, <1>6, InsertWrites DEF InsertDemo
<1>7. CASE users' = users
  BY <1>2, <1>7
<1>8. users[k].verified => users'[k].verified
  <2>1. CASE \E t \in Tasks : Verify(t) \/ CommitResend(t) \/ InsertAccount(t) \/ InsertDemo(t)
    BY <1>3, <1>4, <1>5, <1>6, <2>1
  <2>2. QED
    BY <1>7, <2>1
       DEF Next, Start, Continue, Register, AccountConflict, SendMail, MailFails, OpenLink,
           Resend, Login, DemoLogin, Tick, vars
<1>9. QED
  BY <1>2, <1>8

LEMMA SessionsStep == IInv /\ [Next]_vars => SessionsAreVerified'
<1> SUFFICES ASSUME IInv, [Next]_vars, NEW k \in sessions'
             PROVE  Exists(k)' /\ (k = Demo \/ users'[k].verified)
  BY DEF SessionsAreVerified
<1>1. TypeOK /\ HandlersAgree /\ SessionsAreVerified /\ sessions \in SUBSET Keys /\ Demo \in Keys
  BY ConstantsOK DEF IInv, TypeOK
<1>2. CASE k \in sessions
  BY <1>1, <1>2, VerifiedStays DEF SessionsAreVerified
<1>3. CASE Login(k)
  BY <1>3 DEF Login, MayLogIn
<1>4. ASSUME NEW t \in Tasks, DemoLogin(t), k \notin sessions
      PROVE  k = Demo /\ Exists(k)'
  BY <1>4 DEF DemoLogin
<1>5. ASSUME NEW t \in Tasks, InsertDemo(t), k \notin sessions
      PROVE  k = Demo /\ Exists(k)'
  BY <1>1, <1>5, InsertWrites DEF InsertDemo
<1>6. QED
  <2>1. CASE \E t \in Tasks : DemoLogin(t) \/ InsertDemo(t)
    BY <1>2, <1>4, <1>5, <2>1
  <2>2. CASE \E j \in Keys : Login(j)
    BY <1>2, <1>3, <2>2 DEF Login
  <2>3. CASE UNCHANGED sessions
    BY <1>2, <2>3
  <2>4. QED
    BY <2>1, <2>2, <2>3
       DEF Next, Start, Continue, Register, InsertAccount, AccountConflict, SendMail, MailFails,
           OpenLink, Verify, Resend, CommitResend, Tick, vars, hist

LEMMA TenantStep == IInv /\ [Next]_vars => TenantHasUser'
<1> SUFFICES ASSUME IInv, [Next]_vars, NEW s \in tenants'
             PROVE  \E e \in Emails : users'[<<s, e>>] # NoUser
  BY DEF TenantHasUser
<1>1. TypeOK /\ HandlersAgree /\ TenantHasUser /\ tenants \in SUBSET Slugs
  BY DEF IInv, TypeOK
<1>2. CASE s \in tenants
  <2>1. PICK e \in Emails : users[<<s, e>>] # NoUser
    BY <1>1, <1>2 DEF TenantHasUser
  <2>2. <<s, e>> \in Keys
    BY <1>1, <1>2 DEF Keys
  <2>3. users'[<<s, e>>] # NoUser
    BY <1>1, <2>1, <2>2, UsersStay
  <2>4. QED
    BY <2>3
<1>3. ASSUME NEW t \in Tasks, InsertAccount(t), s \notin tenants
      PROVE  \E e \in Emails : users'[<<s, e>>] # NoUser
  <2>1. ctx[t].key \in Keys /\ users'[ctx[t].key] = Registered(ctx[t].at)
    BY <1>1, <1>3, InsertWrites
  <2>2. ctx[t].key[1] = s /\ ctx[t].at \in Nat
    BY <1>1, <1>3, InsertWrites DEF InsertAccount
  <2>3. Registered(ctx[t].at) # NoUser
    BY <2>2, UserTypes, NoUserIsNoUser
  <2>4. PICK e \in Emails : ctx[t].key = <<s, e>>
    BY <2>1, <2>2 DEF Keys
  <2>5. QED
    BY <2>1, <2>3, <2>4
<1>4. CASE UNCHANGED tenants
  BY <1>2, <1>4
<1>5. QED
  BY <1>2, <1>3, <1>4
     DEF Next, Start, Continue, Register, AccountConflict, SendMail, MailFails, OpenLink,
         Verify, Resend, CommitResend, Login, DemoLogin, InsertDemo, Tick, vars

-----------------------------------------------------------------------------
(* The cooldown *)

\* The resends of a user that had committed by then, and the last of them.
Before(list, k, then) == {i \in DOMAIN list : list[i].key = k /\ list[i].done < then}
LastOf(S, i)    == i \in S /\ \A h \in S : h <= i

CooledSince(list, k, at) ==
    \A i \in DOMAIN list : LastOf(Before(list, k, at), i) => at - list[i].at >= Cooldown

\* A resend commits after it was drawn, to a row that stays.
ResendsArePast ==
    \A i \in DOMAIN resends :
        /\ resends[i].at <= resends[i].done /\ resends[i].done <= clock
        /\ Exists(resends[i].key)

\* The row remembers the last resend, also once the user is verified.
SentIsLast ==
    \A k \in Keys, i \in DOMAIN resends :
        LastOf(Before(resends, k, Now), i) => users[k].sent = resends[i].at

\* A handler between its load and its commit has checked the cooldown against every
\* resend that had committed when it drew its token.
HandlersCooled ==
    \A t \in Tasks : pc[t] = "resend" => CooledSince(resends, ctx[t].key, ctx[t].at)

EntriesCooled ==
    \A j \in DOMAIN resends : CooledSince(resends, resends[j].key, resends[j].at)

CoolInv == ResendsArePast /\ SentIsLast /\ HandlersCooled /\ EntriesCooled

LEMMA ResendTypes ==
    ASSUME TypeOK
    PROVE  /\ clock \in Nat
           /\ DOMAIN resends \subseteq Nat
           /\ \A i \in DOMAIN resends :
                 resends[i].key \in Keys /\ resends[i].at \in Nat /\ resends[i].done \in Nat
<1>1. resends \in Seq([key : Keys, at : Nat, done : Nat])
  BY DEF TypeOK
<1>2. DOMAIN resends = 1 .. Len(resends) /\ Len(resends) \in Nat
  BY <1>1, LenProperties
<1>3. \A i \in DOMAIN resends : resends[i] \in [key : Keys, at : Nat, done : Nat]
  BY <1>1, ElementOfSeq, <1>2
<1> QED
  BY <1>2, <1>3 DEF TypeOK

\* A step that resends nothing and leaves what rows remember.
LEMMA CoolStays ==
    ASSUME IInv, CoolInv, TypeOK', UNCHANGED resends,
           \A k \in Keys : Exists(k) => users'[k] # NoUser /\ users'[k].sent = users[k].sent,
           clock' >= clock,
           \A t \in Tasks : pc'[t] = "resend" =>
               \/ pc[t] = "resend" /\ ctx'[t].key = ctx[t].key /\ ctx'[t].at = ctx[t].at
               \/ CooledSince(resends, ctx'[t].key, ctx'[t].at)
    PROVE  CoolInv'
<1>1. /\ clock \in Nat /\ clock' \in Nat
      /\ \A i \in DOMAIN resends :
            resends[i].key \in Keys /\ resends[i].at \in Nat /\ resends[i].done \in Nat
  BY ResendTypes DEF IInv, TypeOK
<1>2. ResendsArePast'
  BY <1>1 DEF CoolInv, ResendsArePast
<1>3. SentIsLast'
  <2> SUFFICES ASSUME NEW k \in Keys, NEW i \in DOMAIN resends,
                      LastOf(Before(resends', k, Now'), i)
               PROVE  users'[k].sent = resends[i].at
    BY DEF SentIsLast, LastOf
  <2>1. Before(resends', k, Now') = Before(resends, k, Now)
    BY <1>1 DEF Before, Now, CoolInv, ResendsArePast
  <2>2. Exists(k) /\ users[k].sent = resends[i].at
    BY <2>1 DEF CoolInv, SentIsLast, LastOf, Before, ResendsArePast
  <2> QED
    BY <2>2
<1>4. HandlersCooled' /\ EntriesCooled'
  BY DEF CoolInv, HandlersCooled, EntriesCooled
<1> QED
  BY <1>2, <1>3, <1>4 DEF CoolInv

\* A resend begins: all that committed are behind it, and the row names the last.
LEMMA ResendIsCooled ==
    ASSUME IInv, CoolInv, NEW t \in Tasks, NEW k \in Keys, Resend(t, k)
    PROVE  CooledSince(resends, k, Now)
<1>1. /\ clock \in Nat
      /\ \A i \in DOMAIN resends : resends[i].at \in Nat
  BY ResendTypes DEF IInv
<1> SUFFICES ASSUME NEW i \in DOMAIN resends, LastOf(Before(resends, k, Now), i)
             PROVE  Now - resends[i].at >= Cooldown
  BY DEF CooledSince
<1>2. users[k].sent = resends[i].at
  BY DEF CoolInv, SentIsLast
<1>3. users[k].sent # Never
  BY <1>1, <1>2 DEF Never
<1> QED
  BY <1>2, <1>3 DEF Resend, Cooled

LEMMA CommitKeepsCool ==
    ASSUME IInv, CoolInv, TypeOK', NEW t \in Tasks, CommitResend(t)
    PROVE  CoolInv'
<1> DEFINE n == Len(resends)
           k == ctx[t].key
           e == [key |-> k, at |-> ctx[t].at, done |-> clock]
<1>1. /\ TypeOK /\ HandlersAgree /\ TokensAreOwn /\ clock \in Nat
      /\ resends \in Seq([key : Keys, at : Nat, done : Nat])
      /\ \A i \in DOMAIN resends :
            resends[i].key \in Keys /\ resends[i].at \in Nat /\ resends[i].done \in Nat
  BY ResendTypes DEF IInv, TypeOK
<1>2. /\ Exists(k) /\ k \in Keys /\ ctx[t].at \in Nat
      /\ users'[k] \in User /\ users'[k].sent = ctx[t].at
      /\ \A other \in Keys : other # k => users'[other] = users[other]
  BY <1>1, ResendWrites
<1>3. pc[t] = "resend" /\ clock' = clock /\ resends' = Append(resends, e)
  BY DEF CommitResend
<1>4. ctx[t].at <= clock
  BY <1>1, <1>2, <1>3 DEF TokensAreOwn, Holds, DrawSteps
<1>5. /\ n \in Nat /\ DOMAIN resends = 1 .. n /\ DOMAIN resends' = 1 .. n + 1
      /\ resends'[n + 1] = e
      /\ \A i \in 1 .. n : resends'[i] = resends[i]
  <2>1. e \in [key : Keys, at : Nat, done : Nat]
    BY <1>1, <1>2
  <2> QED
    BY <1>1, <1>3, <2>1, LenProperties, AppendProperties
<1>6. ASSUME NEW other, NEW at \in Nat, at <= clock
      PROVE  Before(resends', other, at) = Before(resends, other, at)
  <2>1. ~(e.done < at)
    BY <1>1, <1>6
  <2> HIDE DEF e, n
  <2> QED
    BY <1>5, <2>1 DEF Before
<1>7. ASSUME NEW other, NEW at \in Nat, at <= clock, CooledSince(resends, other, at)
      PROVE  CooledSince(resends', other, at)
  <2> SUFFICES ASSUME NEW i \in DOMAIN resends', LastOf(Before(resends, other, at), i)
               PROVE  at - resends'[i].at >= Cooldown
    BY <1>6, <1>7 DEF CooledSince, LastOf
  <2>1. i \in DOMAIN resends /\ resends'[i] = resends[i]
    BY <1>5 DEF LastOf, Before
  <2> QED
    BY <1>7, <2>1 DEF CooledSince
<1> HIDE DEF n
<1>8. ResendsArePast'
  <2> SUFFICES ASSUME NEW i \in 1 .. n + 1
               PROVE  /\ resends'[i].at <= resends'[i].done /\ resends'[i].done <= clock
                      /\ users'[resends'[i].key] # NoUser
    BY <1>3, <1>5 DEF ResendsArePast
  <2>1. \A other \in Keys : Exists(other) => users'[other] # NoUser
    BY <1>2, NoUserIsNoUser
  <2>2. CASE i \in 1 .. n
    BY <1>1, <1>5, <2>1, <2>2 DEF CoolInv, ResendsArePast
  <2>3. CASE i = n + 1
    BY <1>1, <1>2, <1>4, <1>5, <2>1, <2>3
  <2> QED
    BY <1>5, <2>2, <2>3
<1>9. SentIsLast'
  <2> SUFFICES ASSUME NEW other \in Keys, NEW i \in 1 .. n + 1,
                      LastOf(Before(resends', other, Now'), i)
               PROVE  users'[other].sent = resends'[i].at
    BY <1>5 DEF SentIsLast, LastOf
  <2>1. CASE other = k
    <3>1. n + 1 \in Before(resends', k, Now')
      BY <1>1, <1>3, <1>5 DEF Before, Now
    <3>2. i = n + 1
      BY <1>5, <2>1, <3>1 DEF LastOf
    <3> QED
      BY <1>2, <1>5, <2>1, <3>2
  <2>2. CASE other # k
    <3>1. Before(resends', other, Now') = Before(resends, other, Now)
      BY <1>3, <1>5, <2>2 DEF Before, Now
    <3>2. i \in DOMAIN resends /\ resends'[i] = resends[i]
      BY <1>5, <3>1 DEF LastOf, Before
    <3>3. users[other].sent = resends[i].at
      BY <3>1, <3>2 DEF CoolInv, SentIsLast, LastOf
    <3> QED
      BY <1>2, <2>2, <3>2, <3>3
  <2> QED
    BY <2>1, <2>2
<1>10. HandlersCooled'
  <2> SUFFICES ASSUME NEW u \in Tasks, pc'[u] = "resend"
               PROVE  CooledSince(resends', ctx'[u].key, ctx'[u].at)
    BY DEF HandlersCooled
  <2>1. pc[u] = "resend" /\ ctx'[u] = ctx[u]
    BY <1>1, Continues DEF Commits, Others
  <2>2. ctx[u].at \in Nat /\ ctx[u].at <= clock /\ CooledSince(resends, ctx[u].key, ctx[u].at)
    <3>1. ctx[u].at \in Nat /\ ctx[u].key \in Keys
      BY <1>1, <2>1, LocalTypes DEF HandlersAgree, DrawSteps
    <3>2. Holds(ctx[u].key, ctx[u].at)
      BY <2>1 DEF Holds, DrawSteps
    <3> QED
      BY <1>1, <2>1, <3>1, <3>2 DEF TokensAreOwn, CoolInv, HandlersCooled
  <2> QED
    BY <1>7, <2>1, <2>2
<1>11. EntriesCooled'
  <2> SUFFICES ASSUME NEW j \in 1 .. n + 1
               PROVE  CooledSince(resends', resends'[j].key, resends'[j].at)
    BY <1>5 DEF EntriesCooled
  <2>1. CASE j \in 1 .. n
    <3>1. /\ resends'[j] = resends[j] /\ resends[j].at \in Nat /\ resends[j].at <= clock
          /\ CooledSince(resends, resends[j].key, resends[j].at)
      <4>1. j \in DOMAIN resends /\ resends'[j] = resends[j]
        BY <1>5, <2>1
      <4>2. resends[j].at <= resends[j].done /\ resends[j].done <= clock
        BY <4>1 DEF CoolInv, ResendsArePast
      <4>3. CooledSince(resends, resends[j].key, resends[j].at)
        BY <4>1 DEF CoolInv, EntriesCooled
      <4> QED
        BY <1>1, <4>1, <4>2, <4>3
    <3> QED
      BY <1>7, <3>1
  <2>2. CASE j = n + 1
    <3>1. CooledSince(resends, k, ctx[t].at)
      BY <1>3 DEF CoolInv, HandlersCooled
    <3>2. resends'[j].key = k /\ resends'[j].at = ctx[t].at
      BY <1>5, <2>2
    <3> QED
      BY <1>2, <1>4, <1>7, <3>1, <3>2
  <2> QED
    BY <1>5, <2>1, <2>2
<1> QED
  BY <1>8, <1>9, <1>10, <1>11 DEF CoolInv

LEMMA CoolStep == IInv /\ CoolInv /\ [Next]_vars => CoolInv'
<1> SUFFICES ASSUME IInv, CoolInv, [Next]_vars
             PROVE  CoolInv'
  OBVIOUS
<1>1. TypeOK' /\ TypeOK /\ HandlersAgree /\ clock \in Nat
  BY TypeStep DEF IInv, TypeOK
<1>2. ASSUME NEW t \in Tasks, CommitResend(t) PROVE CoolInv'
  BY <1>1, <1>2, CommitKeepsCool
<1>3. CASE ~\E t \in Tasks : CommitResend(t)
  <2>1. UNCHANGED resends
    BY <1>3 DEF Next, Start, Continue, Register, InsertAccount, AccountConflict, SendMail,
       MailFails, OpenLink, Verify, Resend, Login, DemoLogin, InsertDemo, Tick, vars, hist
  <2>2. clock' >= clock
    BY <1>1, ClockStep
  <2>3. ASSUME NEW k \in Keys, Exists(k)
        PROVE  users'[k] # NoUser /\ users'[k].sent = users[k].sent
    <3>1. ASSUME NEW t \in Tasks, InsertAccount(t) PROVE users'[k] = users[k]
      BY <1>1, <2>3, <3>1, InsertWrites
    <3>2. ASSUME NEW t \in Tasks, Verify(t)
          PROVE  users'[k] # NoUser /\ users'[k].sent = users[k].sent
      BY <1>1, <2>3, <3>2, VerifyWrites, NoUserIsNoUser
    <3>3. ASSUME NEW t \in Tasks, InsertDemo(t) PROVE users'[k] = users[k]
      BY <1>1, <2>3, <3>3, InsertWrites DEF InsertDemo
    <3>4. CASE UNCHANGED users
      BY <2>3, <3>4
    <3> QED
      BY <1>3, <2>3, <3>1, <3>2, <3>3, <3>4
         DEF Next, Start, Continue, Register, AccountConflict, SendMail, MailFails, OpenLink,
             Resend, Login, DemoLogin, Tick, vars
  <2>4. ASSUME NEW t \in Tasks, pc'[t] = "resend"
        PROVE  \/ pc[t] = "resend" /\ ctx'[t].key = ctx[t].key /\ ctx'[t].at = ctx[t].at
               \/ CooledSince(resends, ctx'[t].key, ctx'[t].at)
    <3>1. ASSUME NEW u \in Tasks,
                 \/ \E k \in Keys : Register(u, k) \/ Resend(u, k)
                 \/ \E m \in mailbox, k \in Keys : OpenLink(u, m, k)
                 \/ DemoLogin(u) \/ Ends(u) \/ Commits(u)
          PROVE  \/ pc[t] = "resend" /\ ctx'[t] = ctx[t]
                 \/ CooledSince(resends, ctx'[t].key, ctx'[t].at)
      <4>1. CASE u # t
        BY <2>4, <3>1, <4>1, Starts, Continues DEF Others
      <4>2. CASE u = t
        <5>1. ASSUME NEW k \in Keys, Resend(t, k)
              PROVE  CooledSince(resends, ctx'[t].key, ctx'[t].at)
          BY <5>1, Starts, ResendIsCooled
        <5> QED
          BY <2>4, <3>1, <4>2, <5>1, Starts, Continues
      <4> QED
        BY <4>1, <4>2
    <3>2. CASE UNCHANGED <<pc, ctx>>
      BY <2>4, <3>2
    <3> QED
      BY <3>1, <3>2, StepKinds DEF Login, Tick, vars
  <2> QED
    BY <1>1, <2>1, <2>2, <2>3, <2>4, CoolStays
<1> QED
  BY <1>2, <1>3

-----------------------------------------------------------------------------
(* Theorems *)

LEMMA InitSound == Init => IInv
<1> SUFFICES ASSUME Init PROVE IInv
  OBVIOUS
<1>1. \A k \in Keys : ~Exists(k)
  BY DEF Init
<1>2. \A k \in Keys, n \in Nat : ~Holds(k, n)
  BY <1>1 DEF Holds, DrawSteps, Init
<1>3. TypeOK
  <2>1. Nothing \in Locals
    BY UserTypes, ConstantsOK DEF Nothing, Locals, Time
  <2>2. QED
    BY <2>1, EmptySeq DEF Init, TypeOK, Steps
<1>4. HandlersAgree
  BY DEF HandlersAgree, Init, DrawSteps
<1>5. UsersAgree /\ NoLinkIsSecret
  BY <1>1 DEF UsersAgree, NoLinkIsSecret
<1>6. TokensAreOwn
  BY <1>2 DEF TokensAreOwn
<1>7. SessionsAreVerified /\ TenantHasUser
  BY DEF SessionsAreVerified, TenantHasUser, Init
<1>8. QED
  BY <1>3, <1>4, <1>5, <1>6, <1>7 DEF IInv

LEMMA Inductive == Spec => []IInv
<1>1. IInv /\ [Next]_vars => IInv'
  BY TypeStep, HandlersStep, UsersStep, TokensStep, SecretStep, SessionsStep, TenantStep
     DEF IInv
<1>2. QED
  BY <1>1, InitSound, PTL DEF Spec

\* The rows of tenants and users have their types, every tenant has a user,
\* and the columns of a link that waits to be opened belong together, however
\* registrations, verifications and resends overlap.
THEOREM RowsSound == Spec => []RowsAreSound
<1>1. IInv => RowsAreSound
  BY DEF IInv, RowsAreSound, UsersAgree, Waiting, LinkColumnsAgree
<1>2. QED
  BY <1>1, Inductive, PTL

\* Every verified user, the demo user's apart, opened a link that was mailed to
\* this very user, within its lifetime.
THEOREM VerifiedByOwnerCorrect == Spec => []VerifiedByOwner
<1>1. IInv => VerifiedByOwner
  BY DEF IInv, VerifiedByOwner, UsersAgree, Confirmed
<1>2. QED
  BY <1>1, Inductive, PTL

\* The link that works for an unverified user has been mailed, is about to be,
\* or its mail failed.
THEOREM LinksKnown == Spec => []NoLinkIsSecret
<1>1. IInv => NoLinkIsSecret
  BY DEF IInv
<1>2. QED
  BY <1>1, Inductive, PTL

\* No handler takes back the verification of a user who has been let in.
THEOREM SessionsCorrect == Spec => []SessionsAreVerified
<1>1. IInv => SessionsAreVerified
  BY DEF IInv
<1>2. QED
  BY <1>1, Inductive, PTL
\* A resend that began after others of its user had committed keeps the cooldown
\* from the last of them, however the handlers overlap (resend_verification reads
\* the column before its await and writes it after).
THEOREM CooldownCorrect == Spec => []CooldownIsKept
<1>1. Init => CoolInv
  BY EmptySeq DEF Init, CoolInv, ResendsArePast, SentIsLast, HandlersCooled, EntriesCooled,
     CooledSince, Before, LastOf
<1>2. IInv /\ CoolInv => CooldownIsKept
  <2> SUFFICES ASSUME IInv, CoolInv, NEW j \in DOMAIN resends,
                      NEW i \in Before(resends, resends[j].key, resends[j].at),
                      \A h \in Before(resends, resends[j].key, resends[j].at) : h <= i
               PROVE  resends[j].at - resends[i].at >= Cooldown
    BY DEF CooldownIsKept, Before
  <2> QED
    BY DEF CoolInv, EntriesCooled, CooledSince, LastOf, Before
<1>3. QED
  BY <1>1, <1>2, CoolStep, Inductive, PTL DEF Spec

=============================================================================
