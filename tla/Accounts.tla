------------------------------ MODULE Accounts ------------------------------
(***************************************************************************)
(* Accounts of all tenants: registration, verification of the e-mail       *)
(* address by a mailed link, resending of the link with a cooldown, login  *)
(* and demo login.                                                         *)
(*                                                                         *)
(* As in FileExtraction an action is the code between two awaits, an       *)
(* object is the row as its session loaded it, and a flush writes the      *)
(* columns that were changed in memory.  A mail may stay unread for any    *)
(* time, so mails are delivered in any order.  A process that dies is a    *)
(* handler that takes no further step.                                     *)
(*                                                                         *)
(* Reading the clock advances it: no two handlers read the same time, and  *)
(* a link's token is named by the time at which it was drawn.              *)
(***************************************************************************)
EXTENDS Integers, Sequences

CONSTANTS
    Slugs,       \* tenant slugs
    Emails,      \* addresses
    Disposable,  \* those whose domain is on the block list
    Demo,        \* slug and address of the demo user
    Tasks,       \* request handlers in flight
    Lifetime,    \* of a link
    Cooldown,    \* between two resends
    MaxTime,     \* bound: readings and ticks of the clock
    NoUser

Keys == Slugs \X Emails      \* uq_users_tenant_email
Never == -1                  \* a null timestamp or token hash

ASSUME ConstantsOK ==
    /\ Demo \in Keys
    /\ Disposable \subseteq Emails
    /\ Lifetime \in Nat \ {0}
    /\ Cooldown \in Nat \ {0}
    /\ MaxTime \in Nat

VARIABLES
    tenants,   \* slugs in the tenants table
    users,     \* [Keys -> row of users, or NoUser]
    pc,        \* [Tasks -> where the handler is]
    ctx,       \* [Tasks -> the handler's locals]
    clock,
    mailbox,   \* links that were sent: to whom, and the token
    lost,      \* history: tokens whose mail could not be sent
    opened,    \* history: tokens that a handler accepted, and when
    sessions,  \* keys for which a login has returned a JWT
    resends    \* history: committed resends, in this order

vars == <<tenants, users, pc, ctx, clock, mailbox, lost, opened, sessions, resends>>
hist == <<mailbox, lost, opened, sessions, resends>>

-----------------------------------------------------------------------------
(* Rows *)

Time == Nat \cup {Never}

User == [hash : Time, expires : Time, sent : Time, verified : BOOLEAN]

ASSUME NoUserIsNoUser == NoUser \notin User

TenantExists(slug) == slug \in tenants

Exists(k) == users[k] # NoUser

Registered(at) == [hash |-> at, expires |-> at + Lifetime, sent |-> Never, verified |-> FALSE]
DemoUser == [hash |-> Never, expires |-> Never, sent |-> Never, verified |-> TRUE]

\* What if a flush wrote every column, or forgot one?
FlushedWhole(cur, old, new) == new
FlushedNoExpiry(cur, old, new) == [new EXCEPT !.expires = cur.expires]

\* The row after a flush of the object old, changed in memory to new.
Flushed(cur, old, new) ==
    [hash     |-> IF new.hash     # old.hash     THEN new.hash     ELSE cur.hash,
     expires  |-> IF new.expires  # old.expires  THEN new.expires  ELSE cur.expires,
     sent     |-> IF new.sent     # old.sent     THEN new.sent     ELSE cur.sent,
     verified |-> IF new.verified # old.verified THEN new.verified ELSE cur.verified]

Locals == [key : Keys, at : Time, user : User]

Nothing == [key |-> Demo, at |-> Never, user |-> DemoUser]

Steps == {"idle", "register", "verify", "resend", "mail", "demo"}

TypeOK ==
    /\ tenants \in SUBSET Slugs
    /\ users \in [Keys -> User \cup {NoUser}]
    /\ pc \in [Tasks -> Steps]
    /\ ctx \in [Tasks -> Locals]
    /\ clock \in Nat
    /\ mailbox \in SUBSET [to : Keys, token : Nat]
    /\ lost \in SUBSET Nat
    /\ opened \in SUBSET [token : Nat, at : Nat]
    /\ sessions \in SUBSET Keys
    /\ resends \in Seq([key : Keys, at : Nat, done : Nat])

-----------------------------------------------------------------------------
(* Steps of a handler *)

At(t, step) == pc[t] = step

\* datetime.now() returns the new value of the clock.
Now == clock + 1
ReadClock == clock < MaxTime /\ clock' = Now

Goto(t, step, key, at, user) ==
    /\ pc' = [pc EXCEPT ![t] = step]
    /\ ctx' = [ctx EXCEPT ![t] = [key |-> key, at |-> at, user |-> user]]

Leave(t) ==
    /\ pc' = [pc EXCEPT ![t] = "idle"]
    /\ ctx' = [ctx EXCEPT ![t] = Nothing]

-----------------------------------------------------------------------------
(* POST /auth/register *)

Blocked(email) == email \in Disposable

\* The address is accepted and the slug is free.  (Otherwise the handler
\* answers 422 or 409 and changes nothing.)
Register(t, k) ==
    /\ At(t, "idle")
    /\ ~Blocked(k[2])
    /\ ~TenantExists(k[1])
    /\ ReadClock
    /\ Goto(t, "register", k, Now, Registered(Now))
    /\ UNCHANGED <<tenants, users, hist>>

\* Tenant and user are flushed and committed together.
InsertAccount(t) ==
    /\ At(t, "register")
    /\ ~TenantExists(ctx[t].key[1])
    /\ ~Exists(ctx[t].key)
    /\ tenants' = tenants \cup {ctx[t].key[1]}
    /\ users' = [users EXCEPT ![ctx[t].key] = ctx[t].user]
    /\ Goto(t, "mail", ctx[t].key, ctx[t].at, ctx[t].user)
    /\ UNCHANGED <<clock, hist>>

\* The slug, or the user, was inserted by another handler in the meantime: the
\* IntegrityError rolls both back.
AccountConflict(t) ==
    /\ At(t, "register")
    /\ TenantExists(ctx[t].key[1]) \/ Exists(ctx[t].key)
    /\ Leave(t)
    /\ UNCHANGED <<tenants, users, clock, hist>>

-----------------------------------------------------------------------------
(* The mail of a registration or a resend, sent after its commit *)

Mail(key, token) == [to |-> key, token |-> token]

SendMail(t) ==
    /\ At(t, "mail")
    /\ mailbox' = mailbox \cup {Mail(ctx[t].key, ctx[t].at)}
    /\ Leave(t)
    /\ UNCHANGED <<tenants, users, clock, lost, opened, sessions, resends>>

\* What if a failed send left no trace of the token?
MailForgotten(t) ==
    /\ At(t, "mail")
    /\ Leave(t)
    /\ UNCHANGED <<tenants, users, clock, hist>>

\* The sender raised: logged and swallowed.
MailFails(t) ==
    /\ At(t, "mail")
    /\ lost' = lost \cup {ctx[t].at}
    /\ Leave(t)
    /\ UNCHANGED <<tenants, users, clock, mailbox, opened, sessions, resends>>

-----------------------------------------------------------------------------
(* POST /auth/verify-email *)

\* What if any link opened any account?
HasAnyHash(k, n) == Exists(k) /\ users[k].hash # Never

\* get_by_verification_token_hash: the hash stays in the row after its use.
HasHash(k, n) == Exists(k) /\ users[k].hash = n

Valid(user, now) == ~user.verified /\ (user.expires = Never \/ user.expires >= now)

\* An unknown, used or expired link is answered without a change.
OpenLink(t, m, k) ==
    /\ At(t, "idle")
    /\ m \in mailbox
    /\ HasHash(k, m.token)
    /\ ReadClock
    /\ Valid(users[k], Now)
    /\ opened' = opened \cup {[token |-> m.token, at |-> Now]}
    /\ Goto(t, "verify", k, Now, users[k])
    /\ UNCHANGED <<tenants, users, mailbox, lost, sessions, resends>>

Verified(user) == [user EXCEPT !.verified = TRUE, !.expires = Never]

\* What if the link had to be current when the verification is written?
VerifyCurrent(t) ==
    /\ At(t, "verify")
    /\ users' = [users EXCEPT ![ctx[t].key].verified = @ \/ users[ctx[t].key].hash = ctx[t].user.hash]
    /\ Leave(t)
    /\ UNCHANGED <<tenants, clock, hist>>

Verify(t) ==
    /\ At(t, "verify")
    /\ users' = [users EXCEPT ![ctx[t].key] =
                    Flushed(@, ctx[t].user, Verified(ctx[t].user))]
    /\ Leave(t)
    /\ UNCHANGED <<tenants, clock, hist>>

-----------------------------------------------------------------------------
(* POST /auth/resend-verification *)

\* What if the cooldown were over at once?
CooledAtOnce(user, now) == TRUE

Cooled(user, now) == user.sent = Never \/ now - user.sent >= Cooldown

\* (A verified or unknown user is answered "sent", a hot one 429.)
Resend(t, k) ==
    /\ At(t, "idle")
    /\ Exists(k)
    /\ ~users[k].verified
    /\ ReadClock
    /\ Cooled(users[k], Now)
    /\ Goto(t, "resend", k, Now, users[k])
    /\ UNCHANGED <<tenants, users, hist>>

Renewed(user, at) == [user EXCEPT !.hash = at, !.expires = at + Lifetime, !.sent = at]

CommitResend(t) ==
    /\ At(t, "resend")
    /\ users' = [users EXCEPT ![ctx[t].key] =
                    Flushed(@, ctx[t].user, Renewed(ctx[t].user, ctx[t].at))]
    /\ resends' = Append(resends, [key |-> ctx[t].key, at |-> ctx[t].at, done |-> clock])
    /\ Goto(t, "mail", ctx[t].key, ctx[t].at, ctx[t].user)
    /\ UNCHANGED <<tenants, clock, mailbox, lost, opened, sessions>>

-----------------------------------------------------------------------------
(* POST /auth/login with the right password, POST /auth/demo-login *)

MayLogIn(k) == Exists(k) /\ users[k].verified

Login(k) ==
    /\ MayLogIn(k)
    /\ sessions' = sessions \cup {k}
    /\ UNCHANGED <<tenants, users, pc, ctx, clock, mailbox, lost, opened, resends>>

\* The demo user exists: no password, no verification is asked for.
DemoLogin(t) ==
    /\ At(t, "idle")
    /\ \/ /\ Exists(Demo)
          /\ sessions' = sessions \cup {Demo}
          /\ UNCHANGED <<pc, ctx, clock>>
       \/ /\ ~Exists(Demo)
          /\ ReadClock
          /\ Goto(t, "demo", Demo, Now, DemoUser)
          /\ UNCHANGED sessions
    /\ UNCHANGED <<tenants, users, mailbox, lost, opened, resends>>

\* The demo user is inserted without a row in tenants.  When another handler
\* was faster the IntegrityError is not handled: 500.
InsertDemo(t) ==
    /\ At(t, "demo")
    /\ \/ /\ ~Exists(Demo)
          /\ users' = [users EXCEPT ![Demo] = ctx[t].user]
          /\ sessions' = sessions \cup {Demo}
       \/ /\ Exists(Demo)
          /\ UNCHANGED <<users, sessions>>
    /\ Leave(t)
    /\ UNCHANGED <<tenants, clock, mailbox, lost, opened, resends>>

-----------------------------------------------------------------------------
(* Specification *)

Tick == ReadClock /\ UNCHANGED <<tenants, users, pc, ctx, hist>>

Init ==
    /\ tenants = {}
    /\ users = [k \in Keys |-> NoUser]
    /\ pc = [t \in Tasks |-> "idle"]
    /\ ctx = [t \in Tasks |-> Nothing]
    /\ clock = 0
    /\ mailbox = {} /\ lost = {} /\ opened = {} /\ sessions = {}
    /\ resends = <<>>

Continue(t) ==
    \/ InsertAccount(t) \/ AccountConflict(t)
    \/ SendMail(t) \/ MailFails(t)
    \/ Verify(t) \/ CommitResend(t) \/ InsertDemo(t)

Start(t) ==
    \/ \E k \in Keys : Register(t, k) \/ Resend(t, k)
    \/ \E m \in mailbox, k \in Keys : OpenLink(t, m, k)
    \/ DemoLogin(t)

Next ==
    \/ \E t \in Tasks : Start(t) \/ Continue(t)
    \/ \E k \in Keys : Login(k)
    \/ Tick

Spec == Init /\ [][Next]_vars

\* The event loop resumes every handler whose await is over; users ask for
\* nothing in particular.
FairSpec == Spec /\ \A t \in Tasks : WF_vars(Continue(t))

-----------------------------------------------------------------------------
(* Properties *)

\* The address of every verified user, the demo user's apart, was confirmed
\* with a link mailed to exactly this user: a token that replaced another, or
\* belongs to the same address in another tenant, opens nothing else.  The link
\* was opened within the time its mail promises, which counts from the drawing
\* of the token, not from the delivery of the mail.
VerifiedByOwner ==
    \A k \in Keys \ {Demo} :
        Exists(k) /\ users[k].verified =>
            \E m \in mailbox, o \in opened :
                m.to = k /\ m.token = o.token /\ o.at <= o.token + Lifetime

\* The link that works for an unverified user is in the mailbox, about to be
\* sent, or its mail failed: overlapping resends never leave a row with a token
\* that nobody was told.
NoLinkIsSecret ==
    \A k \in Keys :
        Exists(k) /\ ~users[k].verified =>
            \/ Mail(k, users[k].hash) \in mailbox
            \/ users[k].hash \in lost
            \/ \E t \in Tasks : At(t, "mail") /\ ctx[t].key = k /\ ctx[t].at = users[k].hash

\* The columns of a link belong together, whatever handlers overlapped: it
\* expires its lifetime after it was drawn, and the cooldown runs from it.
LinkColumnsAgree ==
    \A k \in Keys :
        Exists(k) /\ ~users[k].verified =>
            /\ users[k].expires = users[k].hash + Lifetime
            /\ users[k].sent \in {Never, users[k].hash}

\* A resend that started after others of the same user had committed keeps the
\* cooldown from the last of them.
CooldownIsKept ==
    \A j \in DOMAIN resends :
        LET before == {i \in DOMAIN resends : /\ resends[i].key = resends[j].key
                                              /\ resends[i].done < resends[j].at}
        IN  \A i \in before :
                (\A h \in before : h <= i) => resends[j].at - resends[i].at >= Cooldown

\* A slug is never taken without a user who can log in under it.
TenantHasUser == \A s \in tenants : \E e \in Emails : Exists(<<s, e>>)

\* The rows are sound: their types, a user for every tenant, and the columns of
\* each link.
RowsAreSound == TypeOK /\ TenantHasUser /\ LinkColumnsAgree

\* Whoever was let in is a verified user, also later: no handler that works on
\* an object loaded before the verification takes it back.  (The demo login
\* asks for no verification.)
SessionsAreVerified ==
    \A k \in sessions : Exists(k) /\ (k = Demo \/ users[k].verified)

\* A verification that was accepted is written, also when a resend replaces the
\* link before it commits.
AcceptedLinkVerifies ==
    \A t \in Tasks, k \in Keys :
        (At(t, "verify") /\ ctx[t].key = k) ~> (Exists(k) /\ users[k].verified)
=============================================================================
