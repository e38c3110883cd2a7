SPECIFICATION FairSpec
CONSTANTS
    acme = acme
    demo = demo
    alice = alice
    spam = spam
    t1 = t1
    t2 = t2
    NoUser = NoUser
    Slugs = {acme, demo}
    Emails = {alice, spam}
    Disposable = {spam}
    Demo <- DemoKey
    Tasks = {t1, t2}
    Lifetime = 2
    Cooldown = 2
    MaxTime = 4
INVARIANTS
    RowsAreSound
    VerifiedByOwner
    NoLinkIsSecret
    CooldownIsKept
    SessionsAreVerified
PROPERTIES
    AcceptedLinkVerifies
CHECK_DEADLOCK FALSE
