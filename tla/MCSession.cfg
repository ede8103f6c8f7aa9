\* Two tabs and two users; a session that was there, and three more tokens: both
\* tabs may refresh, and one may log in, or refresh again.
CONSTANTS
    t1 = t1  t2 = t2
    alice = alice  bob = bob
    Tabs = {t1, t2}
    Users = {alice, bob}
    Nobody = Nobody
    FormTabs = {t1}
    Sessions <- MCSessions
    MaxTokens = 4
    MaxFaults = 1
SPECIFICATION FairSpec
INVARIANTS
    TypeOK
    ActsAsShown
    LogoutSticks
PROPERTIES
    SignedOutForAReason
    BootstrapsEnd
CHECK_DEADLOCK FALSE
