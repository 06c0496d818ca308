CONSTANTS
    here = here
    there = there
    proxy = proxy
    ann = ann
    bob = bob
    t = t
    r1 = r1
    r2 = r2
    r3 = r3
    r4 = r4
    Requests = {r1, r2, r3, r4}
    Addresses = {here, there, proxy}
    Everyone = Everyone
    TrustedProxies = {proxy}
    Clients = {ann, bob}
    Nobody = Nobody
    Torrents = {t}
    Files = {0, 1}
    Burst <- MCBurst
    CleanupAfter = 2
    MaxDelay = 2
    MaxTime = 4
    Plans <- MCPlans
SPECIFICATION Spec
CHECK_DEADLOCK FALSE
INVARIANTS
    AdmittedWithinBudget
PROPERTIES
    RefusedOnlyOverBudget
    OwnChoiceIsServed
