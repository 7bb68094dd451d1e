SPECIFICATION Spec
CONSTANTS
    None = None
    Tokens = {t1}
    RecoveryTokens = {rt1}
    Challenges = {ch1, ch2}
    IdleTimeout = 1
    RecoveryTtl = 1
    ChallengeTtl = 1
    BackoffDuration = 1
    MaxLoginFailures = 1
    Window = 1
    OptionsMax = 1
    RecoveryMax = 1
    Requests = {r1, r2}
    Credentials = {c1, c2}
    VaultKeys = {v1, v2}
    Endpoints <- RegisterEndpoints
    OverlappingOnboarding = TRUE
    OnboardingCookies = TRUE
    BootstrapToken = TRUE
    Production = TRUE
SYMMETRY Symmetry
INVARIANTS RecoverableOnceRegistered ChallengeSpentOnce
PROPERTY NeverUnregistered
