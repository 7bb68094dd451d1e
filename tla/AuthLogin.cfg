SPECIFICATION RegisteredFairSpec
CONSTANTS
    None = None
    Tokens = {t1}
    RecoveryTokens = {rt1}
    Challenges = {ch1, ch2}
    IdleTimeout = 2
    RecoveryTtl = 1
    ChallengeTtl = 1
    BackoffDuration = 2
    MaxLoginFailures = 2
    Window = 1
    OptionsMax = 1
    RecoveryMax = 2
    Requests = {r1, r2}
    Credentials = {c1, c2}
    VaultKeys = {v1}
    Endpoints <- SessionEndpoints
    OverlappingOnboarding = FALSE
    OnboardingCookies = FALSE
    BootstrapToken = TRUE
    Production = FALSE
INVARIANTS TypeOK FailuresBounded
PROPERTY BlockEventuallyLifts
