\* Two client objects, of which the session may orphan one; one profile; two
\* retries before the cooldown.
CONSTANTS
    Clients = {c1, c2}
    NoClient = NoClient
    Profiles = {p}
    NoProfile = NoProfile
    MaxAttempts = 2
    PreferredBackends = {"unset"}
    FailureThreshold = 2
    Installed = {"ghostty"}
    ProfileBackend <- MCProfileBackend
    Sources <- MCSources
    SectionRequests <- MCSectionRequests
SYMMETRY Symmetry
SPECIFICATION Spec
CHECK_DEADLOCK FALSE
INVARIANTS
  LossIsRetried
  RejectedTokenForgotten
  ProfilesExist
  QaReportHonest
