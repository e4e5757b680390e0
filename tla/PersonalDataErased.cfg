CONSTANTS
    Requests = {x, y, z}
    Phones = {p}
    Emails = {e}
    TokenIds = {s, t}
    OtpIds = {1, 2}
    OtpTtl = 1
    Cooldown = 1
    MaxAttempts = 1
    RefreshTtl = 1
    Horizon = 2
    NoPhone = NoPhone
    NoEmail = NoEmail
    NoOtp = 0
    NoToken = NoToken
SPECIFICATION Spec
SYMMETRY Symmetry
CHECK_DEADLOCK FALSE
INVARIANT
    PersonalDataErased
