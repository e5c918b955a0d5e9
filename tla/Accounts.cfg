\* Two setups race, then two admins act on each other; or a password reset and
\* two redemptions of invites race sign-ins and a removal.
SPECIFICATION PartsSpec
CONSTANTS
    Users = {u1, u2}
    Tokens = {t1, t2}
    Calls = {c1, c2}
    Setups = {s1, s2}
    Redeemers = {p1, p2}
    NoUser = NoUser
    NoToken = NoToken
    MaxResets = 1
\* Once every account is removed there is nobody left to act.
CHECK_DEADLOCK FALSE
SYMMETRY Interchangeable
INVARIANTS
    TypeOK
    FirstAdminOnce
    AdminRemains
    ResetEndsAccess
PROPERTIES
    DeadInviteRefused
