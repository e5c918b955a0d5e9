\* Two reissues of one account at once.
SPECIFICATION Spec
CONSTANTS
    Users = {u1}
    Tokens = {t1, t2}
    Calls = {c1, c2}
    Setups = {s1}
    Redeemers = {p1}
    NoUser = NoUser
    NoToken = NoToken
    MaxResets = 0
INVARIANTS
    OneLiveInvite
