SPECIFICATION FairSpec
CONSTANTS
    d1 = d1  r1 = r1  q1 = q1  q2 = q2
    Enrolled = {d1}
    Reserved = {r1}
    Passwords = {1, 2}
    Slots = {q1, q2}
    Kinds = {"password", "setKey", "cancel", "revoke", "reauth", "logout", "logoutAll", "delete"}
    MaxChanges = 1
    MaxTokens = 2
INVARIANTS SessionsFollowPassword WaitingMatchesCredentials
PROPERTIES NoTokenComesBack RehashNeverRefusesLogin RecoveryEnds
CHECK_DEADLOCK FALSE
