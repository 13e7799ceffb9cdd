SPECIFICATION FairSpec
CONSTANTS
    t1 = t1
    t2 = t2
    c1 = c1
    c2 = c2
    k1 = k1
    k2 = k2
    Threads = {t1, t2}
    Clients = {c1, c2}
    Instance <- OneEach
    Credential <- TwoSecrets
    Accepted <- AnyCredential
    NoApi = NoApi
    Tokens = {k1, k2}
    NoToken = NoToken
    Ttls = {1, 4}
    ExpiryBuffer = 2
    Text = {"eu", "a", "p", "s", "s2"}
    Budget = 1
    Never = Never
    MaxTime = 0
PROPERTY DeadTokensDrain
INVARIANT TypeOK
INVARIANT NoCredentialBleed
