SPECIFICATION FairSpec
CONSTANTS
    a = a  b = b  c = c  d = d  key1 = key1  key2 = key2
    Requests = {a, b, c, d}
    Keys = {key1, key2}
    KeyOf <- TwoAndTwo
    DigestOf <- OneDiffers
    ProviderKeys = {key2}
    SettledKeys = {key2}
    Day = 2
    MaxTime = 3
    Nobody = Nobody
INVARIANTS AtMostOncePerDay ReplayIsOfSameCommand NoStrandedKey
PROPERTY EveryRequestAnswered
CHECK_DEADLOCK FALSE
