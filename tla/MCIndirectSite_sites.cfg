\* f and g fit s1 and s2, h fits s3, k halts, c is entered from C only.
CONSTANTS
    f = f
    g = g
    h = h
    k = k
    c = c
    data = data
    s1 = s1
    s2 = s2
    s3 = s3
    Unseen = Unseen
    Generic = Generic
    Sites = {s1, s2, s3}
    Functions = {f, g, h, k, c}
    Halting = {k}
    CEntries = {c}
    Others = {data}
    SiteSignature <- SiteSignatures
    Signature <- Signatures
SPECIFICATION SitesSpec
INVARIANTS StatsAddUp
PROPERTIES CacheTransparent NeverBack
