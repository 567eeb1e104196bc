\* Two threads and two VMs, which either thread may own, share two modules;
\* calls nest three deep, and the count limit is two.
CONSTANTS
    m1 = m1
    m2 = m2
    n1 = n1
    None = None
    Threads = {t1, t2}
    Vms = {v1, v2}
    Modules = {m1, m2}
    Names = {n1}
    Addresses = {a1, a2}
    Imports <- ImportsOf
    Interpreted = {v1}
    Limit = 2
    MaxDepth = 3
SPECIFICATION Spec
INVARIANTS RefsExact NoUseAfterFree ImagesAgree CallsNest
