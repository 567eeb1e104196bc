\* Two threads share two owners that can hold each other, or one that can hold
\* an immortal owner.
SPECIFICATION FairSpec
CONSTANTS
  Threads = {t1, t2}
  Objects = {o1, o2}
  Statics = {o2}
  Roots = {r1}
  Fields = {f1}
  Limit = 2
  NULL = NULL
INVARIANTS HoldersCounted NoDangling DropOrdered DeadOnce QueueWellFormed
PROPERTIES NoResurrection DrainEnds
