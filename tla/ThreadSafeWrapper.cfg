SPECIFICATION FairSpec
CONSTANTS
    Thread = {t1, t2, t3}
    Ref = {r1, r2, r3}
    NoRef = NoRef
    Mod = {m1, m2}
    NoMod = NoMod
    Removing = {m2}
    AutoAssign = TRUE
    AutoRelease = TRUE
    Releasable <- LastRemoves
INVARIANT ReadStable
INVARIANT AppliedOnce
INVARIANT NothingForgotten
PROPERTY ModifyReturns
