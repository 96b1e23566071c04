CONSTANTS
    p1 = p1
    p2 = p2
    tm1 = tm1
    tm2 = tm2
    ctp1 = ctp1
    web = web
    job = job
    nsA = nsA
    nsB = nsB
    Unbound = Unbound
    NoCR = NoCR
    NoSpec = NoSpec
    Pods = {p1, p2}
    Labels = {web, job}
    Monitors = {tm1, tm2}
    Policies = {ctp1}
    Namespace <- MCNamespace
    Rank <- MCRank
    CRSpecs <- MCCRSpecs
    Boots <- MCBoots
    SampleSize = 1
    MaxChanges = 1
    MaxFaults = 1

SPECIFICATION Spec

INVARIANT ObservedGenerationApplied
INVARIANT SilentOverlapIsHarmless
PROPERTY ObservedGenerationGrows
PROPERTY StatusConverges
