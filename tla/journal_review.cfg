SPECIFICATION Spec
CONSTANTS
    c1 = c1  c2 = c2  s1 = s1  s2 = s2  l1 = l1  l2 = l2  r1 = r1
    t1 = t1  t2 = t2  k1 = k1  k2 = k2
    None = None
    Clients = {c1}
    SourceSets = {s1, s2}
    Languages = {l1}
    Routes = {r1}
    Models = {m1}
    Taxonomies = {t1, t2}
    Clusters = {k1, k2}
    ClustersOf <- TwoTaxonomies
    Verdicts = {"sound", "unsealable"}
    Notes = {n1}
    Dests = {}
    MaxRuns = 2
    MaxRevision = 2
    MaxExchanges = 4
INVARIANTS
    SealNeverRefused
    PlanUsesLatestCritic
    OfferIsAuthority
PROPERTIES
    AuthoritySpec
