SPECIFICATION FairSpec
CONSTANTS
    c1 = c1  c2 = c2  s1 = s1  s2 = s2  l1 = l1  l2 = l2  r1 = r1
    t1 = t1  t2 = t2  k1 = k1  k2 = k2
    None = None
    Clients <- MCClients
    SourceSets = {s1}
    Languages = {l1, l2}
    Routes = {r1}
    Models = {m1, m2}
    Taxonomies = {t1}
    Clusters = {k1}
    ClustersOf <- OneCluster
    Verdicts = {"sound"}
    Notes = {n1}
    Dests = {d1}
    MaxRuns = 3
    MaxRevision = 1
    MaxExchanges = 3
INVARIANTS
    TypeOK
    SingleWriter
    ManifestAuthority
    VerifiedOutputIsPublished
PROPERTIES
    LockIsReleased
