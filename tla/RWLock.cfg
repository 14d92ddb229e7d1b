SPECIFICATION FairSpec
CONSTANT Threads = {t1, t2, t3}
INVARIANTS TypeOK Exclusion Accounting
PROPERTIES UpgradeIsolated AbsSpec BidsServed
