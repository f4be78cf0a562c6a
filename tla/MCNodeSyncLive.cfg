SPECIFICATION FairSpec
CONSTANTS
    m1 = m1
    m2 = m2
    m3 = m3
    n2 = n2
    n3 = n3
    o2 = o2
    o3 = o3
    s1 = s1
    s2 = s2
    t2 = t2
    u2 = u2
    Zero = Zero
    None = None
    MainBlocks = {m1, m2, m3, n2, n3, o2, o3}
    SideBlocks = {s1, s2, t2, u2}
    main_prev <- mc_main_prev
    main_work <- mc_main_work
    bmm_commitment <- mc_bmm_commitment
    prev_side <- mc_prev_side
    prev_main <- mc_prev_main
    Environments <- mc_restart
    MaxEvents = 1
    MaxTips = 1
PROPERTIES
    MainchainFollowed
CHECK_DEADLOCK FALSE
