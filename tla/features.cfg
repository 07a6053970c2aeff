\* Both CPU feature readers on 468 hosts; each may stop.
SPECIFICATION BothSpec
CHECK_DEADLOCK FALSE
CONSTANTS
    base = base
    sse = sse
    ssse = ssse
    avx2 = avx2
    amx = amx
    keylocker = keylocker
    broken = broken
    g_sse = g_sse
    g_ssse = g_ssse
    g_avx2 = g_avx2
    g_amx = g_amx
    g_kl = g_kl
    g_broken = g_broken
    g_odd = g_odd
    r_sse = r_sse
    r_ssse = r_ssse
    r_avx2 = r_avx2
    r_amx = r_amx
    r_kl = r_kl
    r_klenabled = r_klenabled
    r_broken = r_broken
    r_odd = r_odd
    IsaOrder <- MCIsaOrder
    GroupsOf <- MCGroupsOf
    RecsOf <- MCRecsOf
    CpuidRec <- MCCpuidRec
    KnownRecs <- MCKnownRecs
    MAX_CPUID_GROUPS_PER_ISA_SET = 2
    MAX_CPUID_RECS_PER_GROUP = 2
    RegBits = 2
    Hosts <- MCHosts
    Items <- MCItems
    Atoi <- MCAtoi
    RtmIndex = 3
    OldHosts <- MCHosts
PROPERTIES
    ImplementsReport
    OldImplementsReport
