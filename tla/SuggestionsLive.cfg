SPECIFICATION Spec
CONSTANTS
    None = None
    t1 = t1
    t2 = t2
    s1 = s1
    s2 = s2
    d1 = d1
    u1 = u1
    i1 = i1
    n1 = n1
    m1 = m1
    c1 = c1
    c2 = c2
    r1 = r1
PROPERTIES OpenEnds DueIsDrafted DueIsRun
CHECK_DEADLOCK FALSE
