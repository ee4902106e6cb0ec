SPECIFICATION CookieSpec
CONSTANTS
    tab1 = tab1
    tab2 = tab2
    tab3 = tab3
    t1 = t1
    t2 = t2
    t3 = t3
    Tabs = {tab1, tab2, tab3}
    Tokens = {t1, t2, t3}
    MaxFlips = 2
SYMMETRY Symmetric
INVARIANTS
    LastResponseDecides
    NoDeadCookie
