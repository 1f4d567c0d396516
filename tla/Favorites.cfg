SPECIFICATION Spec
CONSTANTS
    Tabs <- ThreeTabs
    UserOf <- TwoOfOne
    Users = {"ann", "bob"}
    Videos = {1}
    MaxClicks = 4
INVARIANTS TableOK LogBalances ShownHonest
