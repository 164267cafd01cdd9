\* A counter with two units and two calls at once on one tab, a unit on two tabs,
\* or one checkout on two; the carts of two tabs in two businesses, and in one
\* whose prices change.
SPECIFICATION TerminalSpec
CONSTANTS
    t1 = t1
    t2 = t2
    w1 = w1
    w2 = w2
    u1 = u1
    u2 = u2
    s1 = s1
    s2 = s2
    shop = shop
    annex = annex
    tea = tea
    ink = ink
    Tabs = {t1, t2}
    Units = {u1, u2}
    Sales = {s1, s2}
    NoSale = NoSale
    MaxFinals = 2
    MaxCalls = 2
    Windows = {w1, w2}
    Businesses = {shop, annex}
    NoBusiness = NoBusiness
    Products = {tea, ink}
    Home <- TheHome
    Prices <- ThePrices
    Shelf <- TheShelf
    Discounts <- TheDiscounts
    Fee = 1
INVARIANTS
    TerminalTypeOK
    SecondPendingNeedsSlip
    SoldTwiceNeedsSlip
    FinalizedTwiceNeedsSlip
    QuotedAsStaged
    CartIsOfThisBusiness
CHECK_DEADLOCK FALSE
