CONSTANTS
    Calls = {c1, c2, c3}
    Accounts = {u1}
    FirstUsers <- Ana
    Requests <- AllRequests
    Usernames = {ana, bea}
    Emails = {anaMail, beaMail}
    Passwords = {old, new}
    Stores = {north, south}
    None = None
    ana = ana
    bea = bea
    anaMail = anaMail
    beaMail = beaMail
    old = old
    new = new
    north = north
    south = south
    u1 = u1
SYMMETRY Symmetry
SPECIFICATION HistorySpec
INVARIANTS
    AccountsDistinct
    TokensWereDeserved
PROPERTIES
    NoStaleBeyondTheCall
