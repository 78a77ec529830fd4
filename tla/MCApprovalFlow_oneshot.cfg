CONSTANTS
    admin = admin
    visitor = visitor
    t1 = t1
    mail = mail
    calc = calc
    c1 = c1
    d1 = d1
    d2 = d2
    Users = {admin, visitor}
    Threads = {t1}
    Requests = {c1, d1, d2}
    Tools = {mail, calc}
    HighRisk = {mail}
    MaxCalls = 2
    MaxFaults = 0
    CanExecute <- MCCanExecute
    Offered <- MCOffered
SPECIFICATION Spec
INVARIANT
    OneShot
