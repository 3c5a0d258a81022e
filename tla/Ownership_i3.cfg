SPECIFICATION Spec
CONSTANTS
    c1 = c1  c2 = c2  p1 = p1  p2 = p2  p3 = p3
    t1 = t1  t2 = t2  r1 = r1  r2 = r2  n1 = n1  n2 = n2
    Contracts = {c1}
    Publishers = {p1, p2}
    Transfers = {t1}
    Requests = {r1, r2}
    Nonces = {n1}
    MinTtl = 1
    MaxTtl = 1
    BatchSize = 1
    FirstOwner <- MCFirstOwner
    None = None
    MaxTime = 2
PROPERTIES
NeverCompletedPastDue
