\* Accounts that are deactivated and taken back while requests run
SPECIFICATION Spec
CONSTANTS
    q1 = q1
    q2 = q2
    q3 = q3
    ann = ann
    bob = bob
    chrome = chrome
    s0 = s0
    NoId = NoId
    NoUser = NoUser
    Reqs = {q1, q2, q3}
    Users = {ann, bob}
    Earlier = {s0}
    Browsers = {chrome}
    Calls <- AllOps
    StartUser <- AnnWasHere
    StartJar <- JarOfAnn
    Outside = {"accounts", "cookies"}
    Ttl = 1
SYMMETRY ReqSymmetry
INVARIANTS ServedWhileActive
