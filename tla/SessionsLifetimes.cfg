\* Sign-ins, sign-outs and use, with time passing and a store that fails
SPECIFICATION Spec
CONSTANTS
    q1 = q1
    q2 = q2
    q3 = q3
    ann = ann
    bob = bob
    chrome = chrome
    s0 = s0
    NoId = NoId
    NoUser = NoUser
    Reqs = {q1, q2, q3}
    Users = {ann}
    Earlier = {s0}
    Browsers = {chrome}
    Calls <- AllOps
    StartUser <- AnnWasHere
    StartJar <- JarOfAnn
    Outside = {"time", "faults"}
    Ttl = 2
SYMMETRY ReqSymmetry
INVARIANTS TypeOK IndexCoversSessions SignedOutIsRevoked
\* The system stops when every request is answered and every key has expired.
CHECK_DEADLOCK FALSE
