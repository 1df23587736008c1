\* Two keys and three requests; two items.
SPECIFICATION WorkersSpec
CONSTANTS
    k1 = k1
    k2 = k2
    Key <- MCKey
    Request = {r1, r2, r3}
    NoKey = NoKey
    Item = {a1, a2}
PROPERTIES
    ImplementsLedger
    EveryRequestIsHandled
    DrainsAreHonestAndReturn
