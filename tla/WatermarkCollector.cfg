CONSTANTS
    r1 = r1
    r2 = r2
    r3 = r3
    defender = defender
    route53 = route53
    qualys = qualys
    guardduty = guardduty
    gcp = gcp
    cloudtrail = cloudtrail
    Record = {r1, r2, r3}
    Profile = {defender, route53, qualys, guardduty, gcp}
    Traits <- MCTraits
    PageMax = 1
    MaxPages = 2
    MaxUpdates = 4
    MaxFaults = 1
SPECIFICATION FairSpec

    
PROPERTIES
    WatermarkNeverMovesBack
    
