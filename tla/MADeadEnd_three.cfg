SPECIFICATION FairSpec
CONSTANTS
    N = 3
    MaxNew = 1
    MaxVerify = 1
PROPERTIES
    VerificationsEnd
