SPECIFICATION FairSpec
CONSTANTS
    n1 = n1
    n2 = n2
    e1 = e1
    NoUpload = NoUpload
    Uploads <- MCUploads
    Nios <- MCNios
    Scans = {c1, c2}
INVARIANTS ScannedFileRemoved
