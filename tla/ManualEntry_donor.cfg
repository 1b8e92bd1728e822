SPECIFICATION Spec
CONSTANTS
    Contacts = {ann}
    Short = {}
    Details = {blank, full}
    Blank = blank
    Incomplete = {blank}
    Donors = {d1}
    Directory <- Unknown
    Slots = {s1}
    MaxRequests = 1
    None = None
INVARIANT ShownDonorGetsTheGift
