SPECIFICATION Spec
CHECK_DEADLOCK FALSE
SYMMETRY UserSymmetry
CONSTANTS
    Users = {u1}
    Taps = {t1, t2}
    Editors = {e1}
    Legacy = "laundry"
    Forms <- MCForms
    Photos <- MCPhotos
    MaxSlips = 1
    Nobody = Nobody
INVARIANTS
    DetailsFitCategory
    PhotosAreOfOneEdit
    CountersCountPeople
