SPECIFICATION CourseStoreSpec
CONSTANTS
    Users = {ada}
    Requests = {r1, r2}
    None = None
    Sources = {"review1", "review2", "package"}
    Imported = {"package"}
    HomeOf <- MCHomeOf
    NumberOf <- MCNumberOf
    Holds <- MCHolds
INVARIANTS
    CatalogListsEveryCourse
CHECK_DEADLOCK FALSE
