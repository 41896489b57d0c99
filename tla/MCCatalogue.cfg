SPECIFICATION Spec
CONSTANTS
    Filters = {"all", "drama"}
    MAX_PAGE_COUNT = 3
    MaxSelects = 2
    MaxErrors = 2
INVARIANTS ShowsSelection PagesInOrder
PROPERTIES LoadingEnds PagingGoesOn
CHECK_DEADLOCK FALSE
