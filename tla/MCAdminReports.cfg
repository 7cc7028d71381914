\* One request of the admin at a time while purchases are made, paid and refunded.
CONSTANTS
  Ids = {1, 2, 3}
  RailOf <- Rail
  Products = {"p", "q"}
  ProductOf <- Product
  Week = 2
  Month = 3
  MaxDay = 4
  TopLimit = 1
  RecentLimit = 1
  PageSize = 1
  Filters = {{}, {"pending"}}

SPECIFICATION Spec

INVARIANTS
  WindowsNest
  ListsMatchFigures
  PagingShowsAll
  OutcomesAreTrue
