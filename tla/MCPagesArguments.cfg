CONSTANTS
  Ids = {1, 2, 3, 4}
  GroupIds = {1, 2, 3}
  Directions = {"none", "ASC", "DESC"}
  Ways = {"graphql"}
  Firsts <- MCFirsts
  Afters <- MCAfters
SPECIFICATION PagesSpec
INVARIANT ArgumentsHonoured
CHECK_DEADLOCK FALSE
