CONSTANTS
  Ids = {1, 2, 3, 4}
  GroupIds = {1, 2, 3}
  Directions = {"none", "ASC", "DESC"}
  Ways = {"graphql", "repository"}
  Firsts <- MCFirsts
  Afters <- MCAfters
SPECIFICATION PagesSpec
INVARIANTS PagesTypeOK WalkInOrder WalkComplete AnnouncesNext
PROPERTIES AnnouncesRightly WalkEnds WalkSeesStable
CHECK_DEADLOCK FALSE
