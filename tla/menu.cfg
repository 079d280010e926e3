\* The menu of the repository and every menu of up to five items and lists of
\* up to four, one more than the GNU allocator gives room for.  In one of them
\* the user is hasty, also before the menu is there.
SPECIFICATION FairSpec
CONSTANTS
  MaxItems = 5
  MaxList = 4
  Items <- FileItems
  NULL = NULL
  Documents <- AllMenus
  Room = 3
  Haste <- RushedHaste
INVARIANTS TreeTypeOK LinksAgree TreeIsMenu MenuTypeOK ShowsMenuTop
PROPERTIES OneMovePerPress ImplementsCursor
CHECK_DEADLOCK FALSE
