SPECIFICATION FairSpec
CONSTANTS
  post = post
  post2 = post2
  put = put
  put2 = put2
  patch = patch
  patch2 = patch2
  delete = delete
  get = get
  NoRow = NoRow
  NoRequest = NoRequest
  Op <- MCOp
  Requests = {post, post2, put, put2, patch, patch2, delete, get}
  Together = {{post, post2, put, patch, delete}, {post, put, patch, patch2, delete}, {post, post2, put, put2, get}}
  MaxFaults = 1
INVARIANTS
  TypeOK
  RowHasFile
  UploadsLeaveNoOrphan
PROPERTIES
  EventuallyAnswered
CHECK_DEADLOCK FALSE
