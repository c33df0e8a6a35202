SPECIFICATION Spec
CONSTANTS
  post = post
  post2 = post2
  put = put
  put2 = put2
  patch = patch
  patch2 = patch2
  delete = delete
  get = get
  NoRow = NoRow
  NoRequest = NoRequest
  Op <- MCOp
  Requests = {post, put, delete}
  Together = {{post, put, delete}}
  MaxFaults = 0
INVARIANTS
  OrphanOnlyAfterFailure
CHECK_DEADLOCK FALSE
