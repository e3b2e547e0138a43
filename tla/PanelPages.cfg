SPECIFICATION PanelPagesSpec
CONSTANTS
    AuthTokens = {t1, t2}
    OldToken = t1
    NoToken = NoToken
    Nobody = Nobody
    Admin = Admin
    Users = {u1, u2}
    Myself = u1
    NoUser = NoUser
    MaxInvites = 1
    Roles = {r1, r2}
    SystemRole = r2
    Actions = {"read", "update"}
    Objects = {o1}
    AnyObject = AnyObject
    NoRole = NoRole
    Packs = {p1, p2}
    NoPack = NoPack
    Typed = typed
    Free = free
    MaxNewEdits = 2
    ApiTokens = {a1, a2}
    FirstApiTokens = {a1}
    NoApiToken = NoApiToken
CHECK_DEADLOCK FALSE
INVARIANTS PanelPagesTypeOK InterceptorListens NothingUnasked
PROPERTIES PageWaitingEnds
