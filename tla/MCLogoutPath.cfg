CONSTANTS
    Tab = {b1}
    Cookie = {c1, c2}
    CookiePath <- DefaultPath
    NoCookie = NoCookie
SPECIFICATION BrowserSpec
INVARIANTS
    LogoutEndsSession
