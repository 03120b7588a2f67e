CONSTANTS
  AutoLogins = {TRUE}
  NPasswords = 0
  NAuto = 1
  LoginTries = 2
  MaxCalls = 2
  MaxGreetings = 1
SPECIFICATION Spec
INVARIANTS
  AutoBeforeUser
