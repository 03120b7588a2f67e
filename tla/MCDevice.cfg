CONSTANTS
  AutoLogins = {TRUE, FALSE}
  NPasswords = 3
  NAuto = 2
  LoginTries = 3
  MaxCalls = 3
  MaxGreetings = 4
SPECIFICATION Spec
INVARIANTS  AuthErrorHonest PasswordsAtPasswordPrompt
  AutoBeforeUserUnlessFailed CommandsAtPrompt
