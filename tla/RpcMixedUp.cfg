SPECIFICATION Spec
CONSTANTS
  shell = shell
  upload = upload
  Threads = {shell, upload}
  Prio <- ThreadPrio
  NoThread = NoThread
  NoPayload = NoPayload
  MethodsOf <- MethodsOfThread
  ShellMethods = {"getBalance"}
  MaxDepth = 2
INVARIANTS
  AnswerMatches
