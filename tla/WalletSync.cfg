SPECIFICATION Spec
CONSTANTS
  shell = shell
  upload = upload
  Threads = {shell, upload}
  Prio <- ThreadPrio
  NoThread = NoThread
  NoPayload = NoPayload
  JobsOf <- JobsOfThread
  ShellJobs = {"sync"}
  MaxNonce = 2
PROPERTIES
  SyncSyncs
