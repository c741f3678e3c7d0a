------------------------------- MODULE Adapters -------------------------------
(***************************************************************************)
(* The adapters the API registers (aep.api.app), as the engine sees them:  *)
(* which responses a call on a channel may produce, and whether it may     *)
(* raise.  What they do to the outside world is abstracted; a response is  *)
(* reduced to the status and the error that the engine puts in the         *)
(* evidence.                                                               *)
(***************************************************************************)
EXTENDS Verification

CONSTANT EnableDestructive   \* settings.enable_destructive

ASSUME DestructiveAssumption == EnableDestructive \in BOOLEAN

\* The keys of the adapter table the API builds.
RegisteredChannels == {"filesystem", "process", "http", "messaging", "browser"}

Success     == [status |-> "success", error |-> NoError]
Failure(e)  == [status |-> "failed",  error |-> e]

Errors ==
  {"delete_disabled", "unsupported_operation", "missing_command",
   "executable_not_allowed", "non_zero_exit", "domain_not_allowed",
   "unsafe_method_disabled", "duplicate_send_blocked", "draft_only_mode",
   "external_recipient_blocked"}

Response == {Success, Failure(NoError)} \cup {Failure(e) : e \in Errors}

\* A deletion is refused unless destructive operations are enabled.
FilesystemResponses(operation) ==
  IF operation = "delete_file" /\ ~EnableDestructive
  THEN {Failure("delete_disabled")}
  ELSE IF operation \in {"read_file", "list_dir", "create_file", "update_file",
                         "move_file", "copy_file", "delete_file", "checksum"}
  THEN {Success}
  ELSE {Failure("unsupported_operation")}

ProcessResponses ==
  {Success} \cup {Failure(e) : e \in {"missing_command",
                                      "executable_not_allowed",
                                      "non_zero_exit"}}

\* A response of status 400 or more is a failure without an error.
HttpResponses ==
  {Success, Failure(NoError), Failure("domain_not_allowed")}
  \cup (IF EnableDestructive THEN {} ELSE {Failure("unsafe_method_disabled")})

MessagingResponses ==
  {Success} \cup {Failure(e) : e \in {"duplicate_send_blocked",
                                      "draft_only_mode",
                                      "external_recipient_blocked"}}

BrowserResponses(operation) ==
  IF operation \in {"read_page", "click", "fill_form"}
  THEN {Success} ELSE {Failure("unsupported_operation")}

\* adapter.execute(action): what the call may return.
Responses(channel, operation) ==
  CASE channel = "filesystem" -> FilesystemResponses(operation)
    [] channel = "process"    -> ProcessResponses
    [] channel = "http"       -> HttpResponses
    [] channel = "messaging"  -> MessagingResponses
    [] channel = "browser"    -> BrowserResponses(operation)

\* Paths outside the roots and I/O errors, a child process that outlives its
\* timeout, and transport errors leave execute as exceptions; the messaging
\* and browser adapters have no such path.
RaisingChannels == {"filesystem", "process", "http"}
===============================================================================
