------------------------------ MODULE Surfaces ------------------------------
(* What the command line and the MCP server answer: the checks each verb     *)
(* makes of its input, in order, and the reply for every way the component   *)
(* behind it can end (cli/src/surface_cli_*_command.py,                      *)
(* mcp/src/surface_mcp_tool_command.py, root_cli_main_entry.py).             *)
(* "back" is how the component ended: "ok", "error" (a response that carries *)
(* an error), "raises", "absent" (nothing there to answer about), "full" or  *)
(* "limited" (the queue's refusals), "no record".                            *)
(* A reply is whether it claims success, and its code.                       *)
EXTENDS Settings

Answer == [ok |-> TRUE, code |-> "none"]
Refuse(code) == [ok |-> FALSE, code |-> code]

(* ---- input -------------------------------------------------------------- *)

(* The shared checks of a path: it exists, is of a kind the verb takes, and  *)
(* lies below the workspace root.                                            *)
PathError(fs, root, path, kinds) ==
    CASE ~Exists(fs, path) -> "FILE_NOT_FOUND"
      [] Exists(fs, path) /\ path \notin kinds -> "INVALID_PATH"
      [] path \in kinds /\ ~IsPrefix(root, path) -> "PATH_OUTSIDE_WORKSPACE"
      [] OTHER -> "none"

(* A destination need not exist; its parent is checked in its place.         *)
OutputError(fs, root, path) == PathError(fs, root, ParentOf(path), fs.dirs)

PromptError(fs, root, ask) == IF ask.role THEN "none" ELSE PathError(fs, root, ask.prompt, fs.files)
AttachmentError(fs, root, ask) ==
    IF ask.attach = NoPath THEN "none" ELSE PathError(fs, root, ask.attach, fs.files \cup fs.dirs)

FirstError(errors) ==
    LET found == {i \in DOMAIN errors : errors[i] # "none"}
    IN IF found = {} THEN "none" ELSE errors[CHOOSE i \in found : \A j \in found : i <= j]

(* A swarm's id is "good", "blank", "long" or "unsafe" (a separator in it).  *)
SwarmIdError(id) == IF id = "good" THEN "none" ELSE "VALIDATION_ERROR"

(* ---- the command line ---------------------------------------------------- *)

(* "job submit" checks prompt, attachment and destination in this order.     *)
CliJobSubmit(fs, root, ask, back) ==
    LET out == IF ask.out = NoPath THEN "none" ELSE OutputError(fs, root, ask.out)
        error == FirstError(<<PromptError(fs, root, ask), AttachmentError(fs, root, ask), out>>)
    IN CASE error # "none" -> Refuse("cli-400")
         [] error = "none" /\ back = "full" -> Refuse("cli-429")
         [] error = "none" /\ back \notin {"ok", "full"} -> Refuse("cli-500")
         [] OTHER -> Answer

(* The other job verbs: an error, or a job that is not there.                *)
CliJobQuery(ask, back) ==
    CASE back = "raises" -> Refuse("exception")
      [] back = "error" -> Refuse("cli-500")
      [] back = "absent" /\ ask.verb = "job status" -> Refuse("cli-400")
      [] OTHER -> Answer

CliSwarmStart(fs, root, ask, back) ==
    CASE PathError(fs, root, ask.prompt, fs.files \cup fs.dirs) # "none" -> Refuse("cli-400")
      [] PathError(fs, root, ask.prompt, fs.files \cup fs.dirs) = "none" /\ back # "ok" ->
           Refuse(IF back = "raises" THEN "exception" ELSE "cli-500")
      [] OTHER -> Answer

(* A snapshot that is missing is a refusal for "status" alone.               *)
CliSwarmVerb(ask, back) ==
    CASE SwarmIdError(ask.id) # "none" -> Refuse("cli-400")
      [] SwarmIdError(ask.id) = "none" -> CliJobQuery([verb |-> IF ask.verb = "swarm status"
                                                               THEN "job status" ELSE ask.verb], back)

(* "session login" asks for another one until the operator declines; a login *)
(* that did not end valid stops it. "session health" alone catches what the  *)
(* component raises, beside login.                                           *)
CliSessionQuery(ask, back) ==
    CASE back = "ok" -> Answer
      [] back = "raises" /\ ask.verb \notin {"session login", "session health"} -> Refuse("exception")
      [] OTHER -> Refuse("cli-500")

(* "session remove" deletes by the path an earlier listing gave, and asks    *)
(* first only on a terminal, without --json and --force. With                *)
(* --keep-profile the pool entry alone goes, unasked.                        *)
Asks(ask) == ask.tty /\ ~ask.json /\ ~ask.force
CliSessionRemove(ask, listed, confirms, back) ==
    CASE ask.keep -> CliSessionQuery(ask, back)
      [] ~ask.keep /\ ~listed -> Refuse("cli-400")
      [] ~ask.keep /\ listed /\ Asks(ask) /\ ~confirms -> Answer
      [] OTHER -> CliSessionQuery(ask, back)

(* The quality report, and the status that shows what it can read: a missing *)
(* file or missing metrics do not fail it.                                   *)
CliReport(back) == CliSessionQuery([verb |-> "report"], IF back = "absent" THEN "error" ELSE back)
CliObservabilityStatus(statusInside, back) ==
    CASE ~statusInside -> Refuse("cli-400")
      [] statusInside /\ back = "raises" -> Refuse("exception")
      [] OTHER -> Answer

(* A run's answer in the surfaces' terms. dispatch_run puts the failure      *)
(* under "message" and _exit_code_for_result reads "error", so a login that  *)
(* is missing ends with 1 as well.                                           *)
CliRunReply(text) == IF text = "processed" THEN Answer ELSE Refuse("cli-422")

(* ---- the MCP server ------------------------------------------------------ *)

McpRunReply(text) ==
    IF text = "processed" THEN Answer
    ELSE Refuse(IF text = "auth" THEN "AUTH_REQUIRED" ELSE "EXECUTION_ERROR")

(* The submit of an asynchronous run: its input was checked before.          *)
McpJobSubmit(fs, root, ask, back) ==
    LET error == FirstError(<<PromptError(fs, root, ask), AttachmentError(fs, root, ask)>>)
    IN CASE error # "none" -> Refuse(error)
         [] error = "none" /\ back = "limited" -> Refuse("RATE_LIMITED")
         [] error = "none" /\ back = "full" -> Refuse("QUEUE_FULL")
         [] error = "none" /\ back \notin {"ok", "limited", "full"} -> Refuse("JOB_SUBMIT_FAILED")
         [] OTHER -> Answer

(* get_job_status and list_jobs; an exception reaches the client as it is.   *)
McpJobQuery(ask, back) ==
    CASE ~ask.valid -> Refuse("VALIDATION_ERROR")
      [] ask.valid /\ back = "raises" -> Refuse("exception")
      [] ask.valid /\ back = "absent" /\ ask.verb = "job status" -> Refuse("JOB_NOT_FOUND")
      [] OTHER -> Answer

(* check_session answers whatever the verdict; setup_session puts the error  *)
(* of a login that failed into a success payload; delete_session reports a   *)
(* profile that was not there as deleted.                                    *)
McpCheckSession(back) == IF back = "raises" THEN Refuse("SESSION_CHECK_FAILED") ELSE Answer
McpSetupSession(back) == IF back = "raises" THEN Refuse("SETUP_SESSION_FAILED") ELSE Answer
McpDeleteSession(ask, back) ==
    CASE ~ask.confirm -> Refuse("CONFIRMATION_REQUIRED")
      [] ask.confirm /\ ~ask.named -> Refuse("SESSION_NAME_REQUIRED")
      [] ask.confirm /\ ask.named /\ back = "raises" -> Refuse("SESSION_DELETE_FAILED")
      [] OTHER -> Answer

(* init on either surface: the provisioner raises or it is done.             *)
InitReply(surface, done) ==
    IF done THEN Answer ELSE Refuse(IF surface = "cli" THEN "cli-500" ELSE "INIT_WORKSPACE_FAILED")

(* The verbs that are answered in one step, the surfaces that have them, and *)
(* the ways the component behind each may end.                               *)
CliVerbs == {"job submit", "job status", "job list", "job cleanup", "swarm start", "swarm status", "swarm cancel",
             "session list", "session health", "session login", "session remove", "brave", "report", "metrics"}
McpVerbs == {"job submit", "job status", "job list", "session login", "session remove", "session check"}
Backs ==
    LET silent == {"swarm status", "swarm cancel"}
        erring == CliVerbs \ {"job status", "job list", "session remove", "metrics"}
        missing == silent \cup {"job status", "session remove", "session check", "metrics"}
    IN [verb \in CliVerbs \cup McpVerbs |->
          {"ok"} \cup (IF verb \in silent THEN {} ELSE {"raises"})
                 \cup (IF verb \in erring THEN {"error"} ELSE {})
                 \cup (IF verb \in missing THEN {"absent"} ELSE {})
                 \cup (IF verb = "job submit" THEN {"full", "limited", "no record"} ELSE {})]

(* What these verbs are asked.                                               *)
VerbFields(surfaces, verbs, paths) ==
    [surface : surfaces, verb : verbs, role : BOOLEAN, prompt : paths, attach : paths, out : paths,
     id : {"good", "blank", "long", "unsafe"}, tty : BOOLEAN, json : BOOLEAN, force : BOOLEAN, keep : BOOLEAN,
     confirm : BOOLEAN, named : BOOLEAN, valid : BOOLEAN, inside : BOOLEAN]

(* What a verb of a surface answers.                                         *)
VerbReply(fs, root, ask, back) ==
    LET cli == ask.surface = "cli" IN
    CASE ask.verb = "job submit" -> IF cli THEN CliJobSubmit(fs, root, ask, back)
                                    ELSE McpJobSubmit(fs, root, ask, back)
      [] ask.verb \in {"job status", "job list", "job cleanup"} ->
           IF cli THEN CliJobQuery(ask, back) ELSE McpJobQuery(ask, back)
      [] ask.verb = "swarm start" -> CliSwarmStart(fs, root, ask, back)
      [] ask.verb \in {"swarm status", "swarm cancel"} -> CliSwarmVerb(ask, back)
      [] ask.verb \in {"session list", "session health", "brave"} -> CliSessionQuery(ask, back)
      [] ask.verb = "session login" -> IF cli THEN CliSessionQuery(ask, back) ELSE McpSetupSession(back)
      [] ask.verb = "session remove" ->
           IF cli THEN CliSessionRemove(ask, back # "absent", ask.confirm, back)
           ELSE McpDeleteSession(ask, back)
      [] ask.verb = "session check" -> McpCheckSession(back)
      [] ask.verb = "report" -> CliReport(back)
      [] ask.verb = "metrics" -> CliObservabilityStatus(ask.inside, back)
=============================================================================
