--------------------------- MODULE ServiceEmulator ---------------------------
(***************************************************************************)
(* core/service_emulator.py: an SSHEmulator and an HTTPEmulator, what they *)
(* answer and what they leave in the forensic log.  No handler awaits      *)
(* anything but another handler, so one call of handle_connection is one   *)
(* step; it begins by decoding what it is given.                           *)
(*                                                                         *)
(* A shell command is the set of dispatch tests it passes, a request the   *)
(* set of routing tests: the texts, pages and canned outputs are left out, *)
(* and so is working_directory, which only `cd' reads.                     *)
(***************************************************************************)
EXTENDS Integers, Sequences, FiniteSets, SequencesExt

CONSTANTS
  Connections,      \* ConnectionContext objects
  Sessions, IPs,
  Commands,         \* sets of tests shell commands pass
  Requests,         \* sets of tests HTTP requests pass
  MaxAuthAttempts,  \* config "max_auth_attempts", never validated
  MaxCalls          \* bound: calls of the two emulators

EmulatorAssumption == MaxAuthAttempts \in Int /\ MaxCalls \in Nat

Protocols == {"ssh", "http"}
Answers ==
  {"none", "banner", "motd", "granted", "denied", "output", "not_found", "crash",
   "200", "302", "400", "404", "405"}

VARIABLES
  session, source,  \* ConnectionContext.session_id, source_ip
  user,             \* ConnectionContext.authenticated_user is not None
  running,          \* _running; handle_connection never reads it
  stage,            \* _auth_stage; "banner" for a session that is no key
  failed,           \* _failed_attempts; 0 for an address that is no key
  commandLog,       \* SSHEmulator._command_log; order and repetition left out
  count,            \* _connection_count
  calls

\* History, read by no action: denials of an address since its last valid
\* login or the last stop, whether one came after the door had opened, the
\* answers that left no entry in a log, and how often the shell and the web
\* server were asked something they could decode and parse.
VARIABLES denials, opened, shutAgain, silent, asked, crashes

objects == <<session, source>>
history == <<denials, opened, shutAgain, silent, asked, crashes>>
vars == <<objects, user, running, stage, failed, commandLog, count, calls, history>>

Init ==
  /\ session \in [Connections -> Sessions]
  /\ source \in [Connections -> IPs]
  /\ user = [c \in Connections |-> FALSE]
  /\ running = [p \in Protocols |-> FALSE]
  /\ stage = [s \in Sessions |-> "banner"]
  /\ failed = [ip \in IPs |-> 0]
  /\ commandLog = {}
  /\ count = [p \in Protocols |-> 0]
  /\ calls = 0
  /\ denials = [ip \in IPs |-> 0]
  /\ opened = [ip \in IPs |-> FALSE]
  /\ shutAgain = {}
  /\ silent = {}
  /\ asked = [p \in Protocols |-> 0]
  /\ crashes = 0

-----------------------------------------------------------------------------
(* A definition named X_Y is X with the slip Y in it; it is used only to    *)
(* confirm that a property notices the slip.                               *)

\* The first test of the chain that x passes.
FirstOf(chain, x, otherwise) ==
  LET i == SelectInSeq(chain, LAMBDA test : test \in x)
  IN  IF i = 0 THEN otherwise ELSE chain[i]

\* _handle_shell_command looks for the oddities of the protocol first, then
\* in the table of answers, for the whole line and for its first word, and
\* then tries the patterns of _pattern_match_response.
EdgeCases == <<"sftp", "scp", "escape", "verbose", "forward">>
Canned == <<"exact", "base">>
Patterns == <<"cat", "head", "tail", "cd", "fetch", "python", "sudo", "exit", "nmap">>
ShellChain == EdgeCases \o Canned \o Patterns

Rule(command) == FirstOf(ShellChain, command, "unknown")

\* `cd' answers "", which the caller takes for no answer.  wget and curl
\* look for a host between the slashes of their last word.
ShellAnswer(command) ==
  LET rule == Rule(command)
  IN  CASE rule \in {"cd", "unknown"} -> "not_found"
        [] rule = "fetch" /\ "no_host" \in command -> "crash"
        [] OTHER -> "output"

\* Only exit and logout end a session; the escape ~. says it does.
EndsSession(command) == Rule(command) = "exit"

\* handle_connection of HTTPEmulator: tables first, then the paths it knows.
Pages == <<"admin", "endpoint">>
KnownPaths == <<"home", "login", "api_path", "bait">>
RouteChain == <<"malformed">> \o Pages \o KnownPaths

Status(request) ==
  LET route == FirstOf(RouteChain, request, "nowhere")
  IN  CASE route = "malformed" -> "400"
        [] route = "endpoint" /\ "other_method" \in request -> "405"
        [] route = "login" /\ "post" \in request -> "302"
        [] route \in {"api_path", "nowhere"} -> "404"
        [] OTHER -> "200"

\* _log_command is called before the command is looked at, with no response,
\* and again with the response.
Entries_AfterOnly(c, answer) ==
  IF answer = "crash" THEN {} ELSE {[conn |-> c, user |-> user[c], answered |-> TRUE]}
Entries(c, answer) ==
  {[conn |-> c, user |-> user[c], answered |-> a] :
     a \in IF answer = "crash" THEN {FALSE} ELSE BOOLEAN}

Call == calls < MaxCalls /\ calls' = calls + 1

Counted(p, n) ==
  /\ count' = [count EXCEPT ![p] = @ + n]
  /\ asked' = [asked EXCEPT ![p] = @ + 1]

-----------------------------------------------------------------------------
(* SSHEmulator *)

Start(p) ==
  /\ Call
  /\ running' = [running EXCEPT ![p] = TRUE]
  /\ UNCHANGED <<objects, user, stage, failed, commandLog, count, history>>

\* Contexts keep their user, and a stopped emulator goes on answering.
Stop(p) ==
  /\ Call
  /\ running' = [running EXCEPT ![p] = FALSE]
  /\ IF p = "ssh"
     THEN /\ stage' = [s \in Sessions |-> "banner"]
          /\ failed' = [ip \in IPs |-> 0]
          /\ denials' = [ip \in IPs |-> 0]
          /\ opened' = [ip \in IPs |-> FALSE]
     ELSE UNCHANGED <<stage, failed, denials, opened>>
  /\ UNCHANGED <<objects, user, commandLog, count, shutAgain, silent, asked, crashes>>

Banner(c) ==
  /\ Call
  /\ stage[session[c]] = "banner"
  /\ stage' = [stage EXCEPT ![session[c]] = "auth"]
  /\ silent' = silent \cup {"banner"}
  /\ UNCHANGED <<objects, user, running, failed, commandLog, count,
                 denials, opened, shutAgain, asked, crashes>>

\* The session goes on in the shell, under the name that was tried.
Admit_Anonymous(c) ==
  /\ stage' = [stage EXCEPT ![session[c]] = "shell"]
  /\ UNCHANGED user
Admit(c) ==
  /\ stage' = [stage EXCEPT ![session[c]] = "shell"]
  /\ user' = [user EXCEPT ![c] = TRUE]

\* The counter after an attempt that was let in by its number alone.
AfterForced_Reset(n) == 0
AfterForced(n) == n

\* _handle_auth: a bait credential opens at once, any other on the last try.
TryLogin(c, valid) ==
  LET ip == source[c]
      attempts == failed[ip] + 1
      forced == ~valid /\ attempts >= MaxAuthAttempts
      denied == ~valid /\ ~forced
  IN  /\ Call
      /\ stage[session[c]] = "auth"
      /\ IF denied THEN UNCHANGED <<stage, user>> ELSE Admit(c)
      /\ failed' = [failed EXCEPT ![ip] =
                      IF valid THEN 0 ELSE IF forced THEN AfterForced(attempts) ELSE attempts]
      /\ denials' = [denials EXCEPT ![ip] = IF valid THEN 0 ELSE IF denied THEN @ + 1 ELSE @]
      /\ opened' = [opened EXCEPT ![ip] = (~valid /\ @) \/ forced]
      /\ shutAgain' = IF denied /\ opened[ip] THEN shutAgain \cup {ip} ELSE shutAgain
      /\ silent' = silent \cup {IF valid THEN "motd" ELSE IF forced THEN "granted" ELSE "denied"}
      /\ UNCHANGED <<objects, running, commandLog, count, asked, crashes>>

Shell(c, command) ==
  LET answer == ShellAnswer(command)
  IN  /\ Call
      /\ stage[session[c]] = "shell"
      /\ stage' = IF EndsSession(command)
                  THEN [stage EXCEPT ![session[c]] = "banner"] ELSE stage
      /\ commandLog' = commandLog \cup Entries(c, answer)
      /\ Counted("ssh", Cardinality(Entries(c, answer)))
      /\ crashes' = IF answer = "crash" THEN crashes + 1 ELSE crashes
      /\ silent' = IF Entries(c, answer) = {} THEN silent \cup {answer} ELSE silent
      /\ UNCHANGED <<objects, user, running, failed, denials, opened, shutAgain>>

-----------------------------------------------------------------------------
(* Either emulator: bytes that are not UTF-8 make handle_connection raise   *)
(* UnicodeDecodeError before it looks at the stage, parses or logs.         *)

Undecodable ==
  /\ Call
  /\ silent' = silent \cup {"undecodable"}
  /\ UNCHANGED <<objects, user, running, stage, failed, commandLog, count,
                 denials, opened, shutAgain, asked, crashes>>

-----------------------------------------------------------------------------
(* HTTPEmulator: a request is logged before it is routed, once in           *)
(* _request_log, whose length is asked["http"], and once in _command_log.   *)

Logged_KnownRoutes(request) == Status(request) \notin {"400", "404", "405"}
Logged(request) == Status(request) # "400"

Request(request) ==
  /\ Call
  /\ IF Logged(request)
     THEN Counted("http", 2) /\ UNCHANGED silent
     ELSE silent' = silent \cup {Status(request)} /\ UNCHANGED <<count, asked>>
  /\ UNCHANGED <<objects, user, running, stage, failed, commandLog,
                 denials, opened, shutAgain, crashes>>

Next ==
  \/ \E p \in Protocols : Start(p) \/ Stop(p)
  \/ \E c \in Connections :
       \/ Banner(c)
       \/ \E valid \in BOOLEAN : TryLogin(c, valid)
       \/ \E command \in Commands : Shell(c, command)
  \/ \E request \in Requests : Request(request)
  \/ Undecodable

Spec == Init /\ [][Next]_vars

-----------------------------------------------------------------------------
(* Properties *)

\* "Accept after N tries": over all the sessions an address opens, it is
\* refused fewer than N times between two valid logins or restarts, and once
\* one of its sessions was let in by the number of tries no later one is
\* refused (_handle_auth counts per source_ip and resets on a valid pair).
DoorPolicy ==
  /\ \A ip \in IPs : denials[ip] = 0 \/ denials[ip] < MaxAuthAttempts
  /\ shutAgain = {}

\* The log of the shell can be attributed: whoever is in the shell was
\* admitted, or has the session id of somebody who was, and only then does an
\* entry name no user (stage is kept per session id, the user per context).
TrailExplained ==
  /\ \A s \in Sessions :
       stage[s] = "shell" => \E c \in Connections : session[c] = s /\ user[c]
  /\ \A e \in commandLog :
       e.user \/ \E d \in Connections : session[d] = session[e.conn] /\ user[d] /\ d # e.conn

\* Every command and every request that can be decoded and parsed is in a
\* log, even one whose answer failed.  The banner, logins, unparsable requests
\* and bytes that are not UTF-8 leave nothing: of the last, whatever was meant
\* by them, there is no trace.  connection_count is twice the number of those
\* decoded and parsed, less one per failure.
ForensicTrail ==
  /\ silent \subseteq {"banner", "motd", "granted", "denied", "400", "undecodable"}
  /\ count["ssh"] = 2 * asked["ssh"] - crashes
  /\ count["http"] = 2 * asked["http"]

=============================================================================
