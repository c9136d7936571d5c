------------------------------ MODULE ToolStep ------------------------------
(***************************************************************************)
(* The steps of plans as _execute_step carries them out: the policy's       *)
(* decision, the events and the tool_calls row that record the call, the    *)
(* call itself, its single retry; and the MCP gateway that some of the      *)
(* tools call, whose servers may be registered again at any time.           *)
(***************************************************************************)
EXTENDS PolicyEngine, Sequences

CONSTANTS
    Steps,             \* steps under execution, each by its own coroutine
    Tools,             \* tools the plans name, registered or not
    StepEnvironments,  \* environments of their tasks
    AdminChoices,      \* whether the tasks' creator is an administrator
    Names,             \* names of MCP servers
    Caps, Perms,       \* capabilities and permissions
    AddressesOf,       \* the base URLs each name is registered with
    MaxRegistrations, MaxFaults, MaxCrashes   \* bounds

ASSUME EnvironmentsAssumption ==
    StepEnvironments \subseteq Environments /\ AdminChoices \subseteq BOOLEAN
ASSUME AddressesAssumption == \A n \in Names : AddressesOf[n] # {}
ASSUME BoundsAssumption ==
    MaxRegistrations \in Nat /\ MaxFaults \in Nat /\ MaxCrashes \in Nat

VARIABLES
    step,      \* each coroutine, and what it left in task_events and tool_calls
    servers,   \* MCPGateway._servers
    clients,   \* MCPGateway._clients: the URL of the client kept for a name
    known,     \* history: the URLs a name had since the process started
    sent,      \* history: the calls sent under the present registrations
    registrations, faults, crashes   \* counters for the bounds

gateway == <<servers, clients, known, sent>>
counts  == <<registrations, faults, crashes>>
vars    == <<step, gateway, counts>>

Addresses == UNION {AddressesOf[n] : n \in Names}
NoServer  == [transport |-> "none"]
NoTarget  == [server |-> "none"]
NoClient  == "NoClient"

\* The tools that name a server.
ServerTools == {"mcp.call_tool", "mcp.list_tools"}

\* Through the routes, a server is never trusted and always active.
Server == [transport : {"stdio", "http", "other"}, capabilities : SUBSET Caps,
           permissions : SUBSET Perms, url : Addresses]
Target == [server : Names, cap : Caps, perms : SUBSET Perms]

\* Places: an await of a statement, the handler, or the end.
Awaits == {"ask", "grant", "announce", "record", "settle", "report", "retry"}
Ended  == {"over", "raised", "stopped"}
PC     == {"start", "call", "reply"} \cup Awaits \cup Ended

FreshStep ==
    [pc |-> "start", tool |-> "mock.analyze", environment |-> "test",
     admin |-> TRUE, target |-> NoTarget, is_retry |-> FALSE, ok |-> FALSE,
     granted |-> 0, announced |-> 0, called |-> 0, rows |-> <<>>]

\* get_mcp_gateway registers one server, when the process starts.
DefaultServers ==
    [n \in Names |->
        IF n = "filesystem"
        THEN [transport |-> "stdio", permissions |-> Perms \cap {"file_access"},
              capabilities |-> Caps \cap {"read_file", "write_file", "list_directory"},
              url |-> CHOOSE a \in AddressesOf[n] : TRUE]
        ELSE NoServer]

Init ==
    /\ step = [s \in Steps |-> FreshStep]
    /\ servers = DefaultServers
    /\ clients = [n \in Names |-> NoClient]
    /\ known = [n \in Names |-> {}]
    /\ sent = {}
    /\ registrations = 0 /\ faults = 0 /\ crashes = 0

-----------------------------------------------------------------------------
(* _execute_step up to the call *)

NeedsApproval(x) ==
    /\ x.environment = "production"
    /\ CheckToolPermission(x.tool, x.environment, x.admin).requires_approval

\* Where the decision leads: nothing is denied, and no tool is critical, so
\* that what needs an approval is approved by the engine itself.
Decided(x) == IF NeedsApproval(x) THEN "ask" ELSE "announce"

\* A tool that is not registered fails before anything is recorded.
Starts(x) ==
    IF x.tool \in RegisteredTools THEN {Decided(x)}
    ELSE IF x.is_retry THEN {"over"} ELSE {"retry", "over"}

\* Mutant: the status of a task instead of the status of a call.
ExecutedAsTask(x) ==
    CASE x.pc = "grant"    -> [x EXCEPT !.granted = @ + 1]
      [] x.pc = "announce" -> [x EXCEPT !.announced = @ + 1]
      [] x.pc = "record"   -> [x EXCEPT !.rows = Append(@, "pending")]
      [] x.pc = "settle"   -> [x EXCEPT !.rows[Len(x.rows)] =
                                  IF x.ok THEN "completed" ELSE "failed"]
      [] OTHER             -> x

\* What the statement under way leaves in the database when it is executed.
Executed(x) ==
    CASE x.pc = "grant"    -> [x EXCEPT !.granted = @ + 1]
      [] x.pc = "announce" -> [x EXCEPT !.announced = @ + 1]
      [] x.pc = "record"   -> [x EXCEPT !.rows = Append(@, "pending")]
      [] x.pc = "settle"   -> [x EXCEPT !.rows[Len(x.rows)] =
                                  IF x.ok THEN "success" ELSE "failed"]
      [] OTHER             -> x

\* The statement awaited at label `from` returns, and the coroutine runs on
\* to `to`.
Statement(s, from, to) ==
    /\ step[s].pc = from
    /\ step' = [step EXCEPT ![s] = [Executed(step[s]) EXCEPT !.pc = to]]
    /\ UNCHANGED <<gateway, counts>>

Begin(s) ==
    /\ step[s].pc = "start"
    /\ \E tool \in Tools, e \in StepEnvironments, a \in AdminChoices,
          target \in Target \cup {NoTarget} :
         LET x == [step[s] EXCEPT !.tool = tool, !.environment = e,
                                  !.admin = a, !.target = target]
         IN  /\ (target = NoTarget) = (tool \notin ServerTools)
             /\ \E to \in Starts(x) :
                  step' = [step EXCEPT ![s] = [x EXCEPT !.pc = to]]
    /\ UNCHANGED <<gateway, counts>>

Ask(s)      == Statement(s, "ask", "grant")        \* approval.requested
Grant(s)    == Statement(s, "grant", "announce")   \* approval.resolved
Announce(s) == Statement(s, "announce", "record")  \* tool.called
Record(s)   == Statement(s, "record", "call")      \* INSERT INTO tool_calls

-----------------------------------------------------------------------------
(* The MCP gateway *)

\* Mutant: only the permissions are checked.
PermittedOnly(t) ==
    /\ servers[t.server] # NoServer
    /\ LET server == servers[t.server]
       IN  server.permissions = {} \/ server.permissions \cap t.perms # {}

\* The whitelist and the permissions; no caller names an environment, so that
\* the check for production is passed with the default, "test".
Permitted(t) ==
    /\ servers[t.server] # NoServer
    /\ LET server == servers[t.server]
       IN  /\ t.cap \in server.capabilities
           /\ server.permissions = {} \/ server.permissions \cap t.perms # {}

\* _get_client: a client is kept for the name, with the URL it was made with.
ClientUrl(n) == IF clients[n] = NoClient THEN servers[n].url ELSE clients[n]

OverHttp(n) == servers[n].transport = "http"

\* call_tool of a server reached over HTTP: what it sends before its await.
Post(t) ==
    /\ Permitted(t) /\ OverHttp(t.server)
    /\ clients' = [clients EXCEPT ![t.server] = ClientUrl(t.server)]
    /\ sent' = sent \cup {<<t.server, t.cap, ClientUrl(t.server)>>}
    /\ UNCHANGED <<servers, known>>

\* list_tools needs no permission.
Get(n) ==
    /\ OverHttp(n)
    /\ clients' = [clients EXCEPT ![n] = ClientUrl(n)]
    /\ UNCHANGED <<servers, known, sent>>

\* POST /mcp/servers/register replaces the configuration of a name.
Register(n) ==
    /\ registrations < MaxRegistrations
    /\ registrations' = registrations + 1
    /\ \E server \in Server :
         /\ server.url \in AddressesOf[n]
         /\ servers' = [servers EXCEPT ![n] = server]
         /\ known' = [known EXCEPT ![n] = @ \cup {server.url}]
    /\ sent' = {call \in sent : call[1] # n}
    /\ UNCHANGED <<step, clients, faults, crashes>>

\* POST /mcp/servers/{name}/call and GET /mcp/servers/{name}/tools.
Route ==
    /\ (\E t \in Target : Post(t)) \/ (\E n \in Names : Get(n))
    /\ UNCHANGED <<step, counts>>

-----------------------------------------------------------------------------
(* The call and what follows it *)

\* The handler awaits the tool.
Wait(s) ==
    /\ step' = [step EXCEPT ![s].pc = "reply", ![s].called = @ + 1]
    /\ UNCHANGED counts

\* The handler answers at once.
Answer(s, ok) ==
    /\ step' = [step EXCEPT ![s].pc = "settle", ![s].called = @ + 1, ![s].ok = ok]
    /\ UNCHANGED <<gateway, counts>>

CallServer(s) ==
    LET t == step[s].target
    IN  \/ Post(t) /\ Wait(s)
        \/ /\ Permitted(t) /\ ~OverHttp(t.server)
           /\ Answer(s, servers[t.server].transport = "stdio")
        \/ ~Permitted(t) /\ Answer(s, FALSE)

\* Mutant: a server that is not reached over HTTP is never answered for.
ListHttpOnly(s) ==
    LET n == step[s].target.server IN Get(n) /\ Wait(s)

\* list_tools returns its errors as a list, and its handler a success.
ListServer(s) ==
    LET n == step[s].target.server
    IN  \/ Get(n) /\ Wait(s)
        \/ ~OverHttp(n) /\ Answer(s, TRUE)

Call(s) ==
    /\ step[s].pc = "call"
    /\ \/ step[s].tool = "mcp.call_tool" /\ CallServer(s)
       \/ step[s].tool = "mcp.list_tools" /\ ListServer(s)
       \/ step[s].target = NoTarget /\ Wait(s) /\ UNCHANGED gateway

\* The tool answers; an exception counts as a failure.
Reply(s) ==
    /\ step[s].pc = "reply"
    /\ \E ok \in BOOLEAN :
         /\ step[s].tool = "mcp.list_tools" => ok
         /\ step' = [step EXCEPT ![s].pc = "settle", ![s].ok = ok]
    /\ UNCHANGED <<gateway, counts>>

\* Mutant: only a success is written back.
SettleSuccess(s) ==
    /\ step[s].pc = "settle"
    /\ step' = [step EXCEPT ![s] =
         [(IF step[s].ok THEN Executed(step[s]) ELSE step[s]) EXCEPT !.pc = "report"]]
    /\ UNCHANGED <<gateway, counts>>

Settle(s) == Statement(s, "settle", "report")      \* UPDATE tool_calls

\* Mutant: every first attempt is repeated.
ReportRepeats(s) ==
    Statement(s, "report", IF step[s].is_retry THEN "over" ELSE "retry")

\* tool.result; a failed first attempt is repeated if the plan says so.
Report(s) ==
    \/ Statement(s, "report", "over")
    \/ ~step[s].ok /\ ~step[s].is_retry /\ Statement(s, "report", "retry")

\* Mutant: the retry goes straight to the call's announcement.
RetryAtOnce(s) ==
    /\ step[s].pc = "retry"
    /\ step' = [step EXCEPT ![s].pc = "announce", ![s].is_retry = TRUE]
    /\ UNCHANGED <<gateway, counts>>

\* task.retrying, then _execute_step from its beginning.
Retry(s) ==
    /\ step[s].pc = "retry"
    /\ LET x == [step[s] EXCEPT !.is_retry = TRUE]
       IN  \E to \in Starts(x) :
             step' = [step EXCEPT ![s] = [x EXCEPT !.pc = to]]
    /\ UNCHANGED <<gateway, counts>>

-----------------------------------------------------------------------------
(* A statement raises, the task is cancelled, the process dies *)

Raise(s) ==
    /\ step[s].pc \in Awaits /\ faults < MaxFaults
    /\ faults' = faults + 1
    /\ step' = [step EXCEPT ![s].pc = "raised"]
    /\ UNCHANGED <<gateway, registrations, crashes>>

\* A statement under way is executed or not.
Stopped(x) == {[y EXCEPT !.pc = "stopped"] : y \in {x, Executed(x)}}

Stop(s) ==
    /\ step[s].pc \notin Ended \cup {"start"}
    /\ \E y \in Stopped(step[s]) : step' = [step EXCEPT ![s] = y]
    /\ UNCHANGED <<gateway, counts>>

\* The new process has the servers it registers itself, and no client.
Crash ==
    /\ crashes < MaxCrashes
    /\ crashes' = crashes + 1
    /\ step' \in {f \in [Steps -> UNION {Stopped(step[s]) \cup {step[s]} : s \in Steps}] :
                    \A s \in Steps :
                      IF step[s].pc \in Ended \cup {"start"}
                      THEN f[s] = step[s] ELSE f[s] \in Stopped(step[s])}
    /\ servers' = DefaultServers
    /\ clients' = [n \in Names |-> NoClient]
    /\ known' = [n \in Names |-> {}]
    /\ sent' = {}
    /\ UNCHANGED <<registrations, faults>>

-----------------------------------------------------------------------------

Proceed(s) ==
    \/ Ask(s) \/ Grant(s) \/ Announce(s) \/ Record(s) \/ Call(s) \/ Reply(s)
    \/ Settle(s) \/ Report(s) \/ Retry(s)

Next ==
    \/ \E s \in Steps : Begin(s) \/ Proceed(s) \/ Raise(s) \/ Stop(s)
    \/ \E n \in Names : Register(n)
    \/ Route \/ Crash

Spec == Init /\ [][Next]_vars

\* The event loop resumes a coroutine whose statement or tool has answered.
FairSpec == Spec /\ \A s \in Steps : WF_vars(Proceed(s))

-----------------------------------------------------------------------------
(* Properties *)

StepRecord ==
    [pc : PC, tool : Tools \cup {FreshStep.tool}, environment : Environments,
     admin : BOOLEAN, target : Target \cup {NoTarget}, is_retry : BOOLEAN,
     ok : BOOLEAN, granted : Nat, announced : Nat, called : Nat,
     rows : Seq({"pending", "success", "failed"})]

TypeOK ==
    /\ step \in [Steps -> StepRecord]
    /\ servers \in [Names -> Server \cup {NoServer}]
    /\ clients \in [Names -> Addresses \cup {NoClient}]
    /\ known \in [Names -> SUBSET Addresses]
    /\ sent \subseteq Names \X Caps \X Addresses
    /\ registrations \in Nat /\ faults \in Nat /\ crashes \in Nat

\* No call without its row, no row without its tool.called event, and a second
\* attempt only after the row of the first says that it failed, whichever
\* statement raised, was cancelled or was cut by a crash.
AttemptsInOrder ==
    \A s \in Steps :
        LET x == step[s]
        IN  /\ x.called <= Len(x.rows) /\ Len(x.rows) <= x.announced
            /\ x.announced <= x.called + 1 /\ x.announced <= 2
            /\ \A i \in 1..Len(x.rows) - 1 : x.rows[i] = "failed"

\* In production, every recorded attempt of a tool that requires an approval
\* there, the repeated one included, has an approval.resolved event of its own.
ProductionIsApproved ==
    \A s \in Steps :
        NeedsApproval(step[s]) => step[s].granted >= Len(step[s].rows)

\* What the tool and the creator of a step are asked for in one environment,
\* they are asked for in every one that escalates at least as much: the
\* branches of evaluate, the table and the administrator's exemption together
\* never make production the more lenient one.
StricterInProduction ==
    \A s \in Steps, e \in Environments, f \in Environments :
        LET asked(env) == CheckToolPermission(step[s].tool, env, step[s].admin)
                              .requires_approval
        IN  ENV_ESCALATION[e] <= ENV_ESCALATION[f] /\ asked(e) => asked(f)

\* A row of tool_calls is left pending only by a step that did not end by
\* itself; otherwise the last row tells the outcome the plan went on with, and
\* only a tool that is not registered has no row.
OnlyInterruptedIsPending ==
    \A s \in Steps : step[s].pc = "over" =>
        LET x == step[s]
        IN  IF x.rows = <<>> THEN x.tool \notin RegisteredTools
            ELSE x.rows[Len(x.rows)] = IF x.ok THEN "success" ELSE "failed"

\* Only registered tools are called: a request asks for a tool that the present
\* registration of its server lists, and goes to a URL this process was given
\* for that server, though the client may be older than the registration.
SentIsRegistered ==
    \A call \in sent : /\ servers[call[1]] # NoServer
                       /\ call[2] \in servers[call[1]].capabilities
                       /\ call[3] \in known[call[1]]

\* A step that was begun ends, unless a tool never answers.
StepsEnd ==
    \A s \in Steps : step[s].pc # "start" ~> step[s].pc \in Ended
=============================================================================
