------------------------------ MODULE Commands ------------------------------
(***************************************************************************)
(* How a command of the web comes to a terminal and its result to the      *)
(* database: IcsWebClient::handleICSForward for terminals of the center,   *)
(* handleRemoteForward for those of an enterprise, whose proxy passes the  *)
(* command on and answers (IcsCenter::handleForwardToTermianl,             *)
(* IcsRemoteProxyClient::handleForwardResponse).  Sources:                 *)
(* src/src/center/icslocalserver.cpp, src/src/proxy/icsproxyserver.cpp.    *)
(*                                                                         *)
(* Each program handles its messages in one thread.  In a handler, what it *)
(* does before and after its dispatch() are steps of their own, as the     *)
(* network sends meanwhile.  Every connection may end at any time; what is *)
(* on its way there is lost, and nobody is told; but commands that a proxy *)
(* has got are handled although the center has closed the link meanwhile.  *)
(***************************************************************************)
EXTENDS Naturals, Sequences, Functions

CONSTANTS
    LocalCommands,      \* commands for a terminal of the center
    RemoteCommands,     \* commands for a terminal of the enterprise
    NoResult            \* no command, no status

Commands == LocalCommands \cup RemoteCommands

ASSUME CommandsAssumption ==
    /\ LocalCommands \cap RemoteCommands = {}
    /\ NoResult \notin Commands \cup {"ok", "failed"}

\* The two programs that have a terminal: each at one connection here.
Servers == {"center", "proxy"}

\* A result on its way to the database: 0 is "ok", 1 is "failed".
Results == [cmd : Commands, result : {"ok", "failed"}]

VARIABLES
    asked,      \* the commands that the web has sent
    ending,     \* the result that a handler of the web's command goes on to record
    linked,     \* the center's registry has a link to the proxy
    toProxy,    \* commands on the link
    toCenter,   \* results on the link
    astray,     \* commands on links that the center has closed
    online,     \* each program's registry has the terminal
    sendList,   \* the commands on the send list of the terminal's connection
    received,   \* the commands that terminals have received
    status,     \* what the database holds for a command
    queued,     \* history: commands that were put on a send list
    excused,    \* history: commands that end without a status, and why is known
    unlinked    \* history: commands that found no link to the proxy

link == <<linked, toProxy, toCenter, astray>>
terminals == <<online, sendList, received>>
commandsHistory == <<queued, excused, unlinked>>
commandsVars == <<asked, ending, link, terminals, status, commandsHistory>>

-----------------------------------------------------------------------------
(* Helpers                                                                 *)

Result(r, res) == [cmd |-> r, result |-> res]

\* The commands that are on the link, or whose results are.
OnLink == Range(toProxy) \cup {toCenter[i].cmd : i \in DOMAIN toCenter}

\* dispatch() to the terminal's connection at s: trySend queues the command.
\* m_valid is not looked at, so the connection may have just ended.
Dispatch(s, r) ==
    /\ online[s]
    /\ sendList' = [sendList EXCEPT ![s] = Append(@, r)]
    /\ queued' = queued \cup {r}
    /\ UNCHANGED <<online, received>>

\* No connection is found, or dispatch() throws before anything is queued: there
\* is no chunk for the stream, or the proxy cannot load the file of an upgrade.
NotDispatched == UNCHANGED <<terminals, queued>>

\* The center closes the link: it reads no more results.
LoseLink ==
    /\ linked' = FALSE
    /\ toProxy' = <<>>
    /\ toCenter' = <<>>
    /\ astray' = astray \cup Range(toProxy)

CommandsInit ==
    /\ asked = {}
    /\ ending = NoResult
    /\ linked = FALSE
    /\ toProxy = <<>>
    /\ toCenter = <<>>
    /\ astray = {}
    /\ online = [s \in Servers |-> FALSE]
    /\ sendList = [s \in Servers |-> <<>>]
    /\ received = {}
    /\ status = [r \in Commands |-> NoResult]
    /\ queued = {}
    /\ excused = {}
    /\ unlinked = {}

-----------------------------------------------------------------------------
(* The center: commands of the web                                         *)

\* The center handles command r of the web, for a gateway that has a name.
Ask(r) ==
    /\ ending = NoResult
    /\ r \notin asked
    /\ asked' = asked \cup {r}

\* handleICSForward: the terminal is found, and the command is queued ...
ForwardLocal(r) ==
    /\ r \in LocalCommands /\ Ask(r)
    /\ Dispatch("center", r)
    /\ ending' = Result(r, "ok")
    /\ UNCHANGED <<link, status, excused, unlinked>>

\* Mutant: ret is set before dispatch().
ForwardLocalFailsMutant(r) ==
    /\ r \in LocalCommands /\ Ask(r)
    /\ NotDispatched
    /\ ending' = Result(r, "ok")
    /\ UNCHANGED <<link, status, excused, unlinked>>

\* ... or it is not.
ForwardLocalFails(r) ==
    /\ r \in LocalCommands /\ Ask(r)
    /\ NotDispatched
    /\ ending' = Result(r, "failed")
    /\ UNCHANGED <<link, status, excused, unlinked>>

\* handleRemoteForward: the link is found, and the command is queued on it ...
ForwardRemote(r) ==
    /\ r \in RemoteCommands /\ Ask(r)
    /\ linked
    /\ toProxy' = Append(toProxy, r)
    /\ UNCHANGED <<ending, linked, toCenter, astray, terminals, status, commandsHistory>>

\* ... or dispatch() throws, as there is no chunk, or no path of the file in the
\* database: that is logged, or closes the web's connection, and not recorded.
ForwardRemoteFails(r) ==
    /\ r \in RemoteCommands /\ Ask(r)
    /\ linked
    /\ excused' = excused \cup {r}
    /\ UNCHANGED <<ending, link, terminals, status, queued, unlinked>>

\* There is no link, and the failure is to be recorded: with 0, which is "ok"
\* elsewhere.
ForwardUnlinked(r) ==
    /\ r \in RemoteCommands /\ Ask(r)
    /\ ~linked
    /\ ending' = Result(r, "ok")
    /\ unlinked' = unlinked \cup {r}
    /\ UNCHANGED <<link, terminals, status, queued, excused>>

\* sp_web_command_status
RecordEnding ==
    /\ ending # NoResult
    /\ status' = [status EXCEPT ![ending.cmd] = ending.result]
    /\ ending' = NoResult
    /\ UNCHANGED <<asked, link, terminals, commandsHistory>>

\* ... fails: the exception closes the web's connection.
RecordEndingFails ==
    /\ ending # NoResult
    /\ excused' = excused \cup {ending.cmd}
    /\ ending' = NoResult
    /\ UNCHANGED <<asked, link, terminals, status, queued, unlinked>>

-----------------------------------------------------------------------------
(* The center: results from the proxy                                      *)

\* handleForwardResponse: sp_webcmd_to_remote_proxy
HandleResponse ==
    /\ ending = NoResult
    /\ toCenter # <<>>
    /\ status' = [status EXCEPT ![Head(toCenter).cmd] = Head(toCenter).result]
    /\ toCenter' = Tail(toCenter)
    /\ UNCHANGED <<asked, ending, linked, toProxy, astray, terminals, commandsHistory>>

\* ... fails: the exception closes the link.
HandleResponseFails ==
    /\ ending = NoResult
    /\ toCenter # <<>>
    /\ LoseLink
    /\ excused' = excused \cup OnLink
    /\ UNCHANGED <<asked, ending, terminals, status, queued, unlinked>>

-----------------------------------------------------------------------------
(* The proxy                                                               *)

\* handleForwardToTermianl: the command is queued for the terminal, and the
\* result with it for the center ...
ForwardToTerminal ==
    /\ toProxy # <<>>
    /\ Dispatch("proxy", Head(toProxy))
    /\ toCenter' = Append(toCenter, Result(Head(toProxy), "ok"))
    /\ toProxy' = Tail(toProxy)
    /\ UNCHANGED <<asked, ending, linked, astray, status, excused, unlinked>>

\* Mutant: a terminal that is not found is logged.
ForwardToTerminalFailsMutant ==
    /\ toProxy # <<>>
    /\ NotDispatched
    /\ toProxy' = Tail(toProxy)
    /\ UNCHANGED <<asked, ending, linked, toCenter, astray, status, excused, unlinked>>

\* ... or there is no terminal, or dispatch() throws.
ForwardToTerminalFails ==
    /\ toProxy # <<>>
    /\ NotDispatched
    /\ toCenter' = Append(toCenter, Result(Head(toProxy), "failed"))
    /\ toProxy' = Tail(toProxy)
    /\ UNCHANGED <<asked, ending, linked, astray, status, excused, unlinked>>

\* The same for a command of a link that the center has closed: the result is
\* written to a connection that nobody reads.
ForwardAstray(r) ==
    /\ r \in astray
    /\ Dispatch("proxy", r)
    /\ astray' = astray \ {r}
    /\ UNCHANGED <<asked, ending, linked, toProxy, toCenter, status, excused, unlinked>>

\* The proxy does not get it, or has no terminal, or dispatch() throws.
ForwardAstrayFails(r) ==
    /\ r \in astray
    /\ NotDispatched
    /\ astray' = astray \ {r}
    /\ UNCHANGED <<asked, ending, linked, toProxy, toCenter, status, excused, unlinked>>

-----------------------------------------------------------------------------
(* Connections                                                             *)

\* The link is registered (RemoteLinks).
LinkUp ==
    /\ ~linked
    /\ linked' = TRUE
    /\ UNCHANGED <<asked, ending, toProxy, toCenter, astray, terminals, status,
                   commandsHistory>>

\* The link ends: at the proxy's end or the center's.
LinkDown ==
    /\ linked
    /\ LoseLink
    /\ excused' = excused \cup OnLink
    /\ UNCHANGED <<asked, ending, terminals, status, queued, unlinked>>

\* A terminal authenticates at s.
TerminalOnline(s) ==
    /\ ~online[s]
    /\ online' = [online EXCEPT ![s] = TRUE]
    /\ UNCHANGED <<asked, ending, link, sendList, received, status, commandsHistory>>

\* The front of the send list reaches the terminal.
Transmit(s) ==
    /\ sendList[s] # <<>>
    /\ received' = received \cup {Head(sendList[s])}
    /\ sendList' = [sendList EXCEPT ![s] = Tail(@)]
    /\ UNCHANGED <<asked, ending, link, online, status, commandsHistory>>

\* The terminal's connection ends.
TerminalOffline(s) ==
    /\ online[s]
    /\ online' = [online EXCEPT ![s] = FALSE]
    /\ sendList' = [sendList EXCEPT ![s] = <<>>]
    /\ UNCHANGED <<asked, ending, link, received, status, commandsHistory>>

-----------------------------------------------------------------------------
CenterGoesOn == RecordEnding \/ RecordEndingFails \/ HandleResponse \/ HandleResponseFails

ProxyGoesOn == ForwardToTerminal \/ ForwardToTerminalFails

CommandsNext ==
    \/ \E r \in Commands :
        \/ ForwardLocal(r) \/ ForwardLocalFails(r)
        \/ ForwardRemote(r) \/ ForwardRemoteFails(r) \/ ForwardUnlinked(r)
        \/ ForwardAstray(r) \/ ForwardAstrayFails(r)
    \/ CenterGoesOn \/ ProxyGoesOn
    \/ LinkUp \/ LinkDown
    \/ \E s \in Servers : TerminalOnline(s) \/ Transmit(s) \/ TerminalOffline(s)

\* Both programs handle what has arrived; nothing else must happen.
CommandsFairness == WF_commandsVars(CenterGoesOn) /\ WF_commandsVars(ProxyGoesOn)

CommandsSpec == CommandsInit /\ [][CommandsNext]_commandsVars /\ CommandsFairness

-----------------------------------------------------------------------------
(* Properties                                                              *)

OnSendList == Range(sendList["center"]) \cup Range(sendList["proxy"])

\* What has become of a command, as CommandSpec tells it; "twice" is not among
\* its fates.
fate == [r \in Commands |->
    IF r \in received THEN IF r \in OnSendList THEN "twice" ELSE "received"
    ELSE IF r \in OnSendList THEN "queued"
    ELSE IF r \in queued THEN "dropped"
    ELSE IF r \in astray \/ (status[r] = NoResult /\ r \notin excused) THEN "open"
    ELSE "given up"]

\* What the statuses are worth: those of commands that found no link, which are
\* recorded as "ok" all the same (see OkMeansQueued), count as none.
stated == [r \in Commands |-> IF r \in unlinked THEN NoResult ELSE status[r]]

Promised == INSTANCE CommandSpec WITH status <- stated, None <- NoResult

\* The results recorded are true, whatever fails on the way: a command recorded
\* with 1 has not come to the terminal and will not, one recorded with 0 was
\* queued for it, none comes twice; except for commands that found no link.
Refines == Promised!Spec

\* What the comment in handleRemoteForward says (icslocalserver.cpp:1027, the
\* result of the failed forwarding is recorded), with 0 for success as in
\* handleICSForward: 0 is recorded only for a command that was queued.
OkMeansQueued == \A r \in Commands : status[r] = "ok" => r \in queued

\* Every command gets a status in the end, unless the link or the database failed
\* under it or dispatch() to the link threw: no handler forgets to answer.
Answered == \A r \in Commands : []<>(r \in asked => status[r] # NoResult \/ r \in excused)

=============================================================================
