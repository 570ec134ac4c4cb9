------------------------- MODULE MCRemoteCommands -------------------------
(***************************************************************************)
(* The links to the proxies of enterprises (RemoteLinks) and the commands  *)
(* that go over them or to terminals of the center (Commands), in one run. *)
(* The modules have no variable in common - Commands has a link that comes *)
(* and goes in place of RemoteLinks - so that each behaviour is of one of  *)
(* them, while the other rests: the states are the sum of the two state    *)
(* spaces and not their product.                                           *)
(*                                                                         *)
(* RemoteLinks has one enterprise and three links: two that the web opens  *)
(* at once, and one that it opens after one of them has taken the other's  *)
(* entry with it.  Commands has two commands for a terminal of an          *)
(* enterprise, which may be on the link at once, and one for a terminal of *)
(* the center.                                                             *)
(***************************************************************************)
EXTENDS RemoteLinks, Commands

VARIABLE part       \* the part that this behaviour is of

MCInit ==
    /\ part \in {"links", "commands"}
    /\ Init /\ CommandsInit

LinksMove == part = "links" /\ UNCHANGED <<part, commandsVars>>
CommandsMove == part = "commands" /\ UNCHANGED <<part, vars>>

\* Next or CommandsNext, with the disjuncts apart so that TLC counts each.
MCNext ==
    \/ \E l \in Links, e \in Enterprises : LinksMove /\ Connect(e, l)
    \/ \E e \in Enterprises : LinksMove /\ Disconnect(e)
    \/ \E l \in Links : LinksMove /\ Authrize1(l)
    \/ \E l \in Links : LinksMove /\ Authrize2(l)
    \/ \E l \in Links : LinksMove /\ Authrize2Late(l)
    \/ \E l \in Links : LinksMove /\ ProxyReadsEnd(l)
    \/ \E l \in Links : LinksMove /\ ProxyFails(l)
    \/ \E l \in Links : LinksMove /\ ProxyHangs(l)
    \/ \E l \in Links : LinksMove /\ AuthResponse(l)
    \/ \E l \in Links : LinksMove /\ AuthResponseLate(l)
    \/ \E l \in Links : LinksMove /\ ReadsEnd(l)
    \/ \E l \in Links : LinksMove /\ Fails(l)
    \/ \E l \in Links : LinksMove /\ Forget(l)
    \/ LinksMove /\ Crash
    \/ \E r \in Commands : CommandsMove /\ ForwardLocal(r)
    \/ \E r \in Commands : CommandsMove /\ ForwardLocalFails(r)
    \/ \E r \in Commands : CommandsMove /\ ForwardRemote(r)
    \/ \E r \in Commands : CommandsMove /\ ForwardRemoteFails(r)
    \/ \E r \in Commands : CommandsMove /\ ForwardUnlinked(r)
    \/ \E r \in Commands : CommandsMove /\ ForwardAstray(r)
    \/ \E r \in Commands : CommandsMove /\ ForwardAstrayFails(r)
    \/ CommandsMove /\ RecordEnding
    \/ CommandsMove /\ RecordEndingFails
    \/ CommandsMove /\ HandleResponse
    \/ CommandsMove /\ HandleResponseFails
    \/ CommandsMove /\ ForwardToTerminal
    \/ CommandsMove /\ ForwardToTerminalFails
    \/ CommandsMove /\ LinkUp
    \/ CommandsMove /\ LinkDown
    \/ \E s \in Servers : CommandsMove /\ TerminalOnline(s)
    \/ \E s \in Servers : CommandsMove /\ Transmit(s)
    \/ \E s \in Servers : CommandsMove /\ TerminalOffline(s)

\* Nothing that the fairness of a part is about is enabled while it rests.
MCSpec ==
    /\ MCInit /\ [][MCNext]_<<part, vars, commandsVars>>
    /\ Fairness /\ CommandsFairness

=============================================================================
