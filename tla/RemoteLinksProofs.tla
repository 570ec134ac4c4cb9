------------------------- MODULE RemoteLinksProofs -------------------------
(***************************************************************************)
(* Proofs about RemoteLinks, for any number of links and enterprises: the  *)
(* entry of an enterprise is a live link, and as long as an enterprise has *)
(* not had two links at once, its links, its entry and the database agree. *)
(*                                                                         *)
(* The properties are not inductive.  LinkShape(l) says which links may be *)
(* legal, EnterpriseShape(e) how many links e has and what the database    *)
(* shows of it; the latter holds however many links the enterprise has,    *)
(* which is what makes the agreement return once the last of them closes.  *)
(***************************************************************************)
EXTENDS RemoteLinks, TLAPS

\* What each stage of a link leaves open for its message and its proxy.
LinkShape(l) ==
    /\ stage[l] = "none" => message[l] = None /\ legal[l] = FALSE /\ side[l] = "none"
    /\ message[l] = "request2" \/ side[l] = "center" => legal[l] = TRUE

\* How many links an enterprise has, and what the database shows of it.
EnterpriseShape(e) ==
    /\ doubled[e] = FALSE => \A l, m \in OpenLinks(e) : l = m
    /\ crashed[e] = TRUE => shown[e] = TRUE /\ \A l \in OpenLinks(e) : legal[l] = FALSE
    /\ shown[e] = TRUE => crashed[e] = TRUE \/ \E l \in OpenLinks(e) : legal[l] = TRUE

\* The inductive invariant.
IInv ==
    /\ TypeOK
    /\ RegisteredIsLive
    /\ LinkRight
    /\ \A l \in Links : LinkShape(l)
    /\ \A e \in Enterprises : EnterpriseShape(e)

USE NoneAssumption

\* No link exists at first.
LEMMA InitIInv == Init => IInv
  BY DEF Init, IInv, TypeOK, RegisteredIsLive, LinkRight, LinkShape, EnterpriseShape,
     OpenLinks, Keys

\* Whoever closes a link at the center, its entry goes with it.
LEMMA CloseLink ==
    ASSUME IInv, NEW l \in Links, stage[l] = "open", Close(l),
           UNCHANGED <<side, stuck, crashed>>,
           message' = message \/ message' = [message EXCEPT ![l] = None]
    PROVE  IInv'
<1> USE DEF IInv
<1>1. TypeOK'
  BY DEF TypeOK, Close, Keys
<1>2. RegisteredIsLive'
  BY DEF RegisteredIsLive, Close, Keys
<1>3. \A k \in Links : LinkShape(k)'
  BY DEF TypeOK, LinkShape, Close
<1>4. \A e \in Enterprises : EnterpriseShape(e)'
  BY DEF TypeOK, EnterpriseShape, Close, OpenLinks, Keys, Other
<1>5. LinkRight'
  BY DEF TypeOK, RegisteredIsLive, LinkRight, EnterpriseShape, Close, OpenLinks, Keys,
     Other
<1> QED
  BY <1>1, <1>2, <1>3, <1>4, <1>5

\* A new link is not legal, and has no entry.
LEMMA ConnectStep ==
    ASSUME IInv, NEW e \in Enterprises, NEW l \in Links, Connect(e, l)
    PROVE  IInv'
<1> USE DEF IInv
<1>1. TypeOK'
  BY DEF TypeOK, Connect, Keys
<1>2. RegisteredIsLive'
  BY DEF RegisteredIsLive, Connect
<1>3. \A k \in Links : LinkShape(k)'
  BY DEF TypeOK, LinkShape, Connect
<1>4. ASSUME NEW f \in Enterprises PROVE EnterpriseShape(f)'
  <2>1. /\ legal' = legal /\ shown' = shown /\ crashed' = crashed
        /\ legal[l] = FALSE
    BY DEF LinkShape, Connect
  <2>2. CASE f = e
    <3>1. OpenLinks(f)' = OpenLinks(f) \cup {l}
      BY <2>2 DEF TypeOK, Connect, OpenLinks
    <3>2. doubled'[f] = FALSE => OpenLinks(f) = {}
      BY <2>2 DEF TypeOK, Connect
    <3> QED
      BY <2>1, <3>1, <3>2 DEF EnterpriseShape
  <2>3. CASE f # e
    <3>1. OpenLinks(f)' = OpenLinks(f)
      BY <2>3 DEF TypeOK, Connect, OpenLinks
    <3>2. doubled'[f] = doubled[f]
      BY <2>3 DEF Connect
    <3> QED
      BY <2>1, <3>1, <3>2 DEF EnterpriseShape
  <2> QED
    BY <2>2, <2>3
<1>5. LinkRight'
  BY DEF TypeOK, LinkRight, LinkShape, OpenLinks, Connect
<1> QED
  BY <1>1, <1>2, <1>3, <1>4, <1>5

\* The proxy takes the first request.
LEMMA Authrize1Step ==
    ASSUME IInv, NEW l \in Links, Authrize1(l)
    PROVE  IInv'
<1> USE DEF IInv
<1>1. TypeOK'
  BY DEF TypeOK, Authrize1, center, history
<1>2. RegisteredIsLive'
  BY DEF RegisteredIsLive, Authrize1, center
<1>3. \A k \in Links : LinkShape(k)'
  BY DEF LinkShape, Authrize1, center
<1>4. \A e \in Enterprises : EnterpriseShape(e)'
  BY DEF EnterpriseShape, OpenLinks, Authrize1, center, history
<1>5. LinkRight'
  BY DEF LinkRight, OpenLinks, Authrize1, center, history
<1> QED
  BY <1>1, <1>2, <1>3, <1>4, <1>5

\* The proxy takes the second request of a link.
LEMMA Authrize2Step ==
    ASSUME IInv, NEW l \in Links, Authrize2(l)
    PROVE  IInv'
<1> USE DEF IInv
<1>1. TypeOK'
  BY DEF TypeOK, Authrize2, center, history
<1>2. RegisteredIsLive'
  BY DEF RegisteredIsLive, Authrize2, center
<1>3. \A k \in Links : LinkShape(k)'
  BY DEF LinkShape, Authrize2, center
<1>4. \A e \in Enterprises : EnterpriseShape(e)'
  BY DEF EnterpriseShape, OpenLinks, Authrize2, center, history
<1>5. LinkRight'
  BY DEF LinkRight, LinkShape, OpenLinks, Authrize2, center, history
<1> QED
  BY <1>1, <1>2, <1>3, <1>4, <1>5

\* An echo that took too long closes the end of the proxy.
LEMMA Authrize2LateStep ==
    ASSUME IInv, NEW l \in Links, Authrize2Late(l)
    PROVE  IInv'
<1> USE DEF IInv
<1>1. TypeOK'
  BY DEF TypeOK, Authrize2Late, ProxyClose, center, history
<1>2. RegisteredIsLive'
  BY DEF RegisteredIsLive, Authrize2Late, center
<1>3. \A k \in Links : LinkShape(k)'
  BY DEF LinkShape, Authrize2Late, ProxyClose, center
<1>4. \A e \in Enterprises : EnterpriseShape(e)'
  BY DEF EnterpriseShape, OpenLinks, Authrize2Late, center, history
<1>5. LinkRight'
  BY DEF LinkRight, OpenLinks, Authrize2Late, ProxyClose, center, history
<1> QED
  BY <1>1, <1>2, <1>3, <1>4, <1>5

\* The proxy sees that the center has closed.
LEMMA ProxyReadsEndStep ==
    ASSUME IInv, NEW l \in Links, ProxyReadsEnd(l)
    PROVE  IInv'
<1> USE DEF IInv
<1>1. TypeOK'
  BY DEF TypeOK, ProxyReadsEnd, ProxyClose, center, history
<1>2. RegisteredIsLive'
  BY DEF RegisteredIsLive, ProxyReadsEnd, center
<1>3. \A k \in Links : LinkShape(k)'
  BY DEF LinkShape, ProxyReadsEnd, ProxyClose, center
<1>4. \A e \in Enterprises : EnterpriseShape(e)'
  BY DEF EnterpriseShape, OpenLinks, ProxyReadsEnd, center, history
<1>5. LinkRight'
  BY DEF LinkRight, OpenLinks, ProxyReadsEnd, ProxyClose, center, history
<1> QED
  BY <1>1, <1>2, <1>3, <1>4, <1>5

\* The proxy closes its end.
LEMMA ProxyFailsStep ==
    ASSUME IInv, NEW l \in Links, ProxyFails(l)
    PROVE  IInv'
<1> USE DEF IInv
<1>1. TypeOK'
  BY DEF TypeOK, ProxyFails, ProxyClose, center, history
<1>2. RegisteredIsLive'
  BY DEF RegisteredIsLive, ProxyFails, center
<1>3. \A k \in Links : LinkShape(k)'
  BY DEF TypeOK, LinkShape, ProxyFails, ProxyClose, center
<1>4. \A e \in Enterprises : EnterpriseShape(e)'
  BY DEF EnterpriseShape, OpenLinks, ProxyFails, center, history
<1>5. LinkRight'
  BY DEF LinkRight, OpenLinks, ProxyFails, ProxyClose, center, history
<1> QED
  BY <1>1, <1>2, <1>3, <1>4, <1>5

\* The proxy stops answering.
LEMMA ProxyHangsStep ==
    ASSUME IInv, NEW l \in Links, ProxyHangs(l)
    PROVE  IInv'
<1> USE DEF IInv
<1>1. TypeOK'
  BY DEF TypeOK, ProxyHangs, center, proxy
<1>2. RegisteredIsLive'
  BY DEF RegisteredIsLive, ProxyHangs, center
<1>3. \A k \in Links : LinkShape(k)'
  BY DEF LinkShape, ProxyHangs, center, proxy
<1>4. \A e \in Enterprises : EnterpriseShape(e)'
  BY DEF EnterpriseShape, OpenLinks, ProxyHangs, center
<1>5. LinkRight'
  BY DEF LinkRight, OpenLinks, ProxyHangs, center, proxy
<1> QED
  BY <1>1, <1>2, <1>3, <1>4, <1>5

\* An answer read on a link that was closed registers nothing.
LEMMA LateOnClosedLink ==
    ASSUME IInv, NEW l \in Links, stage[l] # "open", AuthResponseLate(l)
    PROVE  IInv'
<1> USE DEF IInv
<1>1. TypeOK'
  BY DEF TypeOK, AuthResponseLate, center
<1>2. RegisteredIsLive'
  BY DEF RegisteredIsLive, AuthResponseLate, center
<1>3. \A k \in Links : LinkShape(k)'
  BY DEF LinkShape, AuthResponseLate, center
<1>4. \A e \in Enterprises : EnterpriseShape(e)'
  BY DEF EnterpriseShape, OpenLinks, AuthResponseLate, center
<1>5. LinkRight'
  BY DEF LinkRight, OpenLinks, AuthResponseLate, center
<1> QED
  BY <1>1, <1>2, <1>3, <1>4, <1>5

\* The answer makes the link legal, and gives it the entry.
LEMMA AuthResponseStep ==
    ASSUME IInv, NEW l \in Links, AuthResponse(l)
    PROVE  IInv'
<1> USE DEF IInv
<1>1. TypeOK'
  BY DEF TypeOK, AuthResponse
<1>2. RegisteredIsLive'
  BY DEF TypeOK, RegisteredIsLive, AuthResponse
<1>3. \A k \in Links : LinkShape(k)'
  BY DEF TypeOK, LinkShape, AuthResponse
<1>4. \A e \in Enterprises : EnterpriseShape(e)'
  BY DEF TypeOK, EnterpriseShape, OpenLinks, AuthResponse
<1>5. LinkRight'
  BY DEF TypeOK, LinkRight, EnterpriseShape, OpenLinks, AuthResponse
<1> QED
  BY <1>1, <1>2, <1>3, <1>4, <1>5

\* A closed link is destroyed.
LEMMA ForgetStep ==
    ASSUME IInv, NEW l \in Links, Forget(l)
    PROVE  IInv'
<1> USE DEF IInv
<1>1. TypeOK'
  BY DEF TypeOK, Forget
<1>2. RegisteredIsLive'
  BY DEF RegisteredIsLive, Forget
<1>3. \A k \in Links : LinkShape(k)'
  BY DEF TypeOK, LinkShape, Forget
<1>4. \A e \in Enterprises : EnterpriseShape(e)'
  BY DEF EnterpriseShape, OpenLinks, Forget
<1>5. LinkRight'
  BY DEF LinkRight, OpenLinks, Forget
<1> QED
  BY <1>1, <1>2, <1>3, <1>4, <1>5

\* The center's process ends; the database stays as it is.
LEMMA CrashStep ==
    ASSUME IInv, Crash
    PROVE  IInv'
<1> USE DEF IInv
<1>1. TypeOK'
  BY DEF TypeOK, Crash, Keys
<1>2. RegisteredIsLive'
  BY DEF RegisteredIsLive, Crash, Keys
<1>3. \A k \in Links : LinkShape(k)'
  BY DEF LinkShape, Crash
<1>4. \A e \in Enterprises : EnterpriseShape(e)'
  BY DEF EnterpriseShape, OpenLinks, Crash
<1>5. LinkRight'
  BY DEF LinkRight, OpenLinks, Crash, Keys
<1> QED
  BY <1>1, <1>2, <1>3, <1>4, <1>5

\* A step that changes nothing keeps it too.
LEMMA Unchanged == ASSUME IInv, UNCHANGED vars PROVE IInv'
  BY DEF IInv, TypeOK, RegisteredIsLive, LinkRight, LinkShape, EnterpriseShape, OpenLinks,
     vars, center, proxy, history

\* One case for each action of Next.
LEMMA StepIInv == IInv /\ [Next]_vars => IInv'
<1> SUFFICES ASSUME IInv, [Next]_vars PROVE IInv'
  OBVIOUS
<1>1. CASE \E l \in Links, e \in Enterprises : Connect(e, l)
  BY <1>1, ConnectStep
<1>2. ASSUME NEW e \in Enterprises, Disconnect(e) PROVE IInv'
  <2>1. registry[e] \in Links
    BY <1>2 DEF IInv, TypeOK, Disconnect, Keys
  <2> QED
    BY <1>2, <2>1, CloseLink DEF Disconnect, proxy
<1>3. ASSUME NEW l \in Links, ProxyHandles(l) PROVE IInv'
  BY <1>3, Authrize1Step, Authrize2Step, Authrize2LateStep, ProxyReadsEndStep DEF
     ProxyHandles
<1>4. ASSUME NEW l \in Links, ProxyFails(l) \/ ProxyHangs(l) PROVE IInv'
  BY <1>4, ProxyFailsStep, ProxyHangsStep
<1>5. ASSUME NEW l \in Links, CenterHandles(l) PROVE IInv'
  <2>1. CASE AuthResponse(l)
    BY <2>1, AuthResponseStep
  <2>2. CASE AuthResponseLate(l)
    <3>1. CASE stage[l] = "open"
      BY <2>2, <3>1, CloseLink DEF AuthResponseLate
    <3>2. CASE stage[l] # "open"
      BY <2>2, <3>2, LateOnClosedLink
    <3> QED
      BY <3>1, <3>2
  <2>3. CASE ReadsEnd(l)
    BY <2>3, CloseLink DEF ReadsEnd
  <2> QED
    BY <1>5, <2>1, <2>2, <2>3 DEF CenterHandles
<1>6. ASSUME NEW l \in Links, Fails(l) PROVE IInv'
  BY <1>6, CloseLink DEF Fails
<1>7. ASSUME NEW l \in Links, Forget(l) PROVE IInv'
  BY <1>7, ForgetStep
<1>8. CASE Crash
  BY <1>8, CrashStep
<1>9. CASE UNCHANGED vars
  BY <1>9, Unchanged
<1> QED
  BY <1>1, <1>2, <1>3, <1>4, <1>5, <1>6, <1>7, <1>8, <1>9 DEF Next

\* The invariant holds in every reachable state, however many links, crashes and
\* proxies that hang.
THEOREM InvariantHolds == Spec => []IInv
  BY InitIInv, StepIInv, PTL DEF Spec

\* The state has the shape that the code gives it.
THEOREM TypeCorrect == Spec => []TypeOK
  BY InvariantHolds, PTL DEF IInv

\* The registry never names a link that is closed, of another enterprise or not
\* authenticated, however many links are opened and closed in whatever order.
THEOREM RegistryLive == Spec => []RegisteredIsLive
  BY InvariantHolds, PTL DEF IInv

\* Without two links of an enterprise at once, links, entry and database agree.
THEOREM LinksRight == Spec => []LinkRight
  BY InvariantHolds, PTL DEF IInv

=============================================================================
