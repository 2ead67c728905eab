------------------------ MODULE CertificateServerProofs ------------------------
(***************************************************************************)
(* Proofs, for every set of goroutines, certificates and tokens, of the    *)
(* invariants of CertificateServer.                                        *)
(***************************************************************************)
EXTENDS CertificateServer, TLAPS

\* What goroutine g may do.
Step(g) ==
    \/ RefuseRequest(g)
    \/ \E id \in CertID, t \in ChallengeToken, key \in KeyAuth : StartChallenge(g, id, t, key)
    \/ FindCertificate(g)
    \/ CreatePending(g)
    \/ SaveChallenge(g)
    \/ \E id \in CertID, t \in ChallengeToken : CompleteChallenge(g, id, t)
    \/ DeleteChallenge(g)
    \/ LoadCertificate(g)
    \/ IssueCertificate(g)
    \/ \E id \in CertID : GetCertificate(g, id)
    \/ \E t \in ChallengeToken : ServeACMEChallenge(g, t)
    \/ StoreFails(g)

\* Everything starts empty, as NewMemoryStore leaves it.
LEMMA InitInductive == Init => IInv
<1>. SUFFICES ASSUME Init PROVE IInv
  OBVIOUS
<1>. USE DEF Init
<1>1. TypeOK
  BY DEF TypeOK, Steps, Replies
<1>2. HandlersCoherent /\ ChallengeHasCertificate /\ ConsumedOnce /\ IssuedByChallenge
  BY NoneAssumption DEF Status, HandlersCoherent, ChallengeHasCertificate, ConsumedOnce,
     IssuedByChallenge
<1>. QED
  BY <1>1, <1>2 DEF IInv

\* Each handler step writes values of the right kind.
LEMMA StepTypes ==
    ASSUME IInv, NEW g \in Goroutine, Step(g)
    PROVE  TypeOK'
<1>. USE NoneAssumption DEF IInv, TypeOK, HandlersCoherent, Steps, Replies, Status,
         Goto, Answer, Receive, storeVars, historyVars
<1>1. CASE RefuseRequest(g)
  BY <1>1 DEF RefuseRequest
<1>2. ASSUME NEW id \in CertID, NEW t \in ChallengeToken, NEW key \in KeyAuth,
             StartChallenge(g, id, t, key)
      PROVE  TypeOK'
  BY <1>2 DEF StartChallenge, Request
<1>3. CASE FindCertificate(g)
  BY <1>3 DEF FindCertificate
<1>4. CASE CreatePending(g)
  BY <1>4 DEF CreatePending
<1>5. CASE SaveChallenge(g)
  <2>. DEFINE t  == challenge[g].token
              ch == [certificateID |-> certID[g],
                     keyAuthorization |-> challenge[g].keyAuthorization]
  <2>1. certID[g] \in CertID /\ challenge[g] \in Request
    BY <1>5 DEF SaveChallenge
  <2>2. t \in ChallengeToken
    BY <2>1 DEF Request
  <2>. QED
    BY <1>5, <2>1, <2>2 DEF SaveChallenge, Request, Challenge
<1>6. ASSUME NEW id \in CertID, NEW t \in ChallengeToken, CompleteChallenge(g, id, t)
      PROVE  TypeOK'
  BY <1>6 DEF CompleteChallenge, Request
<1>7. CASE DeleteChallenge(g)
  <2>. DEFINE t == challenge[g].token
  <2>1. certID[g] \in CertID
    BY <1>7 DEF DeleteChallenge
  <2>2. CASE challenges[t] # None
    BY <1>7, <2>1, <2>2 DEF DeleteChallenge
  <2>3. CASE challenges[t] = None
    BY <1>7, <2>3 DEF DeleteChallenge
  <2>. QED
    BY <2>2, <2>3
<1>8. CASE LoadCertificate(g)
  BY <1>8 DEF LoadCertificate
<1>9. CASE IssueCertificate(g)
  BY <1>9 DEF IssueCertificate
<1>10. CASE StoreFails(g)
  BY <1>10 DEF StoreFails
<1>11. ASSUME NEW id \in CertID, GetCertificate(g, id) PROVE TypeOK'
  BY <1>11 DEF GetCertificate
<1>12. ASSUME NEW t \in ChallengeToken, ServeACMEChallenge(g, t) PROVE TypeOK'
  BY <1>12 DEF ServeACMEChallenge
<1>. QED
  BY <1>1, <1>2, <1>3, <1>4, <1>5, <1>6, <1>7, <1>8, <1>9, <1>10, <1>11, <1>12 DEF Step

\* What the handlers hold survives a step: no handler removes a certificate, and
\* a handler that goes on to the next step keeps its request.
LEMMA StepHandlers ==
    ASSUME IInv, NEW g \in Goroutine, Step(g)
    PROVE  HandlersCoherent'
<1>. USE NoneAssumption DEF IInv, TypeOK, HandlersCoherent, Steps, Status,
         Goto, Answer, Receive, storeVars, historyVars
<1>1. CASE RefuseRequest(g)
  BY <1>1 DEF RefuseRequest
<1>2. ASSUME NEW id \in CertID, NEW t \in ChallengeToken, NEW key \in KeyAuth,
             StartChallenge(g, id, t, key)
      PROVE  HandlersCoherent'
  BY <1>2 DEF StartChallenge, Request
<1>3. CASE FindCertificate(g)
  BY <1>3 DEF FindCertificate
<1>4. CASE CreatePending(g)
  BY <1>4 DEF CreatePending
<1>5. CASE SaveChallenge(g)
  BY <1>5 DEF SaveChallenge
<1>6. ASSUME NEW id \in CertID, NEW t \in ChallengeToken, CompleteChallenge(g, id, t)
      PROVE  HandlersCoherent'
  BY <1>6 DEF CompleteChallenge, Request
<1>7. CASE DeleteChallenge(g)
  BY <1>7 DEF DeleteChallenge, Request
<1>8. CASE LoadCertificate(g)
  BY <1>8 DEF LoadCertificate
<1>9. CASE IssueCertificate(g)
  BY <1>9 DEF IssueCertificate
<1>10. CASE StoreFails(g)
  BY <1>10 DEF StoreFails
<1>11. ASSUME NEW id \in CertID, GetCertificate(g, id) PROVE HandlersCoherent'
  BY <1>11 DEF GetCertificate
<1>12. ASSUME NEW t \in ChallengeToken, ServeACMEChallenge(g, t) PROVE HandlersCoherent'
  BY <1>12 DEF ServeACMEChallenge
<1>. QED
  BY <1>1, <1>2, <1>3, <1>4, <1>5, <1>6, <1>7, <1>8, <1>9, <1>10, <1>11, <1>12 DEF Step

\* The four actions that write to a store map preserve what is said of the
\* maps; the others leave them alone.
LEMMA StepStore ==
    ASSUME IInv, NEW g \in Goroutine, Step(g)
    PROVE  ChallengeHasCertificate' /\ ConsumedOnce' /\ IssuedByChallenge'
<1>. DEFINE Held == ChallengeHasCertificate /\ ConsumedOnce /\ IssuedByChallenge
<1>. USE NoneAssumption DEF IInv, Status
<1>1. ASSUME UNCHANGED <<certificates, challenges, provisioned, consumed, proven>>
      PROVE  Held'
  BY <1>1 DEF ChallengeHasCertificate, ConsumedOnce, IssuedByChallenge
<1>2. CASE CreatePending(g)
  <2>1. /\ certificates' = [certificates EXCEPT ![certID[g]] = "pending"]
        /\ UNCHANGED <<challenges, provisioned, consumed, proven>>
    BY <1>2 DEF CreatePending, historyVars
  <2>. QED
    BY <2>1 DEF TypeOK, ChallengeHasCertificate, ConsumedOnce, IssuedByChallenge
<1>3. CASE SaveChallenge(g)
  <2>. DEFINE t  == challenge[g].token
              ch == [certificateID |-> certID[g],
                     keyAuthorization |-> challenge[g].keyAuthorization]
  <2>1. /\ challenges' = [challenges EXCEPT ![t] = ch]
        /\ provisioned' = [provisioned EXCEPT ![t] = @ + 1]
        /\ UNCHANGED <<certificates, consumed, proven>>
    BY <1>3 DEF SaveChallenge
  <2>2. certID[g] \in CertID /\ certificates[certID[g]] # None /\ t \in ChallengeToken
    BY <1>3 DEF SaveChallenge, HandlersCoherent, TypeOK, Request
  <2>3. ChallengeHasCertificate'
    BY <2>1, <2>2 DEF ChallengeHasCertificate, TypeOK
  <2>4. ConsumedOnce'
    <3>. SUFFICES ASSUME NEW u \in ChallengeToken
                  PROVE  consumed[u] + (IF challenges'[u] # None THEN 1 ELSE 0) <= provisioned'[u]
      BY <2>1 DEF ConsumedOnce
    <3>1. consumed[u] <= provisioned[u] /\ consumed[u] \in Nat /\ provisioned[u] \in Nat
      BY DEF ConsumedOnce, TypeOK
    <3>2. CASE u = t
      BY <2>1, <3>1, <3>2 DEF TypeOK
    <3>3. CASE u # t
      BY <2>1, <3>3 DEF TypeOK, ConsumedOnce
    <3>. QED
      BY <3>2, <3>3
  <2>. QED
    BY <2>1, <2>3, <2>4 DEF IssuedByChallenge
<1>4. CASE DeleteChallenge(g)
  <2>. DEFINE t == challenge[g].token
  <2>1. t \in ChallengeToken
    BY <1>4 DEF DeleteChallenge, HandlersCoherent, TypeOK, Request
  <2>2. CASE challenges[t] = None
    BY <1>1, <1>4, <2>2 DEF DeleteChallenge
  <2>3. CASE challenges[t] # None
    <3>1. /\ challenges' = [challenges EXCEPT ![t] = None]
          /\ consumed' = [consumed EXCEPT ![t] = @ + 1]
          /\ proven' = proven \cup {certID[g]}
          /\ UNCHANGED <<certificates, provisioned>>
      BY <1>4, <2>3 DEF DeleteChallenge
    <3>2. ChallengeHasCertificate' /\ IssuedByChallenge'
      BY <2>1, <3>1 DEF TypeOK, ChallengeHasCertificate, IssuedByChallenge
    <3>3. ConsumedOnce'
      BY <2>1, <2>3, <3>1 DEF TypeOK, ConsumedOnce
    <3>. QED
      BY <3>2, <3>3
  <2>. QED
    BY <2>2, <2>3
<1>5. CASE IssueCertificate(g)
  <2>1. /\ certificates' = [certificates EXCEPT ![certID[g]] = "issued"]
        /\ UNCHANGED <<challenges, provisioned, consumed, proven>>
    BY <1>5 DEF IssueCertificate, historyVars
  <2>2. certID[g] \in proven
    BY <1>5 DEF IssueCertificate, HandlersCoherent
  <2>. QED
    BY <2>1, <2>2 DEF TypeOK, ChallengeHasCertificate, ConsumedOnce, IssuedByChallenge
<1>. QED
  BY <1>1, <1>2, <1>3, <1>4, <1>5 DEF Step, RefuseRequest, StartChallenge, FindCertificate,
     CompleteChallenge, LoadCertificate, GetCertificate, ServeACMEChallenge, StoreFails,
     Receive, storeVars, historyVars

\* What the handlers hold between two accesses to the store, the store and the
\* histories stay in agreement in every reachable state.
THEOREM Inductive == Spec => []IInv
<1>1. IInv /\ [Next]_vars => IInv'
  <2>. SUFFICES ASSUME IInv, [Next]_vars PROVE IInv'
    OBVIOUS
  <2>1. ASSUME NEW g \in Goroutine, Step(g) PROVE IInv'
    BY <2>1, StepTypes, StepHandlers, StepStore DEF IInv
  <2>2. CASE UNCHANGED vars
    BY <2>2 DEF vars, IInv, TypeOK, HandlersCoherent, ChallengeHasCertificate,
       ConsumedOnce, IssuedByChallenge
  <2>. QED
    BY <2>1, <2>2 DEF Next, Step
<1>. QED
  BY InitInductive, <1>1, PTL DEF Spec

\* The maps, the locals and the histories keep their types.
THEOREM TypeCorrect == Spec => []TypeOK
<1>. IInv => TypeOK
  BY DEF IInv
<1>. QED
  BY Inductive, PTL

\* No challenge is ever served for a certificate the server does not know,
\* between any two store calls of any number of handlers.
THEOREM ChallengeCorrect == Spec => []ChallengeHasCertificate
<1>. IInv => ChallengeHasCertificate
  BY DEF IInv
<1>. QED
  BY Inductive, PTL

\* However many CompleteChallenge requests race, each provisioning of a
\* challenge is consumed by at most one of them.
THEOREM ConsumedCorrect == Spec => []ConsumedOnce
<1>. IInv => ConsumedOnce
  BY DEF IInv
<1>. QED
  BY Inductive, PTL

\* An issued certificate was issued for a challenge that a request for it consumed.
THEOREM IssuedCorrect == Spec => []IssuedByChallenge
<1>. IInv => IssuedByChallenge
  BY DEF IInv
<1>. QED
  BY Inductive, PTL

\* A certificate that is issued, with no start that missed its record still
\* about to write one, is issued for good, for any number of requests.
THEOREM SettledCorrect == Spec => SettledForGood
<1>1. IInv /\ [Next]_vars => [\A id \in CertID : Settled(id) => Settled(id)']_vars
  <2>. SUFFICES ASSUME IInv, [Next]_vars, NEW id \in CertID, Settled(id)
                PROVE  Settled(id)'
    OBVIOUS
  <2>1. /\ certificates \in [CertID -> Status \cup {None}]
        /\ pc \in [Goroutine -> Steps] /\ certID \in [Goroutine -> CertID \cup {None}]
    BY DEF IInv, TypeOK
  <2>2. certificates[id] = "issued" /\ \A g \in Goroutine : pc[g] = "create" => certID[g] # id
    BY DEF Settled
  <2>3. ASSUME NEW g \in Goroutine, Step(g) PROVE Settled(id)'
    <3>1. \A h \in Goroutine \ {g} : pc'[h] = pc[h] /\ certID'[h] = certID[h]
      BY <2>1, <2>3 DEF Step, RefuseRequest, StartChallenge, FindCertificate, CreatePending,
         SaveChallenge, CompleteChallenge, DeleteChallenge, LoadCertificate,
         IssueCertificate, GetCertificate, ServeACMEChallenge, StoreFails,
         Receive, Answer, Goto
    <3>2. pc'[g] = "create" => certID'[g] # id
      <4>1. CASE FindCertificate(g)
        <5>1. /\ pc' = [pc EXCEPT ![g] = IF certificates[certID[g]] = None
                                          THEN "create" ELSE "provision"]
              /\ certID' = certID
          BY <4>1 DEF FindCertificate, Goto
        <5>2. certID[g] = id => pc'[g] = "provision"
          BY <2>1, <2>2, <5>1, NoneAssumption DEF Status
        <5>. QED
          BY <5>1, <5>2
      <4>2. CASE ~FindCertificate(g)
        <5>1. pc'[g] # "create"
          BY <2>1, <2>3, <4>2 DEF Step, RefuseRequest, StartChallenge, CreatePending,
             SaveChallenge, CompleteChallenge, DeleteChallenge, LoadCertificate,
             IssueCertificate, GetCertificate, ServeACMEChallenge, StoreFails,
             Receive, Answer, Goto
        <5>. QED
          BY <5>1
      <4>. QED
        BY <4>1, <4>2
    <3>3. certificates'[id] = "issued"
      <4>1. CASE CreatePending(g)
        BY <2>1, <2>2, <4>1 DEF CreatePending
      <4>2. CASE IssueCertificate(g)
        BY <2>1, <2>2, <4>2 DEF IssueCertificate
      <4>3. CASE ~CreatePending(g) /\ ~IssueCertificate(g)
        <5>1. certificates' = certificates
          BY <2>3, <4>3 DEF Step, RefuseRequest, StartChallenge, FindCertificate,
             SaveChallenge, CompleteChallenge, DeleteChallenge, LoadCertificate,
             GetCertificate, ServeACMEChallenge, StoreFails, Receive, storeVars
        <5>. QED
          BY <2>2, <5>1
      <4>. QED
        BY <4>1, <4>2, <4>3
    <3>. QED
      BY <2>2, <3>1, <3>2, <3>3 DEF Settled
  <2>4. CASE UNCHANGED vars
    BY <2>2, <2>4 DEF vars, Settled
  <2>. QED
    BY <2>3, <2>4 DEF Next, Step
<1>. QED
  BY Inductive, <1>1, PTL DEF Spec, SettledForGood

=============================================================================
