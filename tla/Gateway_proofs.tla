---------------------------- MODULE Gateway_proofs ----------------------------
(* Proofs about Gateway, for any number of runs, models and calls.         *)
EXTENDS Gateway, TLAPS

(* What a call has read and done at each of its locations. *)
CallFits(c) ==
    /\ call[c] = "idle" => sent[c] = None
    /\ UnderWay(c) => request[c] \in GatewayRequest
    /\ call[c] = "allowed" =>
          /\ checked[c] \in heldSince[c]
          /\ request[c].model \in checked[c].allowed_models

CallsFit == \A c \in Calls : CallFits(c)

GatewayInv == TypeOK /\ CallsFit /\ InvokedAsBound

LEMMA GatewayInit == Init => GatewayInv
  BY DEF Init, GatewayInv, TypeOK, CallsFit, CallFits, UnderWay, InvokedAsBound

LEMMA BindingType ==
    ASSUME NEW b \in GatewayRunBinding
    PROVE  /\ b # None /\ b.credential_handle \in Credentials
           /\ b.allowed_models \in SUBSET Models
  BY GatewayAssumption DEF GatewayRunBinding

-----------------------------------------------------------------------------
(* One lemma for each action *)

LEMMA RegisterStep ==
    ASSUME GatewayInv, NEW r \in Runs, NEW b \in GatewayRunBinding,
           RegisterRun(r, b)
    PROVE  GatewayInv'
<1>1. TypeOK'
  BY DEF GatewayInv, TypeOK, RegisterRun
<1>2. \A c \in Calls : heldSince[c] \subseteq heldSince'[c]
  BY DEF RegisterRun
<1>3. CallsFit'
  BY <1>2 DEF GatewayInv, CallsFit, CallFits, UnderWay, RegisterRun
<1>4. InvokedAsBound'
  BY <1>2 DEF GatewayInv, InvokedAsBound, RegisterRun
<1> QED
  BY <1>1, <1>3, <1>4 DEF GatewayInv

LEMMA BeginStep ==
    ASSUME GatewayInv, NEW c \in Calls, NEW q \in GatewayRequest,
           BeginGenerate(c, q)
    PROVE  GatewayInv'
<1>1. q.run \in Runs /\ bindings[q.run] \in GatewayRunBinding \cup {None}
  BY DEF GatewayInv, TypeOK, GatewayRequest
<1>2. sent[c] = None /\ call[c] = "idle"
  BY DEF GatewayInv, CallsFit, CallFits, BeginGenerate
<1>3. TypeOK'
  BY <1>1 DEF GatewayInv, TypeOK, BeginGenerate, Becomes
<1>4. CallsFit'
  <2> SUFFICES ASSUME NEW d \in Calls PROVE CallFits(d)'
    BY DEF CallsFit
  <2>1. CASE d = c
    BY <1>1, <1>2, <2>1
       DEF GatewayInv, TypeOK, CallFits, UnderWay, BeginGenerate, Becomes
  <2>2. CASE d # c
    BY <2>2 DEF GatewayInv, TypeOK, CallsFit, CallFits, UnderWay, BeginGenerate, Becomes
  <2> QED
    BY <2>1, <2>2
<1>5. InvokedAsBound'
  <2> SUFFICES ASSUME NEW d \in Calls, sent[d] # None
               PROVE  heldSince'[d] = heldSince[d]
    BY DEF GatewayInv, InvokedAsBound, BeginGenerate
  <2> QED
    BY <1>2 DEF GatewayInv, TypeOK, BeginGenerate
<1> QED
  BY <1>3, <1>4, <1>5 DEF GatewayInv

LEMMA InvokeStep ==
    ASSUME GatewayInv, NEW c \in Calls, InvokeTransport(c)
    PROVE  GatewayInv'
<1>1. /\ call[c] = "allowed" /\ request[c] \in GatewayRequest
      /\ checked[c] \in heldSince[c] /\ checked[c] \in GatewayRunBinding
      /\ request[c].model \in checked[c].allowed_models
  BY DEF GatewayInv, TypeOK, CallsFit, CallFits, UnderWay, InvokeTransport
<1> DEFINE w == [request |-> request[c],
                 credential_handle |-> checked[c].credential_handle,
                 allowed_models |-> checked[c].allowed_models]
<1>w. w \in GatewayInvocation
  BY <1>1, BindingType DEF GatewayInvocation
<1>2. PICK v \in GatewayInvocation : v = w
  BY <1>w
<1>3. sent' = [sent EXCEPT ![c] = v]
  BY <1>2 DEF InvokeTransport, InvokedBinding
<1>4. TypeOK'
  BY <1>2, <1>3 DEF GatewayInv, TypeOK, InvokeTransport, Becomes
<1>5. CallsFit'
  BY <1>1, <1>3
     DEF GatewayInv, TypeOK, CallsFit, CallFits, UnderWay, InvokeTransport, Becomes
<1>6. InvokedAsBound'
  <2> SUFFICES ASSUME NEW d \in Calls, sent'[d] # None
               PROVE  /\ sent'[d].request.model \in sent'[d].allowed_models
                      /\ \E b \in heldSince[d] :
                            /\ b.credential_handle = sent'[d].credential_handle
                            /\ b.allowed_models = sent'[d].allowed_models
    BY DEF InvokedAsBound, InvokeTransport
  <2>1. CASE d = c
    <3>1. sent'[d] = v
      BY <1>3, <2>1 DEF GatewayInv, TypeOK
    <3> QED
      BY <1>1, <1>2, <2>1, <3>1
  <2>2. CASE d # c
    <3>1. sent'[d] = sent[d]
      BY <1>3, <2>2 DEF GatewayInv, TypeOK
    <3> QED
      BY <3>1 DEF GatewayInv, InvokedAsBound
  <2> QED
    BY <2>1, <2>2
<1> QED
  BY <1>4, <1>5, <1>6 DEF GatewayInv

LEMMA AnswerStep ==
    ASSUME GatewayInv, NEW c \in Calls, NEW id \in Calls \cup {None},
           NEW r \in Runs, NEW m \in Models, TransportAnswers(c, id, r, m)
    PROVE  GatewayInv'
<1>1. [request_id |-> RequestId(c, id), run |-> r, model |-> m] \in GatewayResponse
  BY DEF RequestId, GatewayResponse
<1>2. TypeOK'
  BY <1>1 DEF GatewayInv, TypeOK, TransportAnswers, Becomes
<1>3. CallsFit'
  BY DEF GatewayInv, TypeOK, CallsFit, CallFits, UnderWay, TransportAnswers, Becomes
<1>4. InvokedAsBound'
  BY DEF GatewayInv, InvokedAsBound, TransportAnswers
<1> QED
  BY <1>2, <1>3, <1>4 DEF GatewayInv

LEMMA RaiseStep ==
    ASSUME GatewayInv, NEW c \in Calls, TransportRaises(c)
    PROVE  GatewayInv'
<1>1. TypeOK'
  BY DEF GatewayInv, TypeOK, TransportRaises, Becomes
<1>2. CallsFit'
  BY DEF GatewayInv, TypeOK, CallsFit, CallFits, UnderWay, TransportRaises, Becomes
<1>3. InvokedAsBound'
  BY DEF GatewayInv, InvokedAsBound, TransportRaises
<1> QED
  BY <1>1, <1>2, <1>3 DEF GatewayInv

LEMMA GatewayInvariant == Spec => []GatewayInv
<1>1. ASSUME GatewayInv, UNCHANGED vars PROVE GatewayInv'
  BY <1>1 DEF vars, GatewayInv, TypeOK, CallsFit, CallFits, UnderWay, InvokedAsBound
<1>2. GatewayInv /\ [Next]_vars => GatewayInv'
  BY <1>1, RegisterStep, BeginStep, InvokeStep, AnswerStep, RaiseStep DEF Next
<1> QED
  BY <1>2, GatewayInit, PTL DEF Spec

(* Every reachable state of the gateway is well typed. *)
THEOREM TypeCorrect == Spec => []TypeOK
<1>1. GatewayInv => TypeOK
  BY DEF GatewayInv
<1> QED
  BY <1>1, GatewayInvariant, PTL

(* A model is called under one binding of its run, not older than the      *)
(* call, that allows it: for any number of calls at once, and however      *)
(* often the run is bound again.                                           *)
THEOREM ModelsAreCalledAsBound == Spec => []InvokedAsBound
<1>1. GatewayInv => InvokedAsBound
  BY DEF GatewayInv
<1> QED
  BY <1>1, GatewayInvariant, PTL

=============================================================================
