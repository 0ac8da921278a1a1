------------------------------- MODULE Gateway -------------------------------
(***************************************************************************)
(* HostModelGatewayService: the host binds each run to a credential and to *)
(* the models it may use, and may bind it again at any time; generate      *)
(* reads the binding once, checks the model, and calls the transport with  *)
(* what it has read.  Several callers generate at once.  The transport is  *)
(* not part of the program: it may raise, and may answer anything.         *)
(***************************************************************************)
EXTENDS Naturals, FiniteSets

CONSTANTS Runs, Models, Credentials, Calls,
          None   \* nothing registered; nothing sent; an id that is not given

ASSUME GatewayAssumption ==
    None \notin [credential_handle : Credentials, allowed_models : SUBSET Models]

VARIABLES
    bindings,   \* the GatewayRunBinding of each run
    call,       \* where each generate is
    request,    \* its GatewayRequest
    checked,    \* the binding it has read
    sent,       \* the GatewayInvocation it made
    response,   \* the GatewayResponse it returned
    heldSince   \* the bindings that its run has had since it began

vars == <<bindings, call, request, checked, sent, response, heldSince>>

GatewayRunBinding == [credential_handle : Credentials,
                      allowed_models : SUBSET Models \ {{}}]
GatewayRequest == [run : Runs, model : Models]
GatewayResponse == [request_id : Calls, run : Runs, model : Models]
GatewayInvocation == [request : GatewayRequest, credential_handle : Credentials,
                      allowed_models : SUBSET Models]

TypeOK ==
    /\ bindings \in [Runs -> GatewayRunBinding \cup {None}]
    /\ call \in [Calls -> {"idle", "allowed", "invoked", "returned", "raised"}]
    /\ request \in [Calls -> GatewayRequest \cup {None}]
    /\ checked \in [Calls -> GatewayRunBinding \cup {None}]
    /\ sent \in [Calls -> GatewayInvocation \cup {None}]
    /\ response \in [Calls -> GatewayResponse \cup {None}]
    /\ heldSince \in [Calls -> SUBSET GatewayRunBinding]

Init ==
    /\ bindings = [r \in Runs |-> None]
    /\ call = [c \in Calls |-> "idle"]
    /\ request = [c \in Calls |-> None]
    /\ checked = [c \in Calls |-> None]
    /\ sent = [c \in Calls |-> None]
    /\ response = [c \in Calls |-> None]
    /\ heldSince = [c \in Calls |-> {}]

Becomes(c, at) == call' = [call EXCEPT ![c] = at]

UnderWay(c) == call[c] \in {"allowed", "invoked"}

(* A run may be bound again: the binding that it has is replaced. *)
RegisterRun(r, b) ==
    /\ bindings' = [bindings EXCEPT ![r] = b]
    /\ heldSince' = [c \in Calls |->
          heldSince[c] \cup {x \in {b} : UnderWay(c) /\ request[c].run = r}]
    /\ UNCHANGED <<call, request, checked, sent, response>>

(* generate, up to the call of the transport: KeyError of a run that is    *)
(* not registered, PermissionError of a model that is not allowed.         *)
BeginGenerate(c, q) ==
    LET binding == bindings[q.run] IN
    /\ call[c] = "idle"
    /\ request' = [request EXCEPT ![c] = q]
    /\ checked' = [checked EXCEPT ![c] = binding]
    /\ heldSince' = [heldSince EXCEPT ![c] = {binding} \ {None}]
    /\ IF binding # None /\ q.model \in binding.allowed_models
       THEN Becomes(c, "allowed") ELSE Becomes(c, "raised")
    /\ UNCHANGED <<bindings, sent, response>>

(* Mutant: the binding is read again. *)
BindingNow(c) == bindings[request[c].run]

(* The binding that an invocation is made with. *)
InvokedBinding(c) == checked[c]

InvokeTransport(c) ==
    /\ call[c] = "allowed"
    /\ sent' = [sent EXCEPT ![c] =
          [request |-> request[c],
           credential_handle |-> InvokedBinding(c).credential_handle,
           allowed_models |-> InvokedBinding(c).allowed_models]]
    /\ Becomes(c, "invoked")
    /\ UNCHANGED <<bindings, request, checked, response, heldSince>>

(* An answer without an id gets that of the request. *)
RequestId(c, id) == IF id = None THEN c ELSE id

TransportAnswers(c, id, r, m) ==
    /\ call[c] = "invoked"
    /\ IF r = request[c].run /\ m = request[c].model
       THEN /\ response' = [response EXCEPT ![c] =
                 [request_id |-> RequestId(c, id), run |-> r, model |-> m]]
            /\ Becomes(c, "returned")
       ELSE UNCHANGED response /\ Becomes(c, "raised")
    /\ UNCHANGED <<bindings, request, checked, sent, heldSince>>

TransportRaises(c) ==
    /\ call[c] = "invoked"
    /\ Becomes(c, "raised")
    /\ UNCHANGED <<bindings, request, checked, sent, response, heldSince>>

Next ==
    \/ \E r \in Runs, b \in GatewayRunBinding : RegisterRun(r, b)
    \/ \E c \in Calls :
          \/ \E q \in GatewayRequest : BeginGenerate(c, q)
          \/ InvokeTransport(c) \/ TransportRaises(c)
          \/ \E id \in Calls \cup {None}, r \in Runs, m \in Models :
                TransportAnswers(c, id, r, m)

Spec == Init /\ [][Next]_vars

-----------------------------------------------------------------------------
(* Properties *)

(* However often the run is bound again meanwhile, a model is called under *)
(* one binding that its run has had since the call began, and that binding *)
(* allows the model: never a credential of another run or of an earlier    *)
(* binding, and never one credential with the models of another.           *)
InvokedAsBound ==
    \A c \in Calls : sent[c] # None =>
        /\ sent[c].request.model \in sent[c].allowed_models
        /\ \E b \in heldSince[c] :
              /\ b.credential_handle = sent[c].credential_handle
              /\ b.allowed_models = sent[c].allowed_models

==============================================================================
