------------------------------ MODULE Providers ------------------------------
(***************************************************************************)
(* The infrastructure proof: a request is routed to a model, asked for     *)
(* with bounded retries, and proved by a command in a sandbox of its own.  *)
(* Several requests run at once and share the sandbox adapter with other   *)
(* clients of it.                                                          *)
(***************************************************************************)
EXTENDS Sandboxes, Routing, Sequences

CONSTANTS Proofs,       \* how many requests the proof endpoint gets
          Clients,      \* other callers of the adapter
          ClientOps,    \* what they call
          Settings,     \* configurations: [key, project : BOOLEAN, models : [Tiers -> id or Blank]]
          Faults,       \* what the provider can raise
          MaxAttempts,  \* settings.model_max_retries, the attempts of one request
          MaxClientCalls  \* bound: calls of the other clients

Requests == 1..Proofs

ASSUME CallersSplit == Callers = Requests \cup Clients /\ Requests \cap Clients = {}
ASSUME ClientOpsKnown == ClientOps \subseteq Ops
ASSUME SettingsKnown ==
  Settings \subseteq [key : BOOLEAN, project : BOOLEAN, models : [Tiers -> STRING \ Capabilities]]
ASSUME AttemptsPositive == MaxAttempts \in Nat \ {0}
ASSUME RoomForAll == Proofs \in Nat /\ MaxClientCalls \in Nat /\ MaxCalls = 2 * Proofs + MaxClientCalls

(* The numbers of a request's sandbox and command, and of a client's calls. *)
BoxOf(r)     == r
CommandOf(r) == Proofs + r
ClientCall(i) == 2 * Proofs + i

VARIABLES settings,  \* the configuration of this process
          request,   \* [Requests -> [pc, faults, raised, key, found]]
          clientCalls

vars == <<sandboxVars, settings, request, clientCalls>>

NewRequest == [pc |-> "new", faults |-> <<>>, raised |-> "none", key |-> Gone, found |-> {}]

Init ==
  /\ SandboxInit
  /\ settings \in Settings
  /\ request = [r \in Requests |-> NewRequest]
  /\ clientCalls = 0

(* The failure taxonomy: what an SDK exception or an HTTP status becomes.   *)
ProviderErrors == {"authentication", "provider_unavailable", "model_unavailable",
                   "request_timeout", "rate_limit"}

SandboxErrors == {"sandbox_creation", "sandbox_execution", "command_timeout"}

StatusCategory(status) ==
  CASE status \in {"status_401", "status_403"} -> "authentication"
    [] status = "status_404" -> "model_unavailable"
    [] status = "status_429" -> "rate_limit"
    [] status \in {"status_500", "status_502", "status_503", "status_504"} ->
         "provider_unavailable"
    [] OTHER -> "unknown"

Category(fault) ==
  CASE fault = "timeout"    -> "request_timeout"
    [] fault = "connection" -> "provider_unavailable"
    [] OTHER -> StatusCategory(fault)

Retryable == {"provider_unavailable", "request_timeout", "rate_limit"}

(* _is_retryable and the attempt count decide whether the fault is raised.  *)
OneMoreThanAllowed(faults) ==
  /\ Len(faults) <= MaxAttempts
  /\ Category(faults[Len(faults)]) \in Retryable

TriesAgain(faults) ==
  /\ Len(faults) < MaxAttempts
  /\ Category(faults[Len(faults)]) \in Retryable

Goes(r, pc) == request' = [request EXCEPT ![r].pc = pc]

(* The endpoint answers 503 to a configuration error, 502 to any other of   *)
(* the taxonomy, 500 to the rest.                                           *)
Status(category) ==
  CASE category = "configuration" -> "status_503"
    [] category \in ProviderErrors \cup SandboxErrors \cup {"unknown"} -> "status_502"
    [] OTHER -> "status_500"

Raises(r, category) ==
  request' = [request EXCEPT ![r].pc = Status(category), ![r].raised = category]

Elsewhere == UNCHANGED <<settings, clientCalls>>

HasCredentials == settings.key /\ settings.project

(* execute: both providers are built before anything is asked, so a missing *)
(* key or project refuses at once; then the request is routed.              *)
Submit(r) ==
  LET models == settings.models IN
  /\ request[r].pc = "new"
  /\ IF HasCredentials /\ Route(models, models["nano"], FALSE) # Refused
     THEN Goes(r, "ask")
     ELSE Raises(r, "configuration")
  /\ Elsewhere /\ UNCHANGED sandboxVars

(* One attempt at the provider. *)
Answer(r) ==
  /\ request[r].pc = "ask"
  /\ request' = [request EXCEPT ![r].pc = "create", ![r].faults = <<>>]
  /\ Elsewhere /\ UNCHANGED sandboxVars

(* A completion without choices is raised after the retries, once.          *)
EmptyAnswer(r) ==
  /\ request[r].pc = "ask"
  /\ Raises(r, "unknown")
  /\ Elsewhere /\ UNCHANGED sandboxVars

(* Faulty variant: a fault that is tried again is not counted.              *)
FaultUncounted(r) ==
  /\ request[r].pc = "ask"
  /\ \E fault \in Faults :
       LET faults == Append(request[r].faults, fault) IN
       request' = [request EXCEPT ![r] =
         IF TriesAgain(faults)
         THEN [@ EXCEPT !.pc = "wait"]
         ELSE [@ EXCEPT !.faults = faults, !.pc = Status(Category(fault)),
                        !.raised = Category(fault)]]
  /\ Elsewhere /\ UNCHANGED sandboxVars

Fault(r) ==
  /\ request[r].pc = "ask"
  /\ \E fault \in Faults :
       LET faults == Append(request[r].faults, fault) IN
       request' = [request EXCEPT ![r] =
         IF TriesAgain(faults)
         THEN [@ EXCEPT !.faults = faults, !.pc = "wait"]
         ELSE [@ EXCEPT !.faults = faults, !.pc = Status(Category(fault)),
                        !.raised = Category(fault)]]
  /\ Elsewhere /\ UNCHANGED sandboxVars

(* An exception outside the taxonomy is neither translated nor retried.     *)
Breaks(r) ==
  /\ request[r].pc = "ask"
  /\ Raises(r, "untranslated")
  /\ Elsewhere /\ UNCHANGED sandboxVars

Backoff(r) ==
  /\ request[r].pc = "wait"
  /\ Goes(r, "ask")
  /\ Elsewhere /\ UNCHANGED sandboxVars

Create(r) ==
  /\ request[r].pc = "create"
  /\ \/ /\ CreateSandbox(BoxOf(r))
        /\ request' = [request EXCEPT ![r].pc = "command", ![r].key = KeyOf(BoxOf(r))]
     \/ Raises(r, "sandbox_creation") /\ UNCHANGED sandboxVars
  /\ Elsewhere

(* The command is disposable; the sandbox is there unless another client    *)
(* destroyed it.                                                            *)
Starts(r, op) ==
  /\ Begin(r, op, request[r].key, CommandOf(r))
  /\ request' = [request EXCEPT ![r].pc = "execute", ![r].found = server[images[request[r].key]]]

DurableCommand(r) ==
  /\ request[r].pc = "command"
  /\ \/ Starts(r, "run")
     \/ images[request[r].key] = Gone /\ Raises(r, "sandbox_execution") /\ UNCHANGED sandboxVars
  /\ Elsewhere

Command(r) ==
  /\ request[r].pc = "command"
  /\ \/ Starts(r, "disposable")
     \/ images[request[r].key] = Gone /\ Raises(r, "sandbox_execution") /\ UNCHANGED sandboxVars
  /\ Elsewhere

Execute(r) ==
  /\ request[r].pc = "execute"
  /\ \/ Return(r) /\ Goes(r, "status_200")
     \/ Fail(r) /\ \E category \in {"sandbox_execution", "command_timeout"} : Raises(r, category)
  /\ Elsewhere

Proof(r) ==
  \/ Submit(r) \/ Answer(r) \/ EmptyAnswer(r) \/ Fault(r) \/ Breaks(r) \/ Backoff(r)
  \/ Create(r) \/ Command(r) \/ Execute(r)

---------------------------------------------------------------------------
(* The other clients use the ids they were handed; the base image's uuid,   *)
(* where it is the key of all its sandboxes, is among them, the id of a     *)
(* call that has not returned is not.                                       *)

BaseKey == IF baseKnown THEN {Base} ELSE {}
Handed  == BaseKey \cup ({ClientCall(i) : i \in 1..clientCalls} \ {call[c].number : c \in Callers})
Known   == BaseKey \cup returned

Another == clientCalls < MaxClientCalls /\ clientCalls' = clientCalls + 1

ClientCreates ==
  /\ Another
  /\ CreateSandbox(ClientCall(clientCalls'))
  /\ UNCHANGED <<settings, request>>

ClientBegins(c) ==
  /\ Another
  /\ \E op \in ClientOps, k \in Handed : Begin(c, op, k, ClientCall(clientCalls'))
  /\ UNCHANGED <<settings, request>>

ClientEnds(c) ==
  /\ Return(c) \/ Fail(c)
  /\ UNCHANGED <<settings, request, clientCalls>>

(* Rolled back is any key, destroyed or not: the adapter does not look.     *)
ClientRollsBack ==
  /\ Another
  /\ \E k \in Handed, s \in Known : Rollback(k, s)
  /\ UNCHANGED <<settings, request>>

ClientDestroys ==
  /\ Another
  /\ \E k \in Handed : Destroy(k)
  /\ UNCHANGED <<settings, request>>

Next ==
  \/ \E r \in Requests : Proof(r)
  \/ \E c \in Clients : ClientBegins(c) \/ ClientEnds(c)
  \/ ClientCreates \/ ClientRollsBack \/ ClientDestroys

(* The SDKs bound every wait: the model by its timeout, a command by its    *)
(* budget and the operation timeout.                                        *)
Spec == Init /\ [][Next]_vars /\ \A r \in Requests : WF_vars(request[r].pc # "new" /\ Proof(r))

---------------------------------------------------------------------------
(* Properties. *)

Ended == {"status_200", "status_500", "status_502", "status_503"}

(* Retries are bounded and only for transient faults: every fault that was  *)
(* tried again was one, a transient fault is raised only when the attempts  *)
(* are used up, and a request refused for its configuration reached neither *)
(* provider.                                                                *)
RetriesHonest ==
  \A r \in Requests :
    LET faults == request[r].faults  n == Len(faults) IN
    /\ n <= MaxAttempts
    /\ \A i \in 1..n : request[r].raised = "none" \/ i < n => Category(faults[i]) \in Retryable
    /\ request[r].raised \in Retryable => n = MaxAttempts
    /\ request[r].raised = "configuration" => n = 0 /\ request[r].key = Gone

(* A model named by its id is the one asked, whichever tiers share the id;  *)
(* a larger context never lowers the tier, a simple task never raises it.   *)
RoutingSound ==
  LET models == settings.models IN
  /\ \A tier \in Tiers, large \in BOOLEAN :
       LET route == Route(models, models[tier], large) IN
       route # Refused => route.model = models[tier] /\ models[route.tier] = models[tier]
  /\ \A capability \in Capabilities, task \in {"simple", "normal", "hard"} :
       LET near == Decide(models, capability, task, FALSE)
           far  == Decide(models, capability, task, TRUE)
           base == Decide(models, capability, "normal", FALSE)
       IN  /\ Refused \notin {near, far} => Rank[near.tier] <= Rank[far.tier]
           /\ Refused \notin {near, base} => Rank[near.tier] <= Rank[base.tier]

RequestsHonest == RetriesHonest /\ RoutingSound

(* Proofs do not see each other: what a proof's command did is never part   *)
(* of what a sandbox holds, also where every sandbox of the base image has  *)
(* one key; and with keys of their own, each command ran on the bare image. *)
ProofsIsolated ==
  \A r \in Requests :
    /\ \A k \in States : images[k] # Gone => CommandOf(r) \notin server[images[k]]
    /\ baseKnown \/ request[r].found = {}

(* Every proof that was submitted is answered. *)
ProofEnds == \A r \in Requests : request[r].pc # "new" ~> request[r].pc \in Ended

=============================================================================
