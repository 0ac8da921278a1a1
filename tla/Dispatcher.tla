----------------------------- MODULE Dispatcher -----------------------------
(***************************************************************************)
(* CommandDispatcher with its idempotency cache, called over and over.     *)
(*                                                                         *)
(* HostOrchestratorService builds a dispatcher for every command, which is *)
(* Kept = FALSE; tests and embedders of the class keep one, which is       *)
(* Kept = TRUE.  The dispatcher has no lock: with more than one thread a   *)
(* step of a call is the lookup in the cache, the handler, or the store.   *)
(* Whether a context unlocks a run is ControlPlane's subject; here it is a *)
(* flag that callers pass.                                                 *)
(***************************************************************************)
EXTENDS Naturals, FiniteSets

CONSTANTS
    Calls,     \* invocations of dispatch; a call stands for the receipt_id
               \* of the result it creates
    Keys,      \* idempotency keys
    Runs,      \* command scopes
    Actions,   \* the actions commands ask for, each with its target_mode
    Details,   \* surface_metadata: where a rollback goes, what a clone is
    None,      \* Python's None
    Kept,      \* TRUE: one dispatcher serves every call
    Threads,   \* how many calls are served at once
    MayRaise   \* TRUE: the handler may raise, before or after its effect

FreeActions == {"observe", "mode switch"}

CommandEnvelope ==
    [action : Actions, run : Runs, key : Keys \cup {None}, detail : Details]

Result == [receipt : Calls, status : {"allowed", "denied"}]

CachedDispatch ==
    [print : [action : Actions, run : Runs], receipt : Calls,
     status : {"allowed", "denied"}]

ASSUME DispatcherAssumption ==
    /\ None \notin Keys \cup Calls \cup CommandEnvelope
    /\ None \notin Result \cup CachedDispatch
    /\ Kept \in BOOLEAN /\ MayRaise \in BOOLEAN
    /\ Threads \in Nat \ {0} /\ IsFiniteSet(Calls)

VARIABLES
    unlocked,  \* whether the callers' contexts unlock a run for control
    cache,     \* _idempotency_cache
    pc,        \* where each call is
    cmd,       \* the command it carries
    ctx,       \* whether its DispatchContext unlocks the command's scope
    reply,     \* the DispatchResult it has built; an idempotent_replay
               \* is one that carries the receipt of another call
    applied,   \* history: the calls whose handler took effect
    before     \* history: the calls that had returned when a call began

vars == <<unlocked, cache, pc, cmd, ctx, reply, applied, before>>

Finished == {"returned", "raised"}
Locations == {"idle", "lookup", "handle", "remember"} \cup Finished

(* semantic_fingerprint: the metadata of a command is no part of it. *)
SemanticFingerprint(k) == [action |-> k.action, run |-> k.run]

TypeOK ==
    /\ unlocked \in [Runs -> BOOLEAN]
    /\ cache \in [Keys -> CachedDispatch \cup {None}]
    /\ pc \in [Calls -> Locations]
    /\ cmd \in [Calls -> CommandEnvelope \cup {None}]
    /\ ctx \in [Calls -> BOOLEAN]
    /\ reply \in [Calls -> Result \cup {None}]
    /\ applied \in SUBSET Calls
    /\ before \in [Calls -> SUBSET Calls]

Init ==
    /\ unlocked = [r \in Runs |-> FALSE]
    /\ cache = [k \in Keys |-> None]
    /\ pc = [c \in Calls |-> "idle"]
    /\ cmd = [c \in Calls |-> None]
    /\ ctx = [c \in Calls |-> FALSE]
    /\ reply = [c \in Calls |-> None]
    /\ applied = {}
    /\ before = [c \in Calls |-> {}]

ThreadIsFree ==
    Cardinality({c \in Calls : pc[c] \notin {"idle"} \cup Finished}) < Threads

Goto(c, location) == pc' = [pc EXCEPT ![c] = location]

Answer(c, receipt, status) ==
    reply' = [reply EXCEPT ![c] = [receipt |-> receipt, status |-> status]]

(* A mode switch, a reset or a restart changes what later contexts allow. *)
Relock(r) ==
    /\ unlocked' = [unlocked EXCEPT ![r] = ~@]
    /\ UNCHANGED <<cache, pc, cmd, ctx, reply, applied, before>>

(* The caller builds the context, then calls dispatch. *)
Call(c, k) ==
    /\ pc[c] = "idle" /\ ThreadIsFree
    /\ cmd' = [cmd EXCEPT ![c] = k]
    /\ ctx' = [ctx EXCEPT ![c] = unlocked[k.run]]
    /\ before' = [before EXCEPT ![c] = {d \in Calls : pc[d] = "returned"}]
    /\ Goto(c, "lookup")
    /\ UNCHANGED <<unlocked, cache, reply, applied>>

(* The entry of _get_cached_dispatch, before its fingerprint is compared. *)
Cached(c) ==
    IF Kept /\ cmd[c].key # None THEN cache[cmd[c].key] ELSE None

Replayable(c) ==
    Cached(c) # None /\ Cached(c).print = SemanticFingerprint(cmd[c])

(* _deny_reason *)
Denied(c) == cmd[c].action \notin FreeActions /\ ~ctx[c]

(* Mutant: the fingerprint of a cached entry is not compared. *)
LookupByKey(c) ==
    /\ pc[c] = "lookup"
    /\ \/ /\ Cached(c) # None
          /\ Answer(c, Cached(c).receipt, Cached(c).status)
          /\ Goto(c, "returned")
       \/ /\ Cached(c) = None /\ Denied(c)
          /\ Answer(c, c, "denied")
          /\ Goto(c, "remember")
       \/ /\ Cached(c) = None /\ ~Denied(c)
          /\ Goto(c, "handle") /\ UNCHANGED reply
    /\ UNCHANGED <<unlocked, cache, cmd, ctx, applied, before>>

(* dispatch down to the handler: a cached result is replayed, a key that   *)
(* was used for something else raises, and the rest is judged.             *)
Lookup(c) ==
    /\ pc[c] = "lookup"
    /\ \/ /\ Replayable(c)
          /\ Answer(c, Cached(c).receipt, Cached(c).status)
          /\ Goto(c, "returned")
       \/ /\ Cached(c) # None /\ ~Replayable(c)
          /\ Goto(c, "raised") /\ UNCHANGED reply
       \/ /\ Cached(c) = None /\ Denied(c)
          /\ Answer(c, c, "denied")
          /\ Goto(c, "remember")
       \/ /\ Cached(c) = None /\ ~Denied(c)
          /\ Goto(c, "handle") /\ UNCHANGED reply
    /\ UNCHANGED <<unlocked, cache, cmd, ctx, applied, before>>

(* _invoke_handler.  When the handler raises the error leaves dispatch and *)
(* nothing is remembered, also when the handler had taken effect by then:  *)
(* execute_command's raises after it, if the ledger refuses "completed".   *)
Handle(c) ==
    /\ pc[c] = "handle"
    /\ \/ /\ applied' = applied \cup {c}
          /\ Answer(c, c, "allowed")
          /\ Goto(c, "remember")
       \/ /\ MayRaise
          /\ applied' \in {applied, applied \cup {c}}
          /\ Goto(c, "raised") /\ UNCHANGED reply
    /\ UNCHANGED <<unlocked, cache, cmd, ctx, before>>

(* Mutant: denials are not remembered. *)
RememberAllowed(c) ==
    LET key == cmd[c].key IN
    /\ pc[c] = "remember"
    /\ \/ /\ Kept /\ key # None /\ reply[c].status = "allowed"
          /\ cache' = [cache EXCEPT ![key] =
                          [print |-> SemanticFingerprint(cmd[c]),
                           receipt |-> c, status |-> reply[c].status]]
       \/ ~(Kept /\ key # None) /\ UNCHANGED cache
       \/ reply[c].status = "denied" /\ UNCHANGED cache
    /\ Goto(c, "returned")
    /\ UNCHANGED <<unlocked, cmd, ctx, reply, applied, before>>

(* _remember; a dispatcher built for one call is dropped with its cache. *)
Remember(c) ==
    LET key == cmd[c].key IN
    /\ pc[c] = "remember"
    /\ \/ /\ Kept /\ key # None
          /\ cache' = [cache EXCEPT ![key] =
                          [print |-> SemanticFingerprint(cmd[c]),
                           receipt |-> c, status |-> reply[c].status]]
       \/ ~(Kept /\ key # None) /\ UNCHANGED cache
    /\ Goto(c, "returned")
    /\ UNCHANGED <<unlocked, cmd, ctx, reply, applied, before>>

Step(c) == Lookup(c) \/ Handle(c) \/ Remember(c)

Next ==
    \/ \E r \in Runs : Relock(r)
    \/ \E c \in Calls, k \in CommandEnvelope : Call(c, k)
    \/ \E c \in Calls : Step(c)

Spec == Init /\ [][Next]_vars

-----------------------------------------------------------------------------
(* Properties *)

IsReplay(c) == reply[c].receipt # c

SameKey(c, d) == cmd[c].key = cmd[d].key /\ cmd[c].key # None

(* A result is never made up.  The receipt in a reply belongs to a call    *)
(* that dispatch judged itself, with the same action on the same run and,  *)
(* in a replay, under the same key; "allowed" means that this call's       *)
(* handler took effect, and "denied" that it did not.                      *)
ReplyIsEarned ==
    \A c \in Calls : reply[c] # None =>
        LET t == reply[c].receipt IN
        /\ reply[t] # None /\ reply[t].receipt = t
        /\ reply[t].status = reply[c].status
        /\ (reply[c].status = "allowed") <=> (t \in applied)
        /\ cmd[c].action = cmd[t].action /\ cmd[c].run = cmd[t].run
        /\ IsReplay(c) => SameKey(c, t)

(* Once a key has been answered, allowed or denied, its command is not     *)
(* executed under it again: a call that begins later is answered from the  *)
(* cache, or raises.  A denial stands even if the run is unlocked since,   *)
(* and only calls that overlap, or follow one that raised, both execute.   *)
AnsweredIsReplayed ==
    \A d \in Calls : \A c \in before[d] :
        SameKey(c, d) =>
            /\ d \notin applied
            /\ reply[d] # None => IsReplay(d)

=============================================================================
