-------------------------- MODULE Dispatcher_proofs --------------------------
(* Proofs about Dispatcher, for any number of calls, keys and threads.     *)
EXTENDS Dispatcher, TLAPS

(* What a call holds at each of its locations. *)
CallsAreSound ==
    \A c \in Calls :
        /\ pc[c] = "idle" => before[c] = {}
        /\ pc[c] # "idle" => cmd[c] # None
        /\ pc[c] \in {"idle", "lookup", "handle"} =>
              reply[c] = None /\ c \notin applied
        /\ pc[c] = "raised" => reply[c] = None
        /\ pc[c] = "remember" => reply[c] # None /\ reply[c].receipt = c
        /\ pc[c] = "returned" => reply[c] # None

(* An entry of the cache repeats the result of the call that stored it.    *)
CacheIsEarned ==
    \A k \in Keys : cache[k] # None =>
        LET t == cache[k].receipt IN
        /\ reply[t] # None /\ reply[t].receipt = t
        /\ reply[t].status = cache[k].status
        /\ cmd[t].key = k
        /\ SemanticFingerprint(cmd[t]) = cache[k].print

(* ReplyIsEarned in terms of the fingerprint that the code compares. *)
ResultIsEarned ==
    \A c \in Calls : reply[c] # None =>
        LET t == reply[c].receipt IN
        /\ reply[t] # None /\ reply[t].receipt = t
        /\ reply[t].status = reply[c].status
        /\ (reply[c].status = "allowed") <=> (t \in applied)
        /\ SemanticFingerprint(cmd[c]) = SemanticFingerprint(cmd[t])
        /\ IsReplay(c) => SameKey(c, t)

(* A key that was answered is in the cache of a dispatcher that is kept.   *)
AnsweredIsCached ==
    \A c \in Calls :
        Kept /\ pc[c] = "returned" /\ cmd[c].key # None =>
            cache[cmd[c].key] # None

BeforeHasReturned ==
    \A d \in Calls : \A c \in before[d] : pc[c] = "returned"

(* Past the lookup a call without a replay has nothing before it. *)
PastLookupIsFirst ==
    \A d \in Calls : \A c \in before[d] :
        SameKey(c, d) =>
            /\ pc[d] \notin {"handle", "remember"}
            /\ d \notin applied
            /\ reply[d] # None => IsReplay(d)

EarnedInv == TypeOK /\ CallsAreSound /\ CacheIsEarned /\ ResultIsEarned

FirstInv == AnsweredIsCached /\ BeforeHasReturned /\ PastLookupIsFirst

-----------------------------------------------------------------------------
(* The types *)

LEMMA EnvelopeType ==
    ASSUME NEW k \in CommandEnvelope
    PROVE  /\ k # None /\ k.run \in Runs /\ k.key \in Keys \cup {None}
           /\ SemanticFingerprint(k) \in [action : Actions, run : Runs]
  BY DispatcherAssumption DEF CommandEnvelope, SemanticFingerprint

LEMMA ResultType ==
    ASSUME NEW t \in Calls, NEW s \in {"allowed", "denied"}
    PROVE  /\ [receipt |-> t, status |-> s] \in Result
           /\ [receipt |-> t, status |-> s] # None
  BY DispatcherAssumption DEF Result

(* The four ways a lookup ends. *)
Replayed(c) ==
    LET key == cmd[c].key IN
    /\ Kept /\ key \in Keys /\ cache[key] \in CachedDispatch
    /\ cache[key].print = SemanticFingerprint(cmd[c])
    /\ \E r \in Result :
          /\ r.receipt = cache[key].receipt /\ r.status = cache[key].status
          /\ r # None
          /\ reply' = [reply EXCEPT ![c] = r]
    /\ pc' = [pc EXCEPT ![c] = "returned"]

Misused(c) ==
    /\ Cached(c) # None
    /\ pc' = [pc EXCEPT ![c] = "raised"] /\ reply' = reply

Refused(c) ==
    /\ Cached(c) = None
    /\ \E r \in Result :
          /\ r.receipt = c /\ r.status = "denied" /\ r # None
          /\ reply' = [reply EXCEPT ![c] = r]
    /\ pc' = [pc EXCEPT ![c] = "remember"]

Admitted(c) ==
    /\ Cached(c) = None
    /\ pc' = [pc EXCEPT ![c] = "handle"] /\ reply' = reply

LEMMA LookupEnds ==
    ASSUME TypeOK, CallsAreSound, NEW c \in Calls, Lookup(c)
    PROVE  /\ Replayed(c) \/ Misused(c) \/ Refused(c) \/ Admitted(c)
           /\ cmd[c] \in CommandEnvelope /\ cmd[c] # None
<1>1. cmd[c] \in CommandEnvelope /\ cmd[c] # None
  BY DEF TypeOK, CallsAreSound, Lookup
<1>2. CASE Replayable(c) /\ Answer(c, Cached(c).receipt, Cached(c).status)
           /\ Goto(c, "returned")
  <2> DEFINE key == cmd[c].key
  <2>1. Kept /\ key \in Keys /\ Cached(c) = cache[key] /\ cache[key] # None
    BY <1>1, <1>2, EnvelopeType DEF Replayable, Cached
  <2>2. cache[key] \in CachedDispatch
    BY <2>1 DEF TypeOK
  <2>3. /\ cache[key].receipt \in Calls
        /\ cache[key].status \in {"allowed", "denied"}
    BY <2>2 DEF CachedDispatch
  <2> QED
    BY <1>1, <1>2, <2>1, <2>2, <2>3, ResultType
       DEF Replayed, Replayable, Answer, Goto
<1>3. CASE Cached(c) # None /\ Goto(c, "raised") /\ UNCHANGED reply
  BY <1>1, <1>3 DEF Misused, Goto
<1>4. CASE Cached(c) = None /\ Answer(c, c, "denied")
           /\ Goto(c, "remember")
  BY <1>1, <1>4, ResultType DEF Refused, Answer, Goto
<1>5. CASE Cached(c) = None /\ Goto(c, "handle") /\ UNCHANGED reply
  BY <1>1, <1>5 DEF Admitted, Goto
<1> QED
  BY <1>1, <1>2, <1>3, <1>4, <1>5 DEF Lookup

(* The two ways a handler ends. *)
Handled(c) ==
    /\ applied' = applied \cup {c}
    /\ \E r \in Result :
          /\ r.receipt = c /\ r.status = "allowed" /\ r # None
          /\ reply' = [reply EXCEPT ![c] = r]
    /\ pc' = [pc EXCEPT ![c] = "remember"]

Broken(c) ==
    /\ applied' \in {applied, applied \cup {c}}
    /\ pc' = [pc EXCEPT ![c] = "raised"] /\ reply' = reply

LEMMA HandleEnds ==
    ASSUME NEW c \in Calls, Handle(c)
    PROVE  Handled(c) \/ Broken(c)
  BY ResultType DEF Handle, Handled, Broken, Answer, Goto

(* What a call stores. *)
Stored(c) ==
    LET key == cmd[c].key IN
    \/ /\ Kept /\ key \in Keys
       /\ \E e \in CachedDispatch :
             /\ e.print = SemanticFingerprint(cmd[c])
             /\ e.receipt = c /\ e.status = reply[c].status /\ e # None
             /\ cache' = [cache EXCEPT ![key] = e]
    \/ /\ ~Kept \/ key = None
       /\ cache' = cache

LEMMA RememberStores ==
    ASSUME TypeOK, CallsAreSound, NEW c \in Calls, Remember(c)
    PROVE  /\ Stored(c)
           /\ cmd[c] \in CommandEnvelope /\ cmd[c] # None
           /\ reply[c] \in Result /\ reply[c] # None /\ reply[c].receipt = c
<1>1. /\ cmd[c] \in CommandEnvelope /\ cmd[c] # None
      /\ reply[c] \in Result /\ reply[c] # None /\ reply[c].receipt = c
  BY DEF TypeOK, CallsAreSound, Remember
<1> DEFINE key == cmd[c].key
           entry == [print |-> SemanticFingerprint(cmd[c]),
                     receipt |-> c, status |-> reply[c].status]
<1>2. reply[c].status \in {"allowed", "denied"}
  BY <1>1 DEF Result
<1>3. entry \in CachedDispatch /\ entry # None
  BY <1>1, <1>2, EnvelopeType, DispatcherAssumption DEF CachedDispatch
<1>4. key \in Keys \cup {None}
  BY <1>1, EnvelopeType
<1>5. ASSUME Kept /\ key # None PROVE Stored(c)
  <2>1. /\ entry.print = SemanticFingerprint(cmd[c])
        /\ entry.receipt = c /\ entry.status = reply[c].status
    OBVIOUS
  <2>2. cache' = [cache EXCEPT ![key] = entry]
    BY <1>5 DEF Remember
  <2> HIDE DEF entry
  <2> QED
    BY <1>3, <1>4, <1>5, <2>1, <2>2 DEF Stored
<1>6. ASSUME ~(Kept /\ key # None) PROVE Stored(c)
  BY <1>6 DEF Remember, Stored
<1>7. Stored(c)
  BY <1>5, <1>6
<1> QED
  BY <1>1, <1>7

LEMMA TypeStep == TypeOK /\ CallsAreSound /\ [Next]_vars => TypeOK'
<1> SUFFICES ASSUME TypeOK, CallsAreSound, [Next]_vars PROVE TypeOK'
  OBVIOUS
<1>1. ASSUME NEW r \in Runs, Relock(r) PROVE TypeOK'
  BY <1>1 DEF TypeOK, Relock
<1>2. ASSUME NEW c \in Calls, NEW k \in CommandEnvelope, Call(c, k)
      PROVE  TypeOK'
  BY <1>2, EnvelopeType DEF TypeOK, Call, Goto, Locations
<1>3. ASSUME NEW c \in Calls, Lookup(c) PROVE TypeOK'
  <2>1. UNCHANGED <<unlocked, cache, cmd, ctx, applied, before>>
    BY <1>3 DEF Lookup
  <2>2. reply' \in [Calls -> Result \cup {None}] /\ pc' \in [Calls -> Locations]
    BY <1>3, LookupEnds DEF TypeOK, Locations, Finished, Replayed, Misused,
                            Refused, Admitted
  <2> QED
    BY <2>1, <2>2 DEF TypeOK
<1>4. ASSUME NEW c \in Calls, Handle(c) PROVE TypeOK'
  <2>1. UNCHANGED <<unlocked, cache, cmd, ctx, before>>
    BY <1>4 DEF Handle
  <2>2. /\ reply' \in [Calls -> Result \cup {None}]
        /\ pc' \in [Calls -> Locations] /\ applied' \in SUBSET Calls
    BY <1>4, HandleEnds DEF TypeOK, Locations, Finished, Handled, Broken
  <2> QED
    BY <2>1, <2>2 DEF TypeOK
<1>5. ASSUME NEW c \in Calls, Remember(c) PROVE TypeOK'
  <2>1. cache' \in [Keys -> CachedDispatch \cup {None}]
    BY <1>5, RememberStores DEF TypeOK, Stored
  <2> QED
    BY <1>5, <2>1 DEF TypeOK, Remember, Goto, Locations, Finished
<1>6. CASE UNCHANGED vars
  BY <1>6 DEF TypeOK, vars
<1> QED
  BY <1>1, <1>2, <1>3, <1>4, <1>5, <1>6 DEF Next, Step

LEMMA SoundStep == TypeOK /\ CallsAreSound /\ [Next]_vars => CallsAreSound'
<1> SUFFICES ASSUME TypeOK, CallsAreSound, [Next]_vars PROVE CallsAreSound'
  OBVIOUS
<1>1. ASSUME NEW r \in Runs, Relock(r) PROVE CallsAreSound'
  BY <1>1 DEF CallsAreSound, Relock
<1>2. ASSUME NEW c \in Calls, NEW k \in CommandEnvelope, Call(c, k)
      PROVE  CallsAreSound'
  BY <1>2, EnvelopeType DEF TypeOK, CallsAreSound, Call, Goto
<1>3. ASSUME NEW c \in Calls, Lookup(c) PROVE CallsAreSound'
  <2>1. UNCHANGED <<cmd, applied, before>> /\ pc[c] = "lookup"
    BY <1>3 DEF Lookup
  <2> QED
    BY <1>3, <2>1, LookupEnds DEF TypeOK, CallsAreSound, Replayed, Misused,
                                  Refused, Admitted
<1>4. ASSUME NEW c \in Calls, Handle(c) PROVE CallsAreSound'
  <2>1. UNCHANGED <<cmd, before>> /\ pc[c] = "handle"
    BY <1>4 DEF Handle
  <2> QED
    BY <1>4, <2>1, HandleEnds DEF TypeOK, CallsAreSound, Handled, Broken
<1>5. ASSUME NEW c \in Calls, Remember(c) PROVE CallsAreSound'
  BY <1>5 DEF TypeOK, CallsAreSound, Remember, Goto
<1>6. CASE UNCHANGED vars
  BY <1>6 DEF CallsAreSound, vars
<1> QED
  BY <1>1, <1>2, <1>3, <1>4, <1>5, <1>6 DEF Next, Step

THEOREM TypeCorrect == Spec => []TypeOK
<1>1. Init => TypeOK /\ CallsAreSound
  BY DEF Init, TypeOK, CallsAreSound, Locations, Finished
<1> QED
  BY <1>1, TypeStep, SoundStep, PTL DEF Spec

-----------------------------------------------------------------------------
(* Replies are earned *)

(* Nothing that a reply or an entry rests on changes: a call that has no   *)
(* result yet is the only one whose command, result or effect moves.       *)
LEMMA EarnedElsewhere ==
    ASSUME EarnedInv, TypeOK', NEW c \in Calls, reply[c] = None,
           \A d \in Calls \ {c} :
              /\ reply'[d] = reply[d] /\ cmd'[d] = cmd[d]
              /\ (d \in applied') <=> (d \in applied)
    PROVE  /\ \A d \in Calls \ {c} : reply[d] # None =>
                 LET t == reply'[d].receipt IN
                 /\ t # c /\ reply'[t] # None /\ reply'[t].receipt = t
                 /\ reply'[t].status = reply'[d].status
                 /\ (reply'[d].status = "allowed") <=> (t \in applied')
                 /\ SemanticFingerprint(cmd'[d]) = SemanticFingerprint(cmd'[t])
                 /\ t # d => cmd'[d].key = cmd'[t].key /\ cmd'[d].key # None
           /\ cache' = cache => CacheIsEarned'
<1>1. ASSUME NEW d \in Calls, reply[d] # None
      PROVE  reply[d].receipt \in Calls /\ reply[d].receipt # c
  BY <1>1 DEF EarnedInv, TypeOK, ResultIsEarned, Result
<1>2. ASSUME NEW k \in Keys, cache[k] # None
      PROVE  cache[k].receipt \in Calls /\ cache[k].receipt # c
  BY <1>2 DEF EarnedInv, TypeOK, CacheIsEarned, CachedDispatch
<1>3. ASSUME cache' = cache PROVE CacheIsEarned'
  BY <1>2, <1>3 DEF EarnedInv, CacheIsEarned
<1>4. ASSUME NEW d \in Calls \ {c}, reply[d] # None
      PROVE  LET t == reply'[d].receipt IN
             /\ t # c /\ reply'[t] # None /\ reply'[t].receipt = t
             /\ reply'[t].status = reply'[d].status
             /\ (reply'[d].status = "allowed") <=> (t \in applied')
             /\ SemanticFingerprint(cmd'[d]) = SemanticFingerprint(cmd'[t])
             /\ t # d => cmd'[d].key = cmd'[t].key /\ cmd'[d].key # None
  BY <1>1, <1>4 DEF EarnedInv, ResultIsEarned, IsReplay, SameKey
<1> QED
  BY <1>3, <1>4

LEMMA EarnedStep == EarnedInv /\ [Next]_vars => EarnedInv'
<1> SUFFICES ASSUME EarnedInv, [Next]_vars PROVE CacheIsEarned' /\ ResultIsEarned'
  BY TypeStep, SoundStep DEF EarnedInv
<1>0. TypeOK' /\ CallsAreSound' /\ TypeOK /\ CallsAreSound
  BY TypeStep, SoundStep DEF EarnedInv
<1>1. ASSUME NEW r \in Runs, Relock(r) PROVE CacheIsEarned' /\ ResultIsEarned'
  BY <1>1 DEF EarnedInv, CacheIsEarned, ResultIsEarned, Relock, IsReplay,
              SameKey
<1>2. ASSUME NEW c \in Calls, NEW k \in CommandEnvelope, Call(c, k)
      PROVE  CacheIsEarned' /\ ResultIsEarned'
  <2>1. reply[c] = None /\ reply' = reply /\ cache' = cache
    BY <1>0, <1>2 DEF Call, CallsAreSound
  <2>2. \A d \in Calls \ {c} :
           /\ reply'[d] = reply[d] /\ cmd'[d] = cmd[d]
           /\ (d \in applied') <=> (d \in applied)
    BY <1>0, <1>2 DEF Call, TypeOK
  <2> QED
    BY <1>0, <2>1, <2>2, EarnedElsewhere DEF ResultIsEarned, IsReplay, SameKey
<1>3. ASSUME NEW c \in Calls, Lookup(c) PROVE CacheIsEarned' /\ ResultIsEarned'
  <2>1. /\ reply[c] = None /\ c \notin applied
        /\ UNCHANGED <<cache, cmd, applied>>
    BY <1>0, <1>3 DEF Lookup, CallsAreSound
  <2>2. \A d \in Calls \ {c} : reply'[d] = reply[d]
    BY <1>0, <1>3, LookupEnds
       DEF Replayed, Misused, Refused, Admitted, TypeOK
  <2>3. CacheIsEarned'
    BY <1>0, <2>1, <2>2, EarnedElsewhere
  <2>4. ASSUME reply'[c] # None
        PROVE  LET t == reply'[c].receipt IN
               /\ reply'[t] # None /\ reply'[t].receipt = t
               /\ reply'[t].status = reply'[c].status
               /\ (reply'[c].status = "allowed") <=> (t \in applied')
               /\ SemanticFingerprint(cmd'[c]) = SemanticFingerprint(cmd'[t])
               /\ t # c => cmd'[c].key = cmd'[t].key /\ cmd'[c].key # None
    <3>1. CASE Replayed(c)
      <4> DEFINE e == cache[cmd[c].key]  t == e.receipt
      <4>1. /\ e \in CachedDispatch /\ cmd[c].key \in Keys
            /\ e.print = SemanticFingerprint(cmd[c])
            /\ reply'[c].receipt = t /\ reply'[c].status = e.status
        BY <1>0, <3>1 DEF Replayed, TypeOK
      <4>2. e # None /\ t \in Calls
        BY <4>1, DispatcherAssumption DEF CachedDispatch
      <4>3. /\ reply[t] # None /\ reply[t].receipt = t
            /\ reply[t].status = e.status /\ cmd[t].key = cmd[c].key
            /\ SemanticFingerprint(cmd[t]) = e.print
        BY <4>1, <4>2 DEF EarnedInv, CacheIsEarned
      <4>4. (reply[t].status = "allowed") <=> (t \in applied)
        BY <4>2, <4>3 DEF EarnedInv, ResultIsEarned
      <4>5. t # c /\ reply'[t] = reply[t] /\ cmd[c].key # None
        BY <2>1, <2>2, <4>1, <4>2, <4>3, DispatcherAssumption
      <4> HIDE DEF e, t
      <4> QED
        BY <2>1, <4>1, <4>3, <4>4, <4>5
    <3>2. CASE Refused(c)
      BY <1>0, <2>1, <3>2 DEF Refused, TypeOK
    <3> QED
      BY <1>0, <1>3, <2>1, <2>4, <3>1, <3>2, LookupEnds DEF Misused, Admitted
  <2>5. ASSUME NEW d \in Calls \ {c}, reply'[d] # None
        PROVE  LET t == reply'[d].receipt IN
               /\ reply'[t] # None /\ reply'[t].receipt = t
               /\ reply'[t].status = reply'[d].status
               /\ (reply'[d].status = "allowed") <=> (t \in applied')
               /\ SemanticFingerprint(cmd'[d]) = SemanticFingerprint(cmd'[t])
               /\ t # d => cmd'[d].key = cmd'[t].key /\ cmd'[d].key # None
    BY <1>0, <2>1, <2>2, <2>5, EarnedElsewhere
  <2> QED
    BY <2>3, <2>4, <2>5 DEF ResultIsEarned, IsReplay, SameKey
<1>4. ASSUME NEW c \in Calls, Handle(c) PROVE CacheIsEarned' /\ ResultIsEarned'
  <2>1. reply[c] = None /\ UNCHANGED <<cache, cmd>>
    BY <1>0, <1>4 DEF Handle, CallsAreSound
  <2>2. \A d \in Calls \ {c} :
           reply'[d] = reply[d] /\ ((d \in applied') <=> (d \in applied))
    BY <1>0, <1>4, HandleEnds DEF Handled, Broken, TypeOK
  <2>3. reply'[c] # None =>
           /\ reply'[c].receipt = c /\ reply'[c].status = "allowed"
           /\ c \in applied'
    BY <1>0, <1>4, <2>1, HandleEnds DEF Handled, Broken, TypeOK
  <2> QED
    BY <1>0, <2>1, <2>2, <2>3, EarnedElsewhere
       DEF ResultIsEarned, IsReplay, SameKey
<1>5. ASSUME NEW c \in Calls, Remember(c)
      PROVE  CacheIsEarned' /\ ResultIsEarned'
  <2>1. UNCHANGED <<reply, cmd, applied>>
    BY <1>5 DEF Remember
  <2>2. ResultIsEarned'
    BY <2>1 DEF EarnedInv, ResultIsEarned, IsReplay, SameKey
  <2>3. ASSUME NEW k \in Keys, cache'[k] # None, cache'[k] # cache[k]
        PROVE  LET t == cache'[k].receipt IN
               /\ reply[t] # None /\ reply[t].receipt = t
               /\ reply[t].status = cache'[k].status
               /\ cmd[t].key = k
               /\ SemanticFingerprint(cmd[t]) = cache'[k].print
    BY <1>0, <1>5, <2>3, RememberStores DEF Stored, TypeOK
  <2> QED
    BY <2>1, <2>2, <2>3 DEF EarnedInv, CacheIsEarned
<1>6. CASE UNCHANGED vars
  BY <1>6 DEF EarnedInv, CacheIsEarned, ResultIsEarned, IsReplay, SameKey, vars
<1> QED
  BY <1>1, <1>2, <1>3, <1>4, <1>5, <1>6 DEF Next, Step

(* A result, replayed or not, is one that the dispatcher earned, whether   *)
(* it is kept or built anew for every call.                                *)
THEOREM RepliesAreEarned == Spec => []ReplyIsEarned
<1>1. Init => EarnedInv
  BY DEF Init, EarnedInv, TypeOK, CallsAreSound, CacheIsEarned, ResultIsEarned,
         Locations, Finished
<1>2. EarnedInv => ReplyIsEarned
  BY DEF EarnedInv, ResultIsEarned, ReplyIsEarned, SemanticFingerprint
<1> QED
  BY <1>1, <1>2, EarnedStep, PTL DEF Spec

-----------------------------------------------------------------------------
(* A kept dispatcher answers a key once *)

LEMMA CachedStep ==
    EarnedInv /\ AnsweredIsCached /\ [Next]_vars => AnsweredIsCached'
<1> SUFFICES ASSUME EarnedInv, AnsweredIsCached, [Next]_vars,
                    NEW c \in Calls, Kept, pc'[c] = "returned",
                    cmd'[c].key # None
             PROVE  cache'[cmd'[c].key] # None
  BY DEF AnsweredIsCached
<1>0. TypeOK /\ CallsAreSound
  BY DEF EarnedInv
<1>1. ASSUME NEW r \in Runs, Relock(r) PROVE cache'[cmd'[c].key] # None
  BY <1>1 DEF Relock, AnsweredIsCached
<1>2. ASSUME NEW d \in Calls, NEW k \in CommandEnvelope, Call(d, k)
      PROVE  cache'[cmd'[c].key] # None
  BY <1>0, <1>2 DEF Call, Goto, TypeOK, AnsweredIsCached
<1>3. ASSUME NEW d \in Calls, Lookup(d) PROVE cache'[cmd'[c].key] # None
  <2>1. UNCHANGED <<cache, cmd>>
    BY <1>3 DEF Lookup
  <2>2. pc[c] = "returned" \/ (c = d /\ Replayed(d))
    BY <1>0, <1>3, LookupEnds
       DEF Replayed, Misused, Refused, Admitted, TypeOK
  <2> QED
    BY <2>1, <2>2, DispatcherAssumption DEF AnsweredIsCached, Replayed
<1>4. ASSUME NEW d \in Calls, Handle(d) PROVE cache'[cmd'[c].key] # None
  <2>1. UNCHANGED <<cache, cmd>>
    BY <1>4 DEF Handle
  <2>2. pc[c] = "returned"
    BY <1>0, <1>4, HandleEnds DEF Handled, Broken, TypeOK
  <2> QED
    BY <2>1, <2>2 DEF AnsweredIsCached
<1>5. ASSUME NEW d \in Calls, Remember(d) PROVE cache'[cmd'[c].key] # None
  <2>1. cmd' = cmd /\ Stored(d) /\ pc' = [pc EXCEPT ![d] = "returned"]
    BY <1>0, <1>5, RememberStores DEF Remember, Goto
  <2>2. cmd[c] \in CommandEnvelope
    BY <1>0, <1>5, <2>1 DEF TypeOK, CallsAreSound, Remember
  <2> QED
    BY <1>0, <2>1, <2>2, EnvelopeType DEF AnsweredIsCached, Stored, TypeOK
<1>6. CASE UNCHANGED vars
  BY <1>6 DEF AnsweredIsCached, vars
<1> QED
  BY <1>1, <1>2, <1>3, <1>4, <1>5, <1>6 DEF Next, Step

LEMMA ReturnedStays ==
    ASSUME TypeOK, CallsAreSound, [Next]_vars,
           NEW c \in Calls, pc[c] = "returned"
    PROVE  pc'[c] = "returned" /\ cmd'[c] = cmd[c]
  BY DEF Next, Step, Relock, Call, Lookup, Handle, Remember, Goto, TypeOK, vars

LEMMA BeforeStep ==
    EarnedInv /\ BeforeHasReturned /\ [Next]_vars => BeforeHasReturned'
<1> SUFFICES ASSUME EarnedInv, BeforeHasReturned, [Next]_vars,
                    NEW d \in Calls, NEW c \in before'[d]
             PROVE  pc'[c] = "returned"
  BY DEF BeforeHasReturned
<1>1. TypeOK /\ CallsAreSound /\ c \in Calls
  BY TypeStep DEF EarnedInv, TypeOK
<1>2. ASSUME c \in before[d] PROVE pc[c] = "returned"
  BY <1>2 DEF BeforeHasReturned
<1>3. ASSUME NEW b \in Calls, NEW k \in CommandEnvelope, Call(b, k),
             c \notin before[d]
      PROVE  pc[c] = "returned"
  BY <1>1, <1>3 DEF Call, TypeOK
<1>4. before' = before \/ \E b \in Calls, k \in CommandEnvelope : Call(b, k)
  BY DEF Next, Step, Relock, Lookup, Handle, Remember, vars
<1> QED
  BY <1>1, <1>2, <1>3, <1>4, ReturnedStays

LEMMA FirstStep ==
    Kept /\ EarnedInv /\ FirstInv /\ [Next]_vars => PastLookupIsFirst'
<1> SUFFICES ASSUME Kept, EarnedInv, FirstInv, [Next]_vars,
                    NEW d \in Calls, NEW c \in before'[d], SameKey(c, d)'
             PROVE  /\ pc'[d] \notin {"handle", "remember"}
                    /\ d \notin applied'
                    /\ reply'[d] # None => IsReplay(d)'
  BY DEF PastLookupIsFirst
<1> DEFINE Goal == /\ pc'[d] \notin {"handle", "remember"}
                   /\ d \notin applied'
                   /\ reply'[d] # None => IsReplay(d)'
<1>0. /\ TypeOK /\ CallsAreSound /\ TypeOK' /\ c \in Calls
  BY TypeStep DEF EarnedInv, TypeOK
<1>1. ASSUME NEW e \in Calls, NEW k \in CommandEnvelope, Call(e, k), e = d
      PROVE  Goal
  BY <1>0, <1>1 DEF Call, Goto, CallsAreSound, TypeOK
<1>2. ASSUME c \in before[d], pc'[d] = pc[d], reply'[d] = reply[d],
             (d \in applied') <=> (d \in applied)
      PROVE  Goal
  <2>1. pc[c] = "returned" /\ pc[d] # "idle"
    BY <1>0, <1>2 DEF FirstInv, BeforeHasReturned, CallsAreSound
  <2>2. cmd'[c] = cmd[c] /\ cmd'[d] = cmd[d]
    BY <1>0, <2>1, ReturnedStays
       DEF Next, Step, Relock, Call, Lookup, Handle, Remember, TypeOK, vars
  <2>3. SameKey(c, d)
    BY <2>2 DEF SameKey
  <2> QED
    BY <1>2, <2>3 DEF FirstInv, PastLookupIsFirst, IsReplay
<1>3. ASSUME Lookup(d) PROVE Goal
  <2>1. /\ UNCHANGED <<cmd, before, cache, applied>>
        /\ reply[d] = None /\ d \notin applied
    BY <1>0, <1>3 DEF Lookup, CallsAreSound
  <2>2. pc[c] = "returned" /\ SameKey(c, d)
    BY <2>1 DEF FirstInv, BeforeHasReturned, SameKey
  <2>3. Cached(d) # None
    BY <1>0, <2>2 DEF Cached, SameKey, FirstInv, AnsweredIsCached
  <2>4. CASE Misused(d)
    BY <1>0, <2>1, <2>4 DEF Misused, TypeOK
  <2>5. CASE Replayed(d)
    <3> DEFINE e == cache[cmd[d].key]
    <3>1. /\ reply'[d].receipt = e.receipt /\ pc'[d] = "returned"
          /\ e \in CachedDispatch /\ cmd[d].key \in Keys
      BY <1>0, <2>5 DEF Replayed, TypeOK
    <3>2. reply[e.receipt] # None
      BY <3>1, DispatcherAssumption DEF EarnedInv, CacheIsEarned
    <3> QED
      BY <2>1, <3>1, <3>2 DEF IsReplay
  <2> QED
    BY <1>0, <1>3, <2>3, <2>4, <2>5, LookupEnds DEF Refused, Admitted
<1>4. ASSUME Handle(d) PROVE Goal
  <2>1. UNCHANGED <<cmd, before>> /\ pc[d] = "handle"
    BY <1>4 DEF Handle
  <2> QED
    BY <2>1 DEF FirstInv, PastLookupIsFirst, SameKey
<1>5. ASSUME Remember(d) PROVE Goal
  <2>1. UNCHANGED <<cmd, before>> /\ pc[d] = "remember"
    BY <1>5 DEF Remember
  <2> QED
    BY <2>1 DEF FirstInv, PastLookupIsFirst, SameKey
<1>6. ASSUME ~Lookup(d), ~Handle(d), ~Remember(d),
             \A k \in CommandEnvelope : ~Call(d, k)
      PROVE  /\ c \in before[d] /\ pc'[d] = pc[d] /\ reply'[d] = reply[d]
             /\ (d \in applied') <=> (d \in applied)
  <2>1. CASE UNCHANGED vars
    BY <2>1 DEF vars
  <2>2. ASSUME NEW r \in Runs, Relock(r)
        PROVE  UNCHANGED <<before, pc, reply, applied>>
    BY <2>2 DEF Relock
  <2>3. ASSUME NEW e \in Calls \ {d}, NEW k \in CommandEnvelope, Call(e, k)
        PROVE  /\ before'[d] = before[d] /\ pc'[d] = pc[d]
               /\ reply' = reply /\ applied' = applied
    BY <1>0, <2>3 DEF Call, Goto, TypeOK
  <2>4. ASSUME NEW e \in Calls \ {d}, Lookup(e)
        PROVE  /\ before' = before /\ pc'[d] = pc[d]
               /\ reply'[d] = reply[d] /\ applied' = applied
    <3>1. before' = before /\ applied' = applied
      BY <2>4 DEF Lookup
    <3> QED
      BY <1>0, <2>4, <3>1, LookupEnds
         DEF Replayed, Misused, Refused, Admitted, TypeOK
  <2>5. ASSUME NEW e \in Calls \ {d}, Handle(e)
        PROVE  /\ before' = before /\ pc'[d] = pc[d]
               /\ reply'[d] = reply[d]
               /\ (d \in applied') <=> (d \in applied)
    <3>1. before' = before
      BY <2>5 DEF Handle
    <3> QED
      BY <1>0, <2>5, <3>1, HandleEnds DEF Handled, Broken, TypeOK
  <2>6. ASSUME NEW e \in Calls \ {d}, Remember(e)
        PROVE  /\ before' = before /\ pc'[d] = pc[d]
               /\ reply' = reply /\ applied' = applied
    BY <1>0, <2>6 DEF Remember, Goto, TypeOK
  <2> QED
    BY <1>6, <2>1, <2>2, <2>3, <2>4, <2>5, <2>6 DEF Next, Step
<1> QED
  BY <1>1, <1>2, <1>3, <1>4, <1>5, <1>6

(* A kept dispatcher never executes a command under a key it has answered, *)
(* for any number of threads and whatever handlers raise.                  *)
THEOREM KeysAreAnsweredOnce ==
    ASSUME Kept
    PROVE  Spec => []AnsweredIsReplayed
<1>1. Init => EarnedInv /\ FirstInv
  BY DEF Init, EarnedInv, TypeOK, CallsAreSound, CacheIsEarned, ResultIsEarned,
         FirstInv, AnsweredIsCached, BeforeHasReturned, PastLookupIsFirst,
         Locations, Finished
<1>2. EarnedInv /\ FirstInv /\ [Next]_vars => EarnedInv' /\ FirstInv'
  BY EarnedStep, CachedStep, BeforeStep, FirstStep DEF FirstInv
<1>3. FirstInv => AnsweredIsReplayed
  BY DEF FirstInv, PastLookupIsFirst, AnsweredIsReplayed
<1> QED
  BY <1>1, <1>2, <1>3, PTL DEF Spec

=============================================================================
