--------------------------- MODULE EvaluationCache ---------------------------
(***************************************************************************)
(* POST /evaluate/{flag_key}, served by concurrent worker threads over the *)
(* in-process cache they share with the threads that change a flag, revoke *)
(* an API key or create a flag.                                            *)
(*                                                                         *)
(* An evaluation goes through three stages that have the same shape: look  *)
(* the API key up (auth), the flag (lookup), the configuration (config).   *)
(* In each, the cache is asked; on a miss the database is, and what it has *)
(* is cached on the way.  SimpleTTLCache takes no lock, so its `get' is    *)
(* three steps: fetch the entry, compare its expiry with the clock, delete *)
(* it when it has expired.                                                 *)
(*                                                                         *)
(* A datum is the database's answer to one stage's query: it has a version *)
(* that counts its committed changes, and is absent, usable or (a torn     *)
(* targeting rule) malformed.  Time is counted in ticks; an entry holds    *)
(* the ticks it has left.                                                  *)
(***************************************************************************)
EXTENDS Integers

CONSTANTS
  Threads,        \* the workers that evaluate
  Writers,        \* the workers that change data
  ApiKeys, Orgs, FlagKeys, Environments,
  KeyOrg,         \* the organization of each API key
  KeyEnv,         \* the environment of each API key
  TTL,            \* cache_ttl_seconds, in ticks
  MaxLoad,        \* the longest a loaded value takes to reach the cache
  MaxVersion,     \* bound: the changes made to a datum
  NONE            \* no entry, no answer, nothing held

ASSUME ScopeAssumption ==
  /\ KeyOrg \in [ApiKeys -> Orgs]
  /\ KeyEnv \in [ApiKeys -> Environments]

ASSUME TimeAssumption == TTL \in Nat /\ MaxLoad \in Nat /\ MaxVersion \in Nat

(* A flag is identified by its organization and key, which are unique. *)
Flags == Orgs \X FlagKeys

KeyDatum(k)       == <<"api-key", k>>
LookupDatum(o, f) == <<"flag-lookup", o, f>>
ConfigDatum(f, e) == <<"flag-config", f, e>>

KeyData    == {KeyDatum(k) : k \in ApiKeys}
LookupData == {LookupDatum(o, f) : o \in Orgs, f \in FlagKeys}
ConfigData == {ConfigDatum(f, e) : f \in Flags, e \in Environments}
Data == KeyData \cup LookupData \cup ConfigData

(* The keys the entries are cached under. *)
api_key_cache_key(k)        == <<"api-key", k>>
flag_lookup_cache_key(o, f) == <<"flag-lookup", o, f>>
flag_config_cache_key(f, e) == <<"flag-config", f, e>>

CacheKeys == {api_key_cache_key(k) : k \in ApiKeys}
  \cup {flag_lookup_cache_key(o, f) : o \in Orgs, f \in FlagKeys}
  \cup {flag_config_cache_key(f, e) : f \in Flags, e \in Environments}

VARIABLES
  db,        \* the committed data
  store,     \* the cache's dictionary
  pc,        \* the next step of each evaluating thread
  stage,     \* the stage it is in
  key,       \* the API key of its request
  flagKey,   \* the flag key of its request
  principal, \* the API key record it obtained
  flag,      \* the flag it obtained
  held,      \* the entry it fetched, or the value it loaded
  answer,    \* what it answered last
  wpc,       \* what each writer has left to invalidate
  target,    \* the datum the writer changes
  floor,     \* history variable: the versions when a request began
  missed     \* history variable: data changed without an invalidation

threadVars == <<pc, stage, key, flagKey, principal, flag, held, answer, floor>>
writerVars == <<wpc, target, missed>>
vars == <<db, store, threadVars, writerVars>>

Stages == {"auth", "lookup", "config"}

(* What is cached, and what a thread holds: whose datum it is, in which    *)
(* version and state (nothing unusable gets that far); how many ticks it   *)
(* has left, to live or, on its way into the cache, to be stored; and two  *)
(* history fields: for how long it has been superseded, and whether it     *)
(* already was when it was stored.                                         *)
Value == [of : Data, version : 0..MaxVersion, state : {"usable"},
          left : Nat, stale : Nat, late : BOOLEAN]

Answer == [status : {"unauthorized", "not_found", "evaluation_error", "evaluated"},
           of : Data, version : 0..MaxVersion]
             \cup [status : {"key_error"}]

(* Some flags have yet to be created, some rules were torn before. *)
InitialState(d, created, torn) ==
  IF d \in LookupData \ created THEN "absent"
  ELSE IF d \in torn THEN "malformed" ELSE "usable"

Init ==
  /\ \E created \in SUBSET LookupData :
     \E torn \in SUBSET {d \in ConfigData : LookupDatum(d[2][1], d[2][2]) \in created} :
       db = [d \in Data |-> [version |-> 0, state |-> InitialState(d, created, torn)]]
  /\ store = [k \in CacheKeys |-> NONE]
  /\ pc = [t \in Threads |-> "idle"]
  /\ stage = [t \in Threads |-> "auth"]
  /\ key = [t \in Threads |-> NONE]
  /\ flagKey = [t \in Threads |-> NONE]
  /\ principal = [t \in Threads |-> NONE]
  /\ flag = [t \in Threads |-> NONE]
  /\ held = [t \in Threads |-> NONE]
  /\ answer = [t \in Threads |-> NONE]
  /\ floor = [t \in Threads |-> [s \in Stages |-> 0]]
  /\ wpc = [w \in Writers |-> "idle"]
  /\ target = [w \in Writers |-> NONE]
  /\ missed = {}

-----------------------------------------------------------------------------
(* One evaluation. *)

(* The datum the thread's present stage is about, and where it is cached. *)
Datum(t) ==
  CASE stage[t] = "auth"   -> KeyDatum(key[t])
    [] stage[t] = "lookup" -> LookupDatum(KeyOrg[principal[t]], flagKey[t])
    [] stage[t] = "config" -> ConfigDatum(flag[t], KeyEnv[principal[t]])

(* A lookup key that leaves the organization out. *)
BadCacheKey(t) ==
  CASE stage[t] = "auth"   -> api_key_cache_key(key[t])
    [] stage[t] = "lookup" -> flag_lookup_cache_key(CHOOSE o \in Orgs : TRUE, flagKey[t])
    [] stage[t] = "config" -> flag_config_cache_key(flag[t], KeyEnv[principal[t]])

CacheKey(t) ==
  CASE stage[t] = "auth"   -> api_key_cache_key(key[t])
    [] stage[t] = "lookup" -> flag_lookup_cache_key(KeyOrg[principal[t]], flagKey[t])
    [] stage[t] = "config" -> flag_config_cache_key(flag[t], KeyEnv[principal[t]])

Goto(t, step) == pc' = [pc EXCEPT ![t] = step]

Begin(t, k, f) ==
  /\ pc[t] = "idle"
  /\ Goto(t, "fetch")
  /\ key' = [key EXCEPT ![t] = k]
  /\ flagKey' = [flagKey EXCEPT ![t] = f]
  /\ answer' = [answer EXCEPT ![t] = NONE]
  /\ floor' = [floor EXCEPT ![t] =
       [auth   |-> db[KeyDatum(k)].version,
        lookup |-> db[LookupDatum(KeyOrg[k], f)].version,
        config |-> db[ConfigDatum(<<KeyOrg[k], f>>, KeyEnv[k])].version]]
  /\ UNCHANGED <<db, store, stage, principal, flag, held, writerVars>>

(* The request is answered and its local variables are gone. *)
Reply(t, reply) ==
  /\ Goto(t, "idle")
  /\ answer' = [answer EXCEPT ![t] = reply]
  /\ stage' = [stage EXCEPT ![t] = "auth"]
  /\ principal' = [principal EXCEPT ![t] = NONE]
  /\ flag' = [flag EXCEPT ![t] = NONE]
  /\ held' = [held EXCEPT ![t] = NONE]

(* The answer to a stage whose datum is not usable. *)
Refusal(t) ==
  CASE stage[t] = "auth"   -> "unauthorized"
    [] stage[t] = "lookup" -> "not_found"
    [] stage[t] = "config" -> "evaluation_error"

Refuse(t, d, version) ==
  Reply(t, [status |-> Refusal(t), of |-> d, version |-> version])

(* A stage has its value: the next stage begins, or the engine evaluates   *)
(* (and what it raises over a malformed rule is an error of its own).      *)
Obtain(t, value) ==
  \/ /\ stage[t] = "auth"
     /\ principal' = [principal EXCEPT ![t] = value.of[2]]
     /\ stage' = [stage EXCEPT ![t] = "lookup"]
     /\ held' = [held EXCEPT ![t] = NONE]
     /\ Goto(t, "fetch")
     /\ UNCHANGED <<flag, answer>>
  \/ /\ stage[t] = "lookup"
     /\ flag' = [flag EXCEPT ![t] = <<value.of[2], value.of[3]>>]
     /\ stage' = [stage EXCEPT ![t] = "config"]
     /\ held' = [held EXCEPT ![t] = NONE]
     /\ Goto(t, "fetch")
     /\ UNCHANGED <<principal, answer>>
  \/ /\ stage[t] = "config"
     /\ Reply(t, [status |-> IF value.state = "usable" THEN "evaluated" ELSE "evaluation_error",
                  of |-> value.of, version |-> value.version])

(* SimpleTTLCache.get: entry = self._store.get(key) *)
Fetch(t) ==
  /\ pc[t] = "fetch"
  /\ held' = [held EXCEPT ![t] = store[CacheKey(t)]]
  /\ Goto(t, IF store[CacheKey(t)] = NONE THEN "query" ELSE "check")
  /\ UNCHANGED <<db, store, stage, key, flagKey, principal, flag, answer, floor,
                 writerVars>>

(* A hit that pushes the expiry back. *)
BadCheck(t) ==
  /\ pc[t] = "check"
  /\ IF held[t].left > 0
     THEN /\ Obtain(t, held[t])
          /\ store' = [store EXCEPT ![CacheKey(t)] = [held[t] EXCEPT !.left = TTL]]
     ELSE /\ Goto(t, "delete")
          /\ UNCHANGED <<store, stage, principal, flag, held, answer>>
  /\ UNCHANGED <<db, key, flagKey, floor, writerVars>>

(* SimpleTTLCache.get: time.monotonic() >= expires_at *)
Check(t) ==
  /\ pc[t] = "check"
  /\ \/ /\ held[t].left > 0
        /\ Obtain(t, held[t])
     \/ /\ held[t].left = 0
        /\ Goto(t, "delete")
        /\ UNCHANGED <<stage, principal, flag, held, answer>>
  /\ UNCHANGED <<db, store, key, flagKey, floor, writerVars>>

(* SimpleTTLCache.get: del self._store[key], whatever is there by now, and *)
(* a KeyError that no handler catches when nothing is.                     *)
Delete(t) ==
  /\ pc[t] = "delete"
  /\ \/ /\ store[CacheKey(t)] = NONE
        /\ Reply(t, [status |-> "key_error"])
        /\ UNCHANGED store
     \/ /\ store[CacheKey(t)] # NONE
        /\ store' = [store EXCEPT ![CacheKey(t)] = NONE]
        /\ held' = [held EXCEPT ![t] = NONE]
        /\ Goto(t, "query")
        /\ UNCHANGED <<stage, principal, flag, answer>>
  /\ UNCHANGED <<db, key, flagKey, floor, writerVars>>

(* What the database has, on its way into the cache. *)
Loaded(d) ==
  [of |-> d, version |-> db[d].version, state |-> db[d].state,
   left |-> MaxLoad, stale |-> 0, late |-> FALSE]

(* A malformed rule is cached, and left to the engine to raise over. *)
BadQuery(t) ==
  LET d == Datum(t)
  IN  /\ pc[t] = "query"
      /\ IF db[d].state # "absent"
         THEN /\ held' = [held EXCEPT ![t] = Loaded(d)]
              /\ Goto(t, "set")
              /\ UNCHANGED <<stage, principal, flag, answer>>
         ELSE Refuse(t, d, db[d].version)
      /\ UNCHANGED <<db, store, key, flagKey, floor, writerVars>>

(* The database is asked.  Nothing but a usable datum goes to the cache.   *)
Query(t) ==
  LET d == Datum(t)
  IN  /\ pc[t] = "query"
      /\ IF db[d].state = "usable"
         THEN /\ held' = [held EXCEPT ![t] = Loaded(d)]
              /\ Goto(t, "set")
              /\ UNCHANGED <<stage, principal, flag, answer>>
         ELSE Refuse(t, d, db[d].version)
      /\ UNCHANGED <<db, store, key, flagKey, floor, writerVars>>

(* SimpleTTLCache.set *)
Set(t) ==
  /\ pc[t] = "set"
  /\ store' = [store EXCEPT ![CacheKey(t)] =
       [held[t] EXCEPT !.left = TTL,
                       !.late = held[t].version < db[held[t].of].version]]
  /\ Obtain(t, held[t])
  /\ UNCHANGED <<db, key, flagKey, floor, writerVars>>

-----------------------------------------------------------------------------
(* The writers.  A flag update commits and invalidates the configuration,  *)
(* then the lookup; a revocation reads the key, commits and invalidates    *)
(* it; a flag is created without an invalidation.                          *)

Change(d, state) ==
  /\ db[d].version < MaxVersion
  /\ db' = [db EXCEPT ![d] = [version |-> @.version + 1, state |-> state]]

Resume(w, from, to) ==
  /\ wpc[w] = from
  /\ wpc' = [wpc EXCEPT ![w] = to]

UpdateConfig(w, d, state) ==
  /\ db[LookupDatum(d[2][1], d[2][2])].state = "usable"
  /\ Resume(w, "idle", "config")
  /\ target' = [target EXCEPT ![w] = d]
  /\ Change(d, state)
  /\ UNCHANGED <<store, threadVars, missed>>

(* The handler returns. *)
Return(w, from) ==
  /\ Resume(w, from, "idle")
  /\ target' = [target EXCEPT ![w] = NONE]

(* The flag or its row cannot be read again after the commit: the rest of  *)
(* the handler is skipped.                                                 *)
FailUpdate(w) ==
  /\ Return(w, "config")
  /\ missed' = missed \cup {target[w]}
  /\ UNCHANGED <<db, store, threadVars>>

(* An invalidation of the lookup only. *)
BadInvalidateConfig(w) ==
  /\ Resume(w, "config", "lookup")
  /\ missed' = missed \ {target[w]}
  /\ UNCHANGED <<db, store, threadVars, target>>

InvalidateConfig(w) ==
  /\ Resume(w, "config", "lookup")
  /\ store' = [store EXCEPT ![flag_config_cache_key(target[w][2], target[w][3])] = NONE]
  /\ missed' = missed \ {target[w]}
  /\ UNCHANGED <<db, threadVars, target>>

InvalidateLookup(w) ==
  /\ Return(w, "lookup")
  /\ store' = [store EXCEPT ![flag_lookup_cache_key(target[w][2][1], target[w][2][2])] = NONE]
  /\ UNCHANGED <<db, threadVars, missed>>

(* revoke: revoked_at was read as null; another revocation may commit      *)
(* before this one does, which then changes nothing that is modelled.      *)
RevokeRead(w, d) ==
  /\ db[d].state = "usable"
  /\ Resume(w, "idle", "revoke")
  /\ target' = [target EXCEPT ![w] = d]
  /\ UNCHANGED <<db, store, threadVars, missed>>

RevokeCommit(w) ==
  /\ Resume(w, "revoke", "key")
  /\ IF db[target[w]].state = "usable" THEN Change(target[w], "absent") ELSE UNCHANGED db
  /\ UNCHANGED <<store, threadVars, target, missed>>

InvalidateKey(w) ==
  /\ Return(w, "key")
  /\ store' = [store EXCEPT ![api_key_cache_key(target[w][2])] = NONE]
  /\ UNCHANGED <<db, threadVars, missed>>

CreateFlag(w, d) ==
  /\ wpc[w] = "idle"
  /\ db[d].state = "absent"
  /\ Change(d, "usable")
  /\ UNCHANGED <<store, threadVars, writerVars>>

-----------------------------------------------------------------------------
(* Time passes for every entry and for every value on its way into the     *)
(* cache, and no such value takes longer than MaxLoad.  The count of the   *)
(* ticks since a value was superseded stops beyond the bound it is for.    *)
Aged(v) ==
  IF v = NONE \/ v.left = 0 THEN v
  ELSE [v EXCEPT !.left = @ - 1,
                 !.stale = IF v.version < db[v.of].version /\ @ <= TTL + MaxLoad
                           THEN @ + 1 ELSE @]

Tick ==
  /\ \A t \in Threads : pc[t] = "set" => held[t].left > 0
  /\ store' = [k \in CacheKeys |-> Aged(store[k])]
  /\ held' = [t \in Threads |-> Aged(held[t])]
  /\ UNCHANGED <<db, pc, stage, key, flagKey, principal, flag, answer, floor, writerVars>>

(* The process is restarted: the database keeps what was committed.        *)
Restart ==
  /\ store' = [k \in CacheKeys |-> NONE]
  /\ pc' = [t \in Threads |-> "idle"]
  /\ stage' = [t \in Threads |-> "auth"]
  /\ principal' = [t \in Threads |-> NONE]
  /\ flag' = [t \in Threads |-> NONE]
  /\ held' = [t \in Threads |-> NONE]
  /\ answer' = [t \in Threads |-> NONE]
  /\ wpc' = [w \in Writers |-> "idle"]
  /\ target' = [w \in Writers |-> NONE]
  /\ missed' = {}
  /\ UNCHANGED <<db, key, flagKey, floor>>

Evaluate(t) == Fetch(t) \/ Check(t) \/ Delete(t) \/ Query(t) \/ Set(t)

Finish(w) == InvalidateConfig(w) \/ InvalidateLookup(w) \/ RevokeCommit(w) \/ InvalidateKey(w)

Next ==
  \/ \E t \in Threads, k \in ApiKeys, f \in FlagKeys : Begin(t, k, f)
  \/ \E t \in Threads : Evaluate(t)
  \/ \E w \in Writers, d \in ConfigData, s \in {"usable", "malformed"} : UpdateConfig(w, d, s)
  \/ \E w \in Writers, d \in KeyData : RevokeRead(w, d)
  \/ \E w \in Writers, d \in LookupData : CreateFlag(w, d)
  \/ \E w \in Writers : Finish(w) \/ FailUpdate(w)
  \/ Tick
  \/ Restart

Spec == Init /\ [][Next]_vars

(* The thread pool runs every worker, and the clock does not stop.         *)
FairSpec ==
  /\ Spec
  /\ \A t \in Threads : WF_vars(Evaluate(t))
  /\ \A w \in Writers : WF_vars(Finish(w))
  /\ WF_vars(Tick)

-----------------------------------------------------------------------------
Steps == {"idle", "fetch", "check", "delete", "query", "set"}

TypeOK ==
  /\ db \in [Data -> [version : 0..MaxVersion, state : {"usable", "malformed", "absent"}]]
  /\ store \in [CacheKeys -> Value \cup {NONE}]
  /\ pc \in [Threads -> Steps]
  /\ stage \in [Threads -> Stages]
  /\ key \in [Threads -> ApiKeys \cup {NONE}]
  /\ flagKey \in [Threads -> FlagKeys \cup {NONE}]
  /\ principal \in [Threads -> ApiKeys \cup {NONE}]
  /\ flag \in [Threads -> Flags \cup {NONE}]
  /\ held \in [Threads -> Value \cup {NONE}]
  /\ answer \in [Threads -> Answer \cup {NONE}]
  /\ floor \in [Threads -> [Stages -> 0..MaxVersion]]
  /\ wpc \in [Writers -> {"idle", "config", "lookup", "revoke", "key"}]
  /\ target \in [Writers -> Data \cup {NONE}]
  /\ missed \subseteq ConfigData

Superseded(v) == v.version < db[v.of].version

(* An entry outlives the change that superseded it by at most its TTL and  *)
(* the time its value took to reach the cache, whatever invalidations were *)
(* missed and whichever loads raced with them.                             *)
StalenessBounded ==
  \A k \in CacheKeys : store[k] # NONE => store[k].stale + store[k].left <= TTL + MaxLoad

(* An entry is older than the database only while its writer has yet to    *)
(* invalidate it, or failed to, or when it was stored after the change     *)
(* from a load that began before it.                                       *)
StaleOnlyByOverlap ==
  \A k \in CacheKeys : store[k] # NONE /\ Superseded(store[k]) =>
    \/ store[k].late
    \/ store[k].of \in missed
    \/ \E w \in Writers : wpc[w] \in {"config", "key"} /\ target[w] = store[k].of

(* An evaluation is answered from the configuration of the flag of the API *)
(* key's own organization, in the API key's own environment.               *)
AnswerScoped ==
  \A t \in Threads : answer[t] # NONE /\ answer[t].status = "evaluated" =>
    answer[t].of = ConfigDatum(<<KeyOrg[key[t]], flagKey[t]>>, KeyEnv[key[t]])

(* A request is refused (the key, the flag or the rule being unusable)     *)
(* only for what the database held since the request began: a flag is      *)
(* found once it is created, a repaired rule evaluated once it is written. *)
RefusalsAreCurrent ==
  \A t \in Threads : answer[t] # NONE =>
    /\ answer[t].status = "unauthorized"     => answer[t].version >= floor[t].auth
    /\ answer[t].status = "not_found"        => answer[t].version >= floor[t].lookup
    /\ answer[t].status = "evaluation_error" => answer[t].version >= floor[t].config

(* Once the changes stop, what the cache can answer with is up to date and *)
(* stays so, missed invalidations and late loads included.                 *)
EventuallyFresh ==
  <>[](\A k \in CacheKeys : store[k] # NONE /\ store[k].left > 0 => ~Superseded(store[k]))

-----------------------------------------------------------------------------
(* What the documentation says, and a race refutes. *)

(* SimpleTTLCache.get: "Return a cached configuration, or None on a        *)
(* miss/expiry."                                                           *)
ExpiryIsAMiss ==
  \A t \in Threads : answer[t] # NONE => answer[t].status # "key_error"
=============================================================================
