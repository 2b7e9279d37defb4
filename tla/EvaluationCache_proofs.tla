----------------------- MODULE EvaluationCache_proofs -----------------------
(***************************************************************************)
(* What the cache and its readers and writers keep, for any number of      *)
(* threads, keys, organizations and flags, and any TTL.                    *)
(*                                                                         *)
(* The inductive invariant says where every value in the program came      *)
(* from: an entry is a usable version of the datum its key names, a value  *)
(* a thread holds is of the datum of its stage, and a thread past a stage  *)
(* has the record its request asked for.                                   *)
(***************************************************************************)
EXTENDS EvaluationCache, TLAPS

(* What the writers are about. *)
WriterInv ==
  \A w \in Writers :
    /\ wpc[w] \in {"config", "lookup"} => target[w] \in ConfigData
    /\ wpc[w] \in {"revoke", "key"} => target[w] \in KeyData

(* A value that was read from the database: a flag once created stays.     *)
Sound(v, database) ==
  /\ v \in Value
  /\ v.version <= database[v.of].version
  /\ v.of \in LookupData => database[v.of].state # "absent"

StoreInv ==
  \A k \in CacheKeys : store[k] # NONE =>
    /\ Sound(store[k], db)
    /\ store[k].of = k
    /\ store[k].stale + store[k].left <= TTL + MaxLoad

HeldInv ==
  \A t \in Threads :
    /\ pc[t] \in {"check", "set"} => Sound(held[t], db) /\ held[t].of = Datum(t)
    /\ pc[t] = "set" => held[t].stale + held[t].left <= MaxLoad

(* A thread's stage is what its request has been given so far, and its     *)
(* request began no later than the present.                                *)
StageInv ==
  \A t \in Threads :
    /\ pc[t] = "idle" => stage[t] = "auth"
    /\ pc[t] # "idle" =>
         /\ key[t] \in ApiKeys
         /\ flagKey[t] \in FlagKeys
         /\ stage[t] \in {"lookup", "config"} => principal[t] = key[t]
         /\ stage[t] = "config" => flag[t] = <<KeyOrg[key[t]], flagKey[t]>>

FloorInv ==
  \A t \in Threads : pc[t] # "idle" =>
    /\ floor[t].auth <= db[KeyDatum(key[t])].version
    /\ floor[t].lookup <= db[LookupDatum(KeyOrg[key[t]], flagKey[t])].version
    /\ floor[t].config <=
         db[ConfigDatum(<<KeyOrg[key[t]], flagKey[t]>>, KeyEnv[key[t]])].version

IInv ==
  /\ TypeOK
  /\ WriterInv
  /\ StoreInv
  /\ HeldInv
  /\ StageInv
  /\ FloorInv
  /\ StaleOnlyByOverlap
  /\ AnswerScoped
  /\ RefusalsAreCurrent

-----------------------------------------------------------------------------
(* Facts about data and cache keys. *)

LEMMA KeysAreData == CacheKeys = Data
BY DEF CacheKeys, Data, KeyData, LookupData, ConfigData, KeyDatum, LookupDatum,
       ConfigDatum, api_key_cache_key, flag_lookup_cache_key, flag_config_cache_key

LEMMA KindsDiffer ==
  /\ \A d \in KeyData : d \notin LookupData /\ d \notin ConfigData
  /\ \A d \in ConfigData : d \notin LookupData
BY DEF KeyData, LookupData, ConfigData, KeyDatum, LookupDatum, ConfigDatum

(* A datum of each kind is the one made of its parts. *)
LEMMA DataParts ==
  /\ \A d \in KeyData : d[2] \in ApiKeys /\ d = KeyDatum(d[2])
  /\ \A d \in LookupData : d[2] \in Orgs /\ d[3] \in FlagKeys /\ d = LookupDatum(d[2], d[3])
  /\ \A d \in ConfigData : /\ d[2] \in Flags /\ d[3] \in Environments
                           /\ d = ConfigDatum(d[2], d[3])
                           /\ LookupDatum(d[2][1], d[2][2]) \in LookupData
BY DEF KeyData, LookupData, ConfigData, KeyDatum, LookupDatum, ConfigDatum, Flags

(* The datum of a thread's stage is the one its request is about, and it   *)
(* is cached under its own key.                                            *)
LEMMA StageDatum ==
  ASSUME TypeOK, StageInv, NEW t \in Threads, pc[t] # "idle"
  PROVE  /\ Datum(t) \in Data /\ CacheKey(t) = Datum(t)
         /\ stage[t] = "auth" => Datum(t) = KeyDatum(key[t])
         /\ stage[t] = "lookup" =>
              Datum(t) = LookupDatum(KeyOrg[key[t]], flagKey[t])
         /\ stage[t] = "config" =>
              Datum(t) = ConfigDatum(<<KeyOrg[key[t]], flagKey[t]>>, KeyEnv[key[t]])
<1>1. /\ key[t] \in ApiKeys /\ flagKey[t] \in FlagKeys
      /\ KeyOrg[key[t]] \in Orgs /\ KeyEnv[key[t]] \in Environments
      /\ stage[t] \in Stages
  BY ScopeAssumption DEF StageInv, TypeOK
<1>2. /\ KeyDatum(key[t]) \in Data
      /\ LookupDatum(KeyOrg[key[t]], flagKey[t]) \in Data
      /\ ConfigDatum(<<KeyOrg[key[t]], flagKey[t]>>, KeyEnv[key[t]]) \in Data
  BY <1>1 DEF Data, KeyData, LookupData, ConfigData, Flags
<1>3. CASE stage[t] = "auth"
  BY <1>2, <1>3 DEF Datum, CacheKey, KeyDatum, api_key_cache_key
<1>4. CASE stage[t] = "lookup"
  BY <1>2, <1>4
     DEF Datum, CacheKey, LookupDatum, flag_lookup_cache_key, StageInv
<1>5. CASE stage[t] = "config"
  BY <1>2, <1>5
     DEF Datum, CacheKey, ConfigDatum, flag_config_cache_key, StageInv
<1> QED
  BY <1>1, <1>3, <1>4, <1>5 DEF Stages

(* A datum's version never goes down, and a created flag stays created.    *)
LEMMA DbGrows ==
  ASSUME TypeOK, WriterInv, [Next]_vars
  PROVE  /\ db' \in [Data -> [version : 0..MaxVersion,
                              state : {"usable", "malformed", "absent"}]]
         /\ \A d \in Data : db[d].version <= db'[d].version
         /\ \A d \in LookupData : db[d].state # "absent" => db'[d].state # "absent"
<1> DEFINE Grown ==
      /\ db' \in [Data -> [version : 0..MaxVersion,
                           state : {"usable", "malformed", "absent"}]]
      /\ \A d \in Data : db[d].version <= db'[d].version
      /\ \A d \in LookupData : db[d].state # "absent" => db'[d].state # "absent"
<1>1. /\ \A d \in Data : db[d].version \in 0..MaxVersion
      /\ MaxVersion \in Nat
      /\ LookupData \subseteq Data /\ ConfigData \subseteq Data /\ KeyData \subseteq Data
  BY TimeAssumption DEF TypeOK, Data
<1>2. ASSUME NEW d \in Data, NEW s \in {"usable", "malformed", "absent"}, Change(d, s),
             d \in LookupData => s # "absent"
      PROVE  Grown
  BY <1>1, <1>2 DEF Change, TypeOK
<1>3. ASSUME UNCHANGED db PROVE Grown
  BY <1>1, <1>3 DEF TypeOK
<1>4. ASSUME NEW w \in Writers, NEW d \in ConfigData,
             NEW s \in {"usable", "malformed"}, UpdateConfig(w, d, s)
      PROVE  Grown
  BY <1>1, <1>2, <1>4 DEF UpdateConfig
<1>5. ASSUME NEW w \in Writers, NEW d \in LookupData, CreateFlag(w, d) PROVE Grown
  BY <1>1, <1>2, <1>5 DEF CreateFlag
<1>6. ASSUME NEW w \in Writers, RevokeCommit(w) PROVE Grown
  <2>1. target[w] \in KeyData
    BY <1>6 DEF RevokeCommit, Resume, WriterInv
  <2> QED
    BY <1>1, <1>2, <1>3, <1>6, <2>1, KindsDiffer DEF RevokeCommit
<1>7. ASSUME NEW w \in Writers,
             \/ InvalidateConfig(w) \/ InvalidateLookup(w) \/ InvalidateKey(w)
             \/ FailUpdate(w) \/ \E d \in KeyData : RevokeRead(w, d)
      PROVE  Grown
  BY <1>3, <1>7 DEF InvalidateConfig, InvalidateLookup, InvalidateKey, FailUpdate, RevokeRead
<1>8. ASSUME NEW t \in Threads,
             \/ Evaluate(t)
             \/ \E k \in ApiKeys, f \in FlagKeys : Begin(t, k, f)
      PROVE  Grown
  BY <1>3, <1>8 DEF Evaluate, Begin, Fetch, Check, Delete, Query, Set
<1>9. ASSUME Tick \/ Restart \/ UNCHANGED vars PROVE Grown
  BY <1>3, <1>9 DEF Tick, Restart, vars
<1> QED
  BY <1>4, <1>5, <1>6, <1>7, <1>8, <1>9 DEF Next, Finish

(* What a thread's steps leave of its locals, in its types. *)
LocalsTyped ==
  /\ pc \in [Threads -> Steps]
  /\ stage \in [Threads -> Stages]
  /\ principal \in [Threads -> ApiKeys \cup {NONE}]
  /\ flag \in [Threads -> Flags \cup {NONE}]
  /\ held \in [Threads -> Value \cup {NONE}]
  /\ answer \in [Threads -> Answer \cup {NONE}]

LEMMA ReplyTyped ==
  ASSUME TypeOK, NEW t \in Threads, NEW reply \in Answer, Reply(t, reply)
  PROVE  LocalsTyped'
BY DEF TypeOK, LocalsTyped, Reply, Goto, Steps, Stages

(* The value a stage obtains is of the datum the request is about, which   *)
(* gives the next stage its API key or its flag.                           *)
LEMMA ObtainTyped ==
  ASSUME TypeOK, StageInv, NEW t \in Threads, pc[t] # "idle",
         NEW value \in Value, value.of = Datum(t), Obtain(t, value)
  PROVE  LocalsTyped'
<1>1. /\ key[t] \in ApiKeys /\ flagKey[t] \in FlagKeys
      /\ KeyOrg[key[t]] \in Orgs
  BY ScopeAssumption DEF StageInv
<1>2. CASE stage[t] = "auth"
  <2>1. value.of = KeyDatum(key[t])
    BY <1>2, StageDatum
  <2>2. value.of[2] \in ApiKeys
    BY <1>1, <2>1 DEF KeyDatum
  <2> QED
    BY <1>2, <2>2 DEF Obtain, TypeOK, LocalsTyped, Goto, Steps, Stages
<1>3. CASE stage[t] = "lookup"
  <2>1. value.of = LookupDatum(KeyOrg[key[t]], flagKey[t])
    BY <1>3, StageDatum
  <2>2. <<value.of[2], value.of[3]>> \in Flags
    BY <1>1, <2>1 DEF LookupDatum, Flags
  <2>3. /\ flag' = [flag EXCEPT ![t] = <<value.of[2], value.of[3]>>]
        /\ stage' = [stage EXCEPT ![t] = "config"]
        /\ held' = [held EXCEPT ![t] = NONE]
        /\ pc' = [pc EXCEPT ![t] = "fetch"]
        /\ UNCHANGED <<principal, answer>>
    BY <1>3 DEF Obtain, Goto
  <2> QED
    BY <2>2, <2>3 DEF TypeOK, LocalsTyped, Steps, Stages
<1>4. CASE stage[t] = "config"
  <2>1. [status |-> IF value.state = "usable" THEN "evaluated" ELSE "evaluation_error",
         of |-> value.of, version |-> value.version] \in Answer
    BY DEF Value, Answer
  <2>2. Reply(t, [status |-> IF value.state = "usable" THEN "evaluated" ELSE "evaluation_error",
                  of |-> value.of, version |-> value.version])
    BY <1>4 DEF Obtain
  <2> QED
    BY <2>1, <2>2, ReplyTyped
<1> QED
  BY <1>2, <1>3, <1>4 DEF Obtain

LEMMA LoadedTyped ==
  ASSUME TypeOK, NEW d \in Data, db[d].state = "usable"
  PROVE  /\ Loaded(d) \in Value
         /\ Sound(Loaded(d), db)
         /\ Loaded(d).of = d /\ Loaded(d).version = db[d].version
         /\ Loaded(d).left = MaxLoad /\ Loaded(d).stale = 0
<1>1. db[d] \in [version : 0..MaxVersion, state : {"usable", "malformed", "absent"}]
  BY DEF TypeOK
<1> QED
  BY <1>1, TimeAssumption DEF Loaded, Sound, Value

LEMMA RefusalTyped ==
  ASSUME TypeOK, NEW t \in Threads, NEW d \in Data, NEW n \in 0..MaxVersion
  PROVE  [status |-> Refusal(t), of |-> d, version |-> n] \in Answer
<1>1. stage[t] \in Stages
  BY DEF TypeOK
<1>2. Refusal(t) \in {"unauthorized", "not_found", "evaluation_error"}
  BY <1>1 DEF Stages, Refusal
<1> QED
  BY <1>2 DEF Answer

LEMMA AgedTyped ==
  ASSUME TypeOK, NEW v \in Value \cup {NONE}
  PROVE  Aged(v) \in Value \cup {NONE}
<1>1. CASE v = NONE \/ v.left = 0
  BY <1>1 DEF Aged
<1>2. CASE v # NONE /\ v.left # 0
  <2> DEFINE later == IF v.version < db[v.of].version /\ v.stale <= TTL + MaxLoad
                      THEN v.stale + 1 ELSE v.stale
  <2>1. v \in Value /\ v.left \in Nat /\ v.stale \in Nat /\ v.left - 1 \in Nat
    BY <1>2 DEF Value
  <2>2. later \in Nat
    BY <2>1
  <2>3. Aged(v) = [v EXCEPT !.left = v.left - 1, !.stale = later]
    BY <1>2, <2>1 DEF Aged, Value
  <2> HIDE DEF later
  <2> QED
    BY <2>1, <2>2, <2>3 DEF Value
<1> QED
  BY <1>1, <1>2

-----------------------------------------------------------------------------
(* Type correctness. *)

(* The rest of the state, the database apart. *)
RestTyped ==
  /\ store \in [CacheKeys -> Value \cup {NONE}]
  /\ key \in [Threads -> ApiKeys \cup {NONE}]
  /\ flagKey \in [Threads -> FlagKeys \cup {NONE}]
  /\ floor \in [Threads -> [Stages -> 0..MaxVersion]]
  /\ wpc \in [Writers -> {"idle", "config", "lookup", "revoke", "key"}]
  /\ target \in [Writers -> Data \cup {NONE}]
  /\ missed \subseteq ConfigData

(* The steps of an evaluation. *)
LEMMA EvaluateTyped ==
  ASSUME TypeOK, StageInv, HeldInv, NEW t \in Threads, Evaluate(t)
  PROVE  LocalsTyped' /\ RestTyped'
<1>1. /\ pc[t] # "idle" /\ t \in Threads
      /\ CacheKey(t) \in CacheKeys /\ Datum(t) \in Data
  BY StageDatum, KeysAreData DEF Evaluate, Fetch, Check, Delete, Query, Set
<1>2. CASE Fetch(t)
  <2>1. store[CacheKey(t)] \in Value \cup {NONE}
    BY <1>1 DEF TypeOK
  <2> QED
    BY <1>2, <2>1 DEF Fetch, Goto, TypeOK, LocalsTyped, RestTyped, Steps, writerVars
<1>3. CASE Check(t)
  <2>1. RestTyped'
    BY <1>3 DEF Check, TypeOK, RestTyped, writerVars
  <2>2. CASE held[t].left > 0
    <3>1. held[t] \in Value /\ held[t].of = Datum(t) /\ Obtain(t, held[t])
      <4>1. pc[t] = "check"
        BY <1>3 DEF Check
      <4>2. held[t] \in Value /\ held[t].of = Datum(t)
        BY <4>1 DEF HeldInv, Sound
      <4> QED
        BY <1>3, <2>2, <4>2, TimeAssumption DEF Check, Value
    <3> QED
      BY <1>1, <2>1, <3>1, ObtainTyped
  <2>3. CASE ~(held[t].left > 0)
    BY <1>3, <2>1, <2>3 DEF Check, Goto, TypeOK, LocalsTyped, Steps
  <2> QED
    BY <2>2, <2>3
<1>4. CASE Delete(t)
  <2>1. RestTyped'
    BY <1>1, <1>4 DEF Delete, TypeOK, RestTyped, writerVars
  <2>2. [status |-> "key_error"] \in Answer
    BY DEF Answer
  <2>3. CASE Reply(t, [status |-> "key_error"])
    BY <2>1, <2>2, <2>3, ReplyTyped
  <2>4. CASE ~Reply(t, [status |-> "key_error"])
    BY <1>4, <2>1, <2>4 DEF Delete, Goto, TypeOK, LocalsTyped, Steps
  <2> QED
    BY <2>3, <2>4
<1>5. CASE Query(t)
  <2>1. RestTyped'
    BY <1>5 DEF Query, TypeOK, RestTyped, writerVars
  <2>2. CASE db[Datum(t)].state = "usable"
    <3>1. Loaded(Datum(t)) \in Value
      BY <1>1, <2>2, LoadedTyped
    <3> QED
      BY <1>5, <2>1, <2>2, <3>1 DEF Query, Goto, TypeOK, LocalsTyped, Steps
  <2>3. CASE db[Datum(t)].state # "usable"
    <3>1. db[Datum(t)].version \in 0..MaxVersion
      BY <1>1 DEF TypeOK
    <3>2. Refuse(t, Datum(t), db[Datum(t)].version)
      BY <1>5, <2>3 DEF Query
    <3> QED
      BY <1>1, <2>1, <3>1, <3>2, RefusalTyped, ReplyTyped DEF Refuse
  <2> QED
    BY <2>2, <2>3
<1>6. CASE Set(t)
  <2>1. pc[t] = "set" /\ held[t] \in Value /\ held[t].of = Datum(t)
    BY <1>6 DEF Set, HeldInv, Sound
  <2>2. LocalsTyped'
    BY <1>1, <1>6, <2>1, ObtainTyped DEF Set
  <2> DEFINE new == [held[t] EXCEPT !.left = TTL,
                                    !.late = held[t].version < db[held[t].of].version]
  <2>3. new \in Value
    <3>1. (held[t].version < db[held[t].of].version) \in BOOLEAN
      OBVIOUS
    <3> QED
      BY <2>1, <3>1, TimeAssumption DEF Value
  <2>4. store' = [store EXCEPT ![CacheKey(t)] = new]
    BY <1>6 DEF Set
  <2> HIDE DEF new
  <2> QED
    BY <1>6, <2>2, <2>3, <2>4 DEF Set, TypeOK, RestTyped, writerVars
<1> QED
  BY <1>2, <1>3, <1>4, <1>5, <1>6 DEF Evaluate

LEMMA BeginTyped ==
  ASSUME TypeOK, NEW t \in Threads, NEW k \in ApiKeys, NEW f \in FlagKeys, Begin(t, k, f)
  PROVE  LocalsTyped' /\ RestTyped'
<1> DEFINE versions == [auth   |-> db[KeyDatum(k)].version,
                        lookup |-> db[LookupDatum(KeyOrg[k], f)].version,
                        config |-> db[ConfigDatum(<<KeyOrg[k], f>>, KeyEnv[k])].version]
<1>1. versions \in [Stages -> 0..MaxVersion]
  <2>1. /\ KeyDatum(k) \in Data
        /\ LookupDatum(KeyOrg[k], f) \in Data
        /\ ConfigDatum(<<KeyOrg[k], f>>, KeyEnv[k]) \in Data
    BY ScopeAssumption DEF Data, KeyData, LookupData, ConfigData, Flags
  <2> QED
    BY <2>1 DEF TypeOK, Stages
<1>2. floor' = [floor EXCEPT ![t] = versions]
  BY DEF Begin
<1> HIDE DEF versions
<1> QED
  BY <1>1, <1>2 DEF Begin, Goto, TypeOK, LocalsTyped, RestTyped, Steps, writerVars

LEMMA WriterTyped ==
  ASSUME TypeOK, WriterInv, NEW w \in Writers,
         \/ Finish(w) \/ FailUpdate(w)
         \/ \E d \in ConfigData, s \in {"usable", "malformed"} : UpdateConfig(w, d, s)
         \/ \E d \in KeyData : RevokeRead(w, d)
         \/ \E d \in LookupData : CreateFlag(w, d)
  PROVE  LocalsTyped' /\ RestTyped'
<1>1. LocalsTyped'
  BY DEF Finish, FailUpdate, UpdateConfig, RevokeRead, CreateFlag, InvalidateConfig,
         InvalidateLookup, RevokeCommit, InvalidateKey, TypeOK, LocalsTyped, threadVars
<1>2. store' \in [CacheKeys -> Value \cup {NONE}]
  BY DEF Finish, FailUpdate, UpdateConfig, RevokeRead, CreateFlag, InvalidateConfig,
         InvalidateLookup, RevokeCommit, InvalidateKey, TypeOK
<1>3. UNCHANGED <<key, flagKey, floor>>
  BY DEF Finish, FailUpdate, UpdateConfig, RevokeRead, CreateFlag, InvalidateConfig,
         InvalidateLookup, RevokeCommit, InvalidateKey, threadVars
<1>4. wpc' \in [Writers -> {"idle", "config", "lookup", "revoke", "key"}]
  BY DEF Finish, FailUpdate, UpdateConfig, RevokeRead, CreateFlag, InvalidateConfig,
         InvalidateLookup, RevokeCommit, InvalidateKey, Return, Resume, TypeOK, writerVars
<1>5. target' \in [Writers -> Data \cup {NONE}]
  BY DEF Finish, FailUpdate, UpdateConfig, RevokeRead, CreateFlag, InvalidateConfig,
         InvalidateLookup, RevokeCommit, InvalidateKey, Return, TypeOK, writerVars, Data
<1>6. missed' \subseteq ConfigData
  BY DEF Finish, FailUpdate, UpdateConfig, RevokeRead, CreateFlag, InvalidateConfig,
         InvalidateLookup, RevokeCommit, InvalidateKey, Return, Resume, TypeOK, writerVars,
         WriterInv, threadVars
<1> QED
  BY <1>1, <1>2, <1>3, <1>4, <1>5, <1>6 DEF TypeOK, RestTyped

LEMMA TypeStep ==
  ASSUME IInv, [Next]_vars
  PROVE  TypeOK'
<1>1. TypeOK /\ WriterInv /\ StageInv /\ HeldInv
  BY DEF IInv
<1>2. db' \in [Data -> [version : 0..MaxVersion, state : {"usable", "malformed", "absent"}]]
  BY <1>1, DbGrows
<1>3. ASSUME Tick PROVE LocalsTyped' /\ RestTyped'
  BY <1>1, <1>3, AgedTyped DEF Tick, TypeOK, LocalsTyped, RestTyped, writerVars
<1>4. ASSUME Restart PROVE LocalsTyped' /\ RestTyped'
  BY <1>1, <1>4 DEF Restart, TypeOK, LocalsTyped, RestTyped, Steps, Stages
<1>5. ASSUME UNCHANGED vars PROVE LocalsTyped' /\ RestTyped'
  BY <1>1, <1>5 DEF vars, threadVars, writerVars, TypeOK, LocalsTyped, RestTyped
<1>6. LocalsTyped' /\ RestTyped'
  BY <1>1, <1>3, <1>4, <1>5, EvaluateTyped, BeginTyped, WriterTyped DEF Next
<1> QED
  BY <1>2, <1>6 DEF TypeOK, LocalsTyped, RestTyped

-----------------------------------------------------------------------------
(* Where every value comes from. *)

LEMMA WriterStep ==
  ASSUME IInv, [Next]_vars
  PROVE  WriterInv'
<1>1. WriterInv /\ TypeOK
  BY DEF IInv
<1>2. ASSUME UNCHANGED <<wpc, target>> PROVE WriterInv'
  BY <1>1, <1>2 DEF WriterInv
<1>3. ASSUME NEW w \in Writers, NEW d \in ConfigData,
             NEW s \in {"usable", "malformed"}, UpdateConfig(w, d, s)
      PROVE  WriterInv'
  BY <1>1, <1>3 DEF UpdateConfig, Resume, WriterInv, TypeOK
<1>4. ASSUME NEW w \in Writers, NEW d \in KeyData, RevokeRead(w, d) PROVE WriterInv'
  BY <1>1, <1>4 DEF RevokeRead, Resume, WriterInv, TypeOK
<1>5. ASSUME NEW w \in Writers, NEW from, Return(w, from) PROVE WriterInv'
  BY <1>1, <1>5 DEF Return, Resume, WriterInv, TypeOK
<1>6. ASSUME NEW w \in Writers, InvalidateConfig(w) \/ RevokeCommit(w) PROVE WriterInv'
  BY <1>1, <1>6 DEF InvalidateConfig, RevokeCommit, Resume, WriterInv, TypeOK
<1>7. ASSUME NEW w \in Writers, FailUpdate(w) \/ InvalidateLookup(w) \/ InvalidateKey(w)
      PROVE  WriterInv'
  BY <1>5, <1>7 DEF FailUpdate, InvalidateLookup, InvalidateKey
<1>8. ASSUME NEW w \in Writers, \E d \in LookupData : CreateFlag(w, d) PROVE WriterInv'
  BY <1>2, <1>8 DEF CreateFlag, writerVars
<1>9. ASSUME NEW t \in Threads,
             Evaluate(t) \/ \E k \in ApiKeys, f \in FlagKeys : Begin(t, k, f)
      PROVE  WriterInv'
  BY <1>2, <1>9 DEF Evaluate, Begin, Fetch, Check, Delete, Query, Set, writerVars
<1>10. ASSUME Restart PROVE WriterInv'
  BY <1>10 DEF Restart, WriterInv
<1>11. ASSUME Tick \/ UNCHANGED vars PROVE WriterInv'
  BY <1>2, <1>11 DEF Tick, vars, writerVars
<1> QED
  BY <1>3, <1>4, <1>6, <1>7, <1>8, <1>9, <1>10, <1>11 DEF Next, Finish

(* What was read from the database stays a reading of it. *)
LEMMA SoundGrows ==
  ASSUME TypeOK, WriterInv, [Next]_vars, NEW v, Sound(v, db)
  PROVE  Sound(v, db')
<1>1. v.of \in Data /\ v.version \in Nat
  BY TimeAssumption DEF Sound, Value
<1>2. db[v.of].version \in Nat /\ db'[v.of].version \in Nat
  BY <1>1, DbGrows, TimeAssumption DEF TypeOK
<1>3. db[v.of].version <= db'[v.of].version
  BY <1>1, DbGrows
<1>4. v.of \in LookupData /\ db[v.of].state # "absent" => db'[v.of].state # "absent"
  BY DbGrows
<1> QED
  BY <1>1, <1>2, <1>3, <1>4 DEF Sound

LEMMA AgedSound ==
  ASSUME TypeOK, NEW v, Sound(v, db)
  PROVE  /\ Sound(Aged(v), db)
         /\ Aged(v).of = v.of /\ Aged(v).version = v.version /\ Aged(v).late = v.late
         /\ Aged(v).stale + Aged(v).left <= v.stale + v.left
<1>1. v \in Value /\ v.left \in Nat /\ v.stale \in Nat /\ v.version \in 0..MaxVersion
  BY DEF Sound, Value
<1>2. CASE v = NONE \/ v.left = 0
  BY <1>1, <1>2 DEF Aged
<1>3. CASE v # NONE /\ v.left # 0
  <2> DEFINE later == IF v.version < db[v.of].version /\ v.stale <= TTL + MaxLoad
                      THEN v.stale + 1 ELSE v.stale
  <2>1. later \in Nat /\ later <= v.stale + 1 /\ v.left - 1 \in Nat
    BY <1>1, <1>3
  <2>2. Aged(v) = [v EXCEPT !.left = v.left - 1, !.stale = later]
    BY <1>1, <1>3 DEF Aged, Value
  <2> HIDE DEF later
  <2>3. /\ Aged(v) \in Value /\ Aged(v).of = v.of /\ Aged(v).version = v.version
        /\ Aged(v).late = v.late /\ Aged(v).stale = later /\ Aged(v).left = v.left - 1
    BY <1>1, <2>1, <2>2 DEF Value
  <2>4. Sound(Aged(v), db)
    BY <2>3 DEF Sound
  <2> QED
    BY <1>1, <2>1, <2>3, <2>4
<1> QED
  BY <1>2, <1>3

(* The dictionary holds readings of the database under their own keys.     *)
LEMMA StoreStep ==
  ASSUME IInv, [Next]_vars
  PROVE  StoreInv'
<1> DEFINE Good(k, v, data) ==
      v # NONE => /\ Sound(v, data)
                  /\ v.of = k
                  /\ v.stale + v.left <= TTL + MaxLoad
<1>1. TypeOK /\ WriterInv /\ StoreInv /\ HeldInv /\ StageInv
  BY DEF IInv
<1>2. \A k \in CacheKeys : Good(k, store[k], db) /\ Good(k, NONE, db)
  BY <1>1 DEF StoreInv
<1>3. SUFFICES \A k \in CacheKeys : Good(k, store'[k], db)
  BY <1>1, SoundGrows DEF StoreInv
<1>4. ASSUME \A k \in CacheKeys : store'[k] = store[k] \/ store'[k] = NONE
      PROVE  \A k \in CacheKeys : Good(k, store'[k], db)
  BY <1>2, <1>4
<1>5. ASSUME NEW t \in Threads, Set(t)
      PROVE  \A k \in CacheKeys : Good(k, store'[k], db)
  <2> DEFINE new == [held[t] EXCEPT !.left = TTL,
                                    !.late = held[t].version < db[held[t].of].version]
  <2>1. /\ pc[t] = "set" /\ Sound(held[t], db) /\ held[t] \in Value
        /\ held[t].of = Datum(t) /\ CacheKey(t) = Datum(t)
        /\ held[t].stale + held[t].left <= MaxLoad
    BY <1>1, <1>5, StageDatum DEF Set, HeldInv, Sound
  <2>2. /\ new \in Value /\ new.of = held[t].of /\ new.version = held[t].version
        /\ new.stale = held[t].stale /\ new.left = TTL
    <3>1. (held[t].version < db[held[t].of].version) \in BOOLEAN
      OBVIOUS
    <3> QED
      BY <2>1, <3>1, TimeAssumption DEF Value
  <2>3. store' = [store EXCEPT ![CacheKey(t)] = new]
    BY <1>5 DEF Set
  <2> HIDE DEF new
  <2>4. new.stale + new.left <= TTL + MaxLoad
    BY <2>1, <2>2, TimeAssumption DEF Value
  <2>5. Sound(new, db)
    BY <2>1, <2>2 DEF Sound
  <2>6. Good(CacheKey(t), new, db)
    BY <2>1, <2>2, <2>4, <2>5
  <2> HIDE DEF Good
  <2> QED
    BY <1>1, <1>2, <2>3, <2>6 DEF TypeOK
<1>6. ASSUME Tick
      PROVE  \A k \in CacheKeys : Good(k, store'[k], db)
  <2> SUFFICES ASSUME NEW k \in CacheKeys PROVE Good(k, Aged(store[k]), db)
    BY <1>6 DEF Tick
  <2>1. CASE store[k] = NONE
    BY <1>2, <2>1 DEF Aged
  <2>2. CASE store[k] # NONE
    <3>1. Sound(store[k], db) /\ store[k].of = k /\ store[k].stale + store[k].left <= TTL + MaxLoad
      BY <1>2, <2>2
    <3>2. /\ Sound(Aged(store[k]), db) /\ Aged(store[k]).of = k
          /\ Aged(store[k]).stale + Aged(store[k]).left <= store[k].stale + store[k].left
      BY <1>1, <3>1, AgedSound
    <3>3. Aged(store[k]) \in Value /\ store[k] \in Value
      BY <3>1, <3>2 DEF Sound
    <3> QED
      BY <3>1, <3>2, <3>3, TimeAssumption DEF Value
  <2> QED
    BY <2>1, <2>2
<1>7. ASSUME NEW w \in Writers,
             \/ Finish(w) \/ FailUpdate(w)
             \/ \E d \in ConfigData, s \in {"usable", "malformed"} : UpdateConfig(w, d, s)
             \/ \E d \in KeyData : RevokeRead(w, d)
             \/ \E d \in LookupData : CreateFlag(w, d)
      PROVE  \A k \in CacheKeys : store'[k] = store[k] \/ store'[k] = NONE
  BY <1>1, <1>7
     DEF Finish, FailUpdate, UpdateConfig, RevokeRead, CreateFlag, InvalidateConfig,
         InvalidateLookup, RevokeCommit, InvalidateKey, TypeOK
<1>8. ASSUME NEW t \in Threads,
             \/ Fetch(t) \/ Check(t) \/ Delete(t) \/ Query(t)
             \/ \E k \in ApiKeys, f \in FlagKeys : Begin(t, k, f)
      PROVE  \A k \in CacheKeys : store'[k] = store[k] \/ store'[k] = NONE
  BY <1>1, <1>8 DEF Begin, Fetch, Check, Delete, Query, TypeOK
<1>9. ASSUME Restart \/ UNCHANGED vars
      PROVE  \A k \in CacheKeys : store'[k] = store[k] \/ store'[k] = NONE
  BY <1>9 DEF Restart, vars
<1> HIDE DEF Good
<1> QED
  BY <1>4, <1>5, <1>6, <1>7, <1>8, <1>9 DEF Next, Evaluate

(* Where a thread's next step may take it. *)
LEMMA Moves ==
  ASSUME TypeOK, NEW t \in Threads, NEW u \in Threads
  PROVE  /\ Fetch(u) => pc'[t] = IF t = u THEN IF store[CacheKey(u)] = NONE THEN "query"
                                               ELSE "check"
                                 ELSE pc[t]
         /\ Query(u) => \/ t # u /\ pc'[t] = pc[t]
                        \/ t = u /\ pc'[t] = "set" /\ db[Datum(u)].state = "usable"
                        \/ t = u /\ pc'[t] = "idle"
         /\ Check(u) \/ Delete(u) \/ Set(u) =>
              \/ t # u /\ pc'[t] = pc[t]
              \/ t = u /\ pc'[t] \in {"idle", "fetch", "delete", "query"}
<1>1. ASSUME NEW v, Obtain(u, v)
      PROVE  \/ t # u /\ pc'[t] = pc[t]
             \/ t = u /\ pc'[t] \in {"idle", "fetch", "delete", "query"}
  BY <1>1 DEF TypeOK, Obtain, Reply, Goto
<1>2. Check(u) \/ Set(u) =>
        \/ t # u /\ pc'[t] = pc[t]
        \/ t = u /\ pc'[t] \in {"idle", "fetch", "delete", "query"}
  BY <1>1 DEF TypeOK, Check, Set, Goto
<1>3. Delete(u) =>
        \/ t # u /\ pc'[t] = pc[t]
        \/ t = u /\ pc'[t] \in {"idle", "fetch", "delete", "query"}
  BY DEF TypeOK, Delete, Reply, Goto
<1>4. Query(u) => \/ t # u /\ pc'[t] = pc[t]
                  \/ t = u /\ pc'[t] = "set" /\ db[Datum(u)].state = "usable"
                  \/ t = u /\ pc'[t] = "idle"
  BY DEF TypeOK, Query, Refuse, Reply, Goto
<1>5. Fetch(u) => pc'[t] = IF t = u THEN IF store[CacheKey(u)] = NONE THEN "query"
                                         ELSE "check"
                           ELSE pc[t]
  BY DEF TypeOK, Fetch, Goto
<1> QED
  BY <1>2, <1>3, <1>4, <1>5

(* A step of one thread leaves the locals of the others as they are. *)
LEMMA OthersUntouched ==
  ASSUME TypeOK, NEW u \in Threads,
         Evaluate(u) \/ \E k \in ApiKeys, f \in FlagKeys : Begin(u, k, f),
         NEW t \in Threads, t # u
  PROVE  UNCHANGED <<pc[t], stage[t], key[t], flagKey[t], principal[t], flag[t], held[t],
                     answer[t], floor[t]>>
<1> DEFINE Same == UNCHANGED <<pc[t], stage[t], key[t], flagKey[t], principal[t], flag[t],
                              held[t], answer[t], floor[t]>>
<1>1. ASSUME NEW k \in ApiKeys, NEW f \in FlagKeys, Begin(u, k, f) PROVE Same
  BY <1>1 DEF TypeOK, Begin, Goto
<1>2. ASSUME Fetch(u) PROVE Same
  BY <1>2 DEF TypeOK, Fetch, Goto
<1>3. ASSUME NEW v, Reply(u, v)
      PROVE  UNCHANGED <<pc[t], stage[t], principal[t], flag[t], held[t], answer[t]>>
  BY <1>3 DEF TypeOK, Reply, Goto
<1>4. ASSUME NEW v, Obtain(u, v)
      PROVE  UNCHANGED <<pc[t], stage[t], principal[t], flag[t], held[t], answer[t]>>
  BY <1>3, <1>4 DEF TypeOK, Obtain, Goto
<1>5. ASSUME Check(u) PROVE Same
  BY <1>4, <1>5 DEF TypeOK, Check, Goto
<1>6. ASSUME Set(u) PROVE Same
  BY <1>4, <1>6 DEF Set
<1>7. ASSUME Delete(u) PROVE Same
  BY <1>3, <1>7 DEF TypeOK, Delete, Goto
<1>8. ASSUME Query(u) PROVE Same
  BY <1>3, <1>8 DEF TypeOK, Query, Refuse, Goto
<1> QED
  BY <1>1, <1>2, <1>5, <1>6, <1>7, <1>8 DEF Evaluate

(* So does a step of a writer. *)
LEMMA WritersApart ==
  ASSUME NEW w \in Writers,
         \/ Finish(w) \/ FailUpdate(w)
         \/ \E d \in ConfigData, s \in {"usable", "malformed"} : UpdateConfig(w, d, s)
         \/ \E d \in KeyData : RevokeRead(w, d)
         \/ \E d \in LookupData : CreateFlag(w, d)
  PROVE  UNCHANGED threadVars
BY DEF Finish, FailUpdate, UpdateConfig, RevokeRead, CreateFlag, InvalidateConfig,
       InvalidateLookup, RevokeCommit, InvalidateKey

(* A value a thread holds is a reading of the datum of its stage. *)
LEMMA HeldStep ==
  ASSUME IInv, [Next]_vars
  PROVE  HeldInv'
<1> DEFINE Good(t, v, data) ==
      /\ pc'[t] \in {"check", "set"} => Sound(v, data) /\ v.of = Datum(t)'
      /\ pc'[t] = "set" => v.stale + v.left <= MaxLoad
<1>1. TypeOK /\ WriterInv /\ StoreInv /\ HeldInv /\ StageInv
  BY DEF IInv
<1>2. SUFFICES ASSUME NEW t \in Threads PROVE Good(t, held'[t], db)
  BY <1>1, SoundGrows DEF HeldInv
<1>3. ASSUME UNCHANGED <<pc[t], stage[t], key[t], flagKey[t], principal[t], flag[t], held[t]>>
      PROVE  Good(t, held'[t], db)
  BY <1>1, <1>3 DEF HeldInv, Datum
<1>4. ASSUME NEW u \in Threads,
             Evaluate(u) \/ \E k \in ApiKeys, f \in FlagKeys : Begin(u, k, f), t # u
      PROVE  Good(t, held'[t], db)
  BY <1>1, <1>3, <1>4, OthersUntouched
<1>5. ASSUME Fetch(t) PROVE Good(t, held'[t], db)
  <2>1. Datum(t)' = Datum(t)
    BY <1>5 DEF Fetch, Datum
  <2>2. CacheKey(t) = Datum(t) /\ CacheKey(t) \in CacheKeys
    BY <1>1, <1>5, StageDatum, KeysAreData DEF Fetch
  <2>3. held'[t] = store[CacheKey(t)]
    BY <1>1, <1>5 DEF Fetch, TypeOK
  <2>4. pc'[t] = IF store[CacheKey(t)] = NONE THEN "query" ELSE "check"
    BY <1>1, <1>5, Moves
  <2> QED
    BY <1>1, <2>1, <2>2, <2>3, <2>4 DEF StoreInv
<1>6. ASSUME Query(t) PROVE Good(t, held'[t], db)
  <2>1. CASE pc'[t] = "set"
    <3>1. db[Datum(t)].state = "usable" /\ Datum(t) \in Data
      BY <1>1, <1>6, <2>1, Moves, StageDatum DEF Query
    <3>2. held'[t] = Loaded(Datum(t)) /\ Datum(t)' = Datum(t)
      BY <1>1, <1>6, <3>1 DEF Query, TypeOK, Datum
    <3> QED
      BY <1>1, <2>1, <3>1, <3>2, LoadedTyped, TimeAssumption
  <2>2. CASE pc'[t] # "set"
    BY <1>1, <1>6, <2>2, Moves
  <2> QED
    BY <2>1, <2>2
<1>7. ASSUME Check(t) \/ Delete(t) \/ Set(t) PROVE Good(t, held'[t], db)
  BY <1>1, <1>7, Moves
<1>8. ASSUME \E k \in ApiKeys, f \in FlagKeys : Begin(t, k, f) PROVE Good(t, held'[t], db)
  BY <1>1, <1>8 DEF Begin, Goto, TypeOK
<1>9. ASSUME Tick PROVE Good(t, held'[t], db)
  <2>1. held'[t] = Aged(held[t]) /\ pc'[t] = pc[t] /\ Datum(t)' = Datum(t)
    BY <1>9 DEF Tick, Datum
  <2>2. CASE pc[t] \in {"check", "set"}
    <3>1. /\ Sound(held[t], db) /\ held[t].of = Datum(t)
          /\ pc[t] = "set" => held[t].stale + held[t].left <= MaxLoad
      BY <1>1, <2>2 DEF HeldInv
    <3>2. /\ Sound(Aged(held[t]), db) /\ Aged(held[t]).of = held[t].of
          /\ Aged(held[t]).stale + Aged(held[t]).left <= held[t].stale + held[t].left
      BY <1>1, <3>1, AgedSound
    <3>3. Aged(held[t]) \in Value /\ held[t] \in Value
      BY <3>1, <3>2 DEF Sound
    <3> QED
      BY <2>1, <3>1, <3>2, <3>3, TimeAssumption DEF Value
  <2>3. CASE pc[t] \notin {"check", "set"}
    BY <2>1, <2>3
  <2> QED
    BY <2>2, <2>3
<1>10. ASSUME Restart PROVE Good(t, held'[t], db)
  BY <1>10 DEF Restart
<1>11. ASSUME UNCHANGED threadVars PROVE Good(t, held'[t], db)
  BY <1>3, <1>11 DEF threadVars
<1> HIDE DEF Good
<1> QED
  BY <1>4, <1>5, <1>6, <1>7, <1>8, <1>9, <1>10, <1>11, WritersApart
     DEF Next, Evaluate, vars

(* A stage is entered with the record the request asked for. *)
LEMMA StageStep ==
  ASSUME IInv, [Next]_vars
  PROVE  StageInv'
<1> DEFINE Good(t) ==
      /\ pc[t] = "idle" => stage[t] = "auth"
      /\ pc[t] # "idle" =>
           /\ key[t] \in ApiKeys
           /\ flagKey[t] \in FlagKeys
           /\ stage[t] \in {"lookup", "config"} => principal[t] = key[t]
           /\ stage[t] = "config" => flag[t] = <<KeyOrg[key[t]], flagKey[t]>>
<1>1. TypeOK /\ HeldInv /\ StageInv
  BY DEF IInv
<1>2. SUFFICES ASSUME NEW t \in Threads PROVE Good(t)'
  BY DEF StageInv
<1>3. Good(t)
  BY <1>1 DEF StageInv
<1>4. ASSUME UNCHANGED <<pc[t], stage[t], key[t], flagKey[t], principal[t], flag[t]>>
      PROVE  Good(t)'
  BY <1>3, <1>4
<1>5. ASSUME NEW u \in Threads,
             Evaluate(u) \/ \E k \in ApiKeys, f \in FlagKeys : Begin(u, k, f), t # u
      PROVE  Good(t)'
  BY <1>1, <1>4, <1>5, OthersUntouched
<1>6. ASSUME NEW k \in ApiKeys, NEW f \in FlagKeys, Begin(t, k, f) PROVE Good(t)'
  BY <1>1, <1>3, <1>6 DEF Begin, Goto, TypeOK
<1>7. ASSUME NEW reply, Reply(t, reply) PROVE pc'[t] = "idle" /\ stage'[t] = "auth"
  BY <1>1, <1>7 DEF Reply, Goto, TypeOK
<1>8. ASSUME pc[t] # "idle", UNCHANGED <<stage[t], key[t], flagKey[t], principal[t], flag[t]>>,
             pc'[t] # "idle"
      PROVE  Good(t)'
  BY <1>3, <1>8
<1>9. ASSUME pc[t] # "idle", NEW value, value.of = Datum(t), Obtain(t, value),
             UNCHANGED <<key, flagKey>>
      PROVE  Good(t)'
  <2>1. CASE stage[t] = "auth"
    <3>1. value.of = KeyDatum(key[t])
      BY <1>1, <1>9, <2>1, StageDatum
    <3>2. value.of[2] = key[t]
      BY <3>1 DEF KeyDatum
    <3> QED
      BY <1>1, <1>3, <1>9, <2>1, <3>2 DEF Obtain, Goto, TypeOK
  <2>2. CASE stage[t] = "lookup"
    <3>1. value.of = LookupDatum(KeyOrg[key[t]], flagKey[t])
      BY <1>1, <1>9, <2>2, StageDatum
    <3>2. <<value.of[2], value.of[3]>> = <<KeyOrg[key[t]], flagKey[t]>>
      BY <3>1 DEF LookupDatum
    <3>3. /\ flag' = [flag EXCEPT ![t] = <<value.of[2], value.of[3]>>]
          /\ stage' = [stage EXCEPT ![t] = "config"]
          /\ pc' = [pc EXCEPT ![t] = "fetch"]
          /\ UNCHANGED principal
      BY <1>9, <2>2 DEF Obtain, Goto
    <3>4. flag'[t] = <<KeyOrg[key[t]], flagKey[t]>> /\ pc'[t] = "fetch"
      BY <1>1, <3>2, <3>3 DEF TypeOK
    <3> QED
      BY <1>3, <1>9, <2>2, <3>3, <3>4
  <2>3. CASE stage[t] = "config"
    BY <1>7, <1>9, <2>3 DEF Obtain
  <2> QED
    BY <1>9, <2>1, <2>2, <2>3 DEF Obtain
<1>10. ASSUME Fetch(t) PROVE Good(t)'
  BY <1>1, <1>8, <1>10 DEF Fetch, Goto, TypeOK
<1>11. ASSUME Check(t) PROVE Good(t)'
  <2>1. held[t].of = Datum(t) /\ pc[t] = "check"
    BY <1>1, <1>11 DEF Check, HeldInv
  <2>2. CASE Obtain(t, held[t])
    BY <1>9, <1>11, <2>1, <2>2 DEF Check
  <2>3. CASE ~Obtain(t, held[t])
    BY <1>1, <1>8, <1>11, <2>1, <2>3 DEF Check, Goto, TypeOK
  <2> QED
    BY <2>2, <2>3
<1>12. ASSUME Delete(t) PROVE Good(t)'
  <2>1. CASE Reply(t, [status |-> "key_error"])
    BY <1>7, <2>1
  <2>2. CASE ~Reply(t, [status |-> "key_error"])
    BY <1>1, <1>8, <1>12, <2>2 DEF Delete, Goto, TypeOK
  <2> QED
    BY <2>1, <2>2
<1>13. ASSUME Query(t) PROVE Good(t)'
  <2>1. CASE db[Datum(t)].state = "usable"
    BY <1>1, <1>8, <1>13, <2>1 DEF Query, Goto, TypeOK
  <2>2. CASE db[Datum(t)].state # "usable"
    BY <1>7, <1>13, <2>2 DEF Query, Refuse
  <2> QED
    BY <2>1, <2>2
<1>14. ASSUME Set(t) PROVE Good(t)'
  BY <1>1, <1>9, <1>14 DEF Set, HeldInv
<1>15. ASSUME Restart PROVE Good(t)'
  BY <1>15 DEF Restart
<1>16. ASSUME Tick \/ UNCHANGED threadVars PROVE Good(t)'
  BY <1>4, <1>16 DEF Tick, threadVars
<1> HIDE DEF Good
<1> QED
  BY <1>5, <1>6, <1>10, <1>11, <1>12, <1>13, <1>14, <1>15, <1>16, WritersApart
     DEF Next, Evaluate, vars

(* A request's floor is what the database had when it began. *)
LEMMA FloorStep ==
  ASSUME IInv, [Next]_vars
  PROVE  FloorInv'
<1> DEFINE Good(t, data) ==
      /\ floor[t].auth <= data[KeyDatum(key[t])].version
      /\ floor[t].lookup <= data[LookupDatum(KeyOrg[key[t]], flagKey[t])].version
      /\ floor[t].config <=
           data[ConfigDatum(<<KeyOrg[key[t]], flagKey[t]>>, KeyEnv[key[t]])].version
<1>1. TypeOK /\ WriterInv /\ StageInv /\ FloorInv
  BY DEF IInv
<1>2. ASSUME NEW t \in Threads, pc[t] # "idle",
             UNCHANGED <<key[t], flagKey[t], floor[t]>>
      PROVE  /\ floor'[t].auth <= db'[KeyDatum(key'[t])].version
             /\ floor'[t].lookup <= db'[LookupDatum(KeyOrg[key'[t]], flagKey'[t])].version
             /\ floor'[t].config <=
                  db'[ConfigDatum(<<KeyOrg[key'[t]], flagKey'[t]>>, KeyEnv[key'[t]])].version
  <2>1. /\ KeyDatum(key[t]) \in Data
        /\ LookupDatum(KeyOrg[key[t]], flagKey[t]) \in Data
        /\ ConfigDatum(<<KeyOrg[key[t]], flagKey[t]>>, KeyEnv[key[t]]) \in Data
    BY <1>1, <1>2, ScopeAssumption
       DEF StageInv, Data, KeyData, LookupData, ConfigData, Flags
  <2>2. \A d \in Data : /\ db[d].version \in Nat /\ db'[d].version \in Nat
                        /\ db[d].version <= db'[d].version
    BY <1>1, DbGrows, TimeAssumption DEF TypeOK
  <2>3. /\ floor[t].auth \in Nat /\ floor[t].lookup \in Nat /\ floor[t].config \in Nat
    BY <1>1, TimeAssumption DEF TypeOK, Stages
  <2>4. Good(t, db)
    BY <1>1, <1>2 DEF FloorInv
  <2> QED
    BY <1>2, <2>1, <2>2, <2>3, <2>4
<1>3. ASSUME NEW t \in Threads, pc'[t] # "idle",
             ~(\E k \in ApiKeys, f \in FlagKeys : Begin(t, k, f))
      PROVE  pc[t] # "idle" /\ UNCHANGED <<key[t], flagKey[t], floor[t]>>
  <2>1. ASSUME NEW u \in Threads,
               Evaluate(u) \/ \E k \in ApiKeys, f \in FlagKeys : Begin(u, k, f), t # u
        PROVE  pc[t] # "idle" /\ UNCHANGED <<key[t], flagKey[t], floor[t]>>
    BY <1>1, <1>3, <2>1, OthersUntouched
  <2>2. ASSUME Evaluate(t)
        PROVE  pc[t] # "idle" /\ UNCHANGED <<key[t], flagKey[t], floor[t]>>
    BY <2>2 DEF Evaluate, Fetch, Check, Delete, Query, Set
  <2>3. ASSUME Tick \/ Restart \/ UNCHANGED threadVars
        PROVE  pc[t] # "idle" /\ UNCHANGED <<key[t], flagKey[t], floor[t]>>
    BY <1>3, <2>3 DEF Tick, Restart, threadVars
  <2> QED
    BY <1>3, <2>1, <2>2, <2>3, WritersApart DEF Next, vars
<1>4. ASSUME NEW t \in Threads, NEW k \in ApiKeys, NEW f \in FlagKeys, Begin(t, k, f)
      PROVE  /\ floor'[t].auth <= db'[KeyDatum(key'[t])].version
             /\ floor'[t].lookup <= db'[LookupDatum(KeyOrg[key'[t]], flagKey'[t])].version
             /\ floor'[t].config <=
                  db'[ConfigDatum(<<KeyOrg[key'[t]], flagKey'[t]>>, KeyEnv[key'[t]])].version
  <2>1. /\ key'[t] = k /\ flagKey'[t] = f /\ db' = db
        /\ floor'[t] = [auth   |-> db[KeyDatum(k)].version,
                        lookup |-> db[LookupDatum(KeyOrg[k], f)].version,
                        config |-> db[ConfigDatum(<<KeyOrg[k], f>>, KeyEnv[k])].version]
    BY <1>1, <1>4 DEF Begin, TypeOK
  <2>2. /\ db[KeyDatum(k)].version \in Nat
        /\ db[LookupDatum(KeyOrg[k], f)].version \in Nat
        /\ db[ConfigDatum(<<KeyOrg[k], f>>, KeyEnv[k])].version \in Nat
    BY <1>1, ScopeAssumption, TimeAssumption
       DEF TypeOK, Data, KeyData, LookupData, ConfigData, Flags
  <2> QED
    BY <2>1, <2>2
<1> QED
  BY <1>2, <1>3, <1>4 DEF FloorInv

-----------------------------------------------------------------------------
(* The safety properties. *)

(* Only a change to its datum makes an entry stale, and only the writer of *)
(* that change is left to remove it.                                       *)
LEMMA StaleStep ==
  ASSUME IInv, [Next]_vars
  PROVE  StaleOnlyByOverlap'
<1> DEFINE Excused(v) == \/ v.late
                         \/ v.of \in missed
                         \/ \E w \in Writers : wpc[w] \in {"config", "key"} /\ target[w] = v.of
<1> DEFINE Good(v, data) == v.version < data[v.of].version => Excused(v)
<1>1. TypeOK /\ WriterInv /\ StoreInv /\ HeldInv /\ StageInv /\ StaleOnlyByOverlap
  BY DEF IInv
<1>2. \A k \in CacheKeys : store[k] # NONE =>
        Good(store[k], db) /\ Sound(store[k], db) /\ store[k].of = k
  BY <1>1 DEF StaleOnlyByOverlap, Superseded, StoreInv
<1>3. SUFFICES ASSUME NEW k \in CacheKeys, store'[k] # NONE
               PROVE  Good(store[k], db)'
  BY DEF StaleOnlyByOverlap, Superseded
<1>4. ASSUME UNCHANGED <<store[k], db, wpc, target, missed>> PROVE Good(store[k], db)'
  BY <1>2, <1>3, <1>4
<1>5. ASSUME NEW t \in Threads,
             \/ Fetch(t) \/ Check(t) \/ Delete(t) \/ Query(t)
             \/ \E i \in ApiKeys, f \in FlagKeys : Begin(t, i, f)
      PROVE  Good(store[k], db)'
  BY <1>1, <1>3, <1>4, <1>5 DEF Begin, Fetch, Check, Delete, Query, TypeOK, writerVars
<1>6. ASSUME NEW t \in Threads, Set(t) PROVE Good(store[k], db)'
  <2> DEFINE late == held[t].version < db[held[t].of].version
  <2> DEFINE new == [held[t] EXCEPT !.left = TTL, !.late = late]
  <2>1. held[t] \in Value
    BY <1>1, <1>6 DEF Set, HeldInv, Sound
  <2>2. new.of = held[t].of /\ new.version = held[t].version /\ new.late = late
    <3> HIDE DEF late
    <3> QED
      BY <2>1 DEF Value
  <2>3. store' = [store EXCEPT ![CacheKey(t)] = new] /\ UNCHANGED <<db, wpc, target, missed>>
    BY <1>6 DEF Set, writerVars
  <2>4. new.version < db[new.of].version => new.late
    BY <2>2
  <2> HIDE DEF new, late
  <2>5. store'[k] = store[k] \/ store'[k] = new
    BY <1>1, <2>3 DEF TypeOK
  <2> QED
    BY <1>4, <2>3, <2>4, <2>5
<1>7. ASSUME Tick PROVE Good(store[k], db)'
  <2>1. store'[k] = Aged(store[k]) /\ UNCHANGED <<db, wpc, target, missed>>
    BY <1>7 DEF Tick, writerVars
  <2>2. store[k] # NONE
    BY <1>3, <2>1 DEF Aged
  <2>3. /\ store'[k].of = store[k].of /\ store'[k].version = store[k].version
        /\ store'[k].late = store[k].late
    BY <1>1, <1>2, <2>1, <2>2, AgedSound
  <2> QED
    BY <1>2, <2>1, <2>2, <2>3
<1>8. ASSUME Restart PROVE Good(store[k], db)'
  BY <1>3, <1>8 DEF Restart
<1>9. ASSUME NEW d \in Data, NEW s, Change(d, s), UNCHANGED <<store, missed>>,
             NEW w \in Writers, wpc'[w] \in {"config", "key"}, target'[w] = d,
             wpc[w] \notin {"config", "key"},
             \A x \in Writers \ {w} : wpc'[x] = wpc[x] /\ target'[x] = target[x]
      PROVE  Good(store[k], db)'
  <2>1. store[k] # NONE /\ store[k].of = k /\ k \in Data /\ store'[k] = store[k]
    BY <1>2, <1>3, <1>9, KeysAreData
  <2>2. CASE k = d
    BY <1>9, <2>1, <2>2
  <2>3. CASE k # d
    <3>1. db'[k] = db[k]
      BY <1>1, <1>9, <2>1, <2>3 DEF Change, TypeOK
    <3> QED
      BY <1>2, <1>9, <2>1, <3>1
  <2> QED
    BY <2>2, <2>3
<1>10. ASSUME NEW w \in Writers, NEW d \in ConfigData,
              NEW s \in {"usable", "malformed"}, UpdateConfig(w, d, s)
       PROVE  Good(store[k], db)'
  <2>1. /\ wpc[w] = "idle" /\ wpc' = [wpc EXCEPT ![w] = "config"]
        /\ target' = [target EXCEPT ![w] = d] /\ Change(d, s)
        /\ UNCHANGED <<store, missed>> /\ d \in Data
    BY <1>10 DEF UpdateConfig, Resume, Data
  <2> QED
    BY <1>1, <1>9, <2>1 DEF TypeOK
<1>11. ASSUME NEW w \in Writers, RevokeCommit(w) PROVE Good(store[k], db)'
  <2>1. /\ wpc[w] = "revoke" /\ wpc' = [wpc EXCEPT ![w] = "key"]
        /\ UNCHANGED <<store, missed, target>>
        /\ target[w] \in Data
    BY <1>1, <1>11 DEF RevokeCommit, Resume, WriterInv, Data
  <2>2. CASE Change(target[w], "absent")
    BY <1>1, <1>9, <2>1, <2>2 DEF TypeOK
  <2>3. CASE UNCHANGED db
    <3>1. \A x \in Writers : wpc[x] \in {"config", "key"} => wpc'[x] \in {"config", "key"}
      BY <1>1, <2>1 DEF TypeOK
    <3> QED
      BY <1>2, <1>3, <2>1, <2>3, <3>1
  <2> QED
    BY <1>11, <2>2, <2>3 DEF RevokeCommit
<1>12. ASSUME NEW w \in Writers, NEW d \in LookupData, CreateFlag(w, d)
       PROVE  Good(store[k], db)'
  <2>1. /\ store[k] # NONE /\ store[k].of = k /\ k \in Data /\ store'[k] = store[k]
        /\ UNCHANGED <<wpc, target, missed>> /\ d \in Data
    BY <1>2, <1>3, <1>12, KeysAreData DEF CreateFlag, writerVars, Data
  <2>2. k # d
    BY <1>2, <1>12, <2>1 DEF CreateFlag, Sound
  <2>3. db'[k] = db[k]
    BY <1>1, <1>12, <2>1, <2>2 DEF CreateFlag, Change, TypeOK
  <2> QED
    BY <1>2, <2>1, <2>3
<1>13. ASSUME NEW w \in Writers, NEW d \in KeyData, RevokeRead(w, d)
       PROVE  Good(store[k], db)'
  <2>1. /\ UNCHANGED <<store, db, missed>> /\ wpc[w] = "idle"
        /\ \A x \in Writers \ {w} : wpc'[x] = wpc[x] /\ target'[x] = target[x]
    BY <1>1, <1>13 DEF RevokeRead, Resume, TypeOK
  <2> QED
    BY <1>2, <1>3, <2>1
<1>14. ASSUME NEW w \in Writers, InvalidateConfig(w) PROVE Good(store[k], db)'
  <2>1. wpc[w] = "config" /\ target[w] \in ConfigData
    BY <1>1, <1>14 DEF InvalidateConfig, Resume, WriterInv
  <2>2. flag_config_cache_key(target[w][2], target[w][3]) = target[w]
    BY <2>1, DataParts DEF flag_config_cache_key, ConfigDatum
  <2>3. /\ store' = [store EXCEPT ![target[w]] = NONE] /\ missed' = missed \ {target[w]}
        /\ wpc' = [wpc EXCEPT ![w] = "lookup"] /\ UNCHANGED <<db, target>>
    BY <1>14, <2>2 DEF InvalidateConfig, Resume
  <2>4. store[k] # NONE /\ store'[k] = store[k] /\ store[k].of # target[w]
    BY <1>1, <1>2, <1>3, <2>3 DEF TypeOK
  <2>5. \A x \in Writers \ {w} : wpc'[x] = wpc[x]
    BY <1>1, <2>3 DEF TypeOK
  <2> QED
    BY <1>2, <2>3, <2>4, <2>5
<1>15. ASSUME NEW w \in Writers, InvalidateKey(w) PROVE Good(store[k], db)'
  <2>1. wpc[w] = "key" /\ target[w] \in KeyData
    BY <1>1, <1>15 DEF InvalidateKey, Return, Resume, WriterInv
  <2>2. api_key_cache_key(target[w][2]) = target[w]
    BY <2>1, DataParts DEF api_key_cache_key, KeyDatum
  <2>3. /\ store' = [store EXCEPT ![target[w]] = NONE] /\ UNCHANGED <<db, missed>>
        /\ wpc' = [wpc EXCEPT ![w] = "idle"] /\ target' = [target EXCEPT ![w] = NONE]
    BY <1>15, <2>2 DEF InvalidateKey, Return, Resume, threadVars
  <2>4. store[k] # NONE /\ store'[k] = store[k] /\ store[k].of # target[w]
    BY <1>1, <1>2, <1>3, <2>3 DEF TypeOK
  <2>5. \A x \in Writers \ {w} : wpc'[x] = wpc[x] /\ target'[x] = target[x]
    BY <1>1, <2>3 DEF TypeOK
  <2> QED
    BY <1>2, <2>3, <2>4, <2>5
<1>16. ASSUME NEW w \in Writers, InvalidateLookup(w) PROVE Good(store[k], db)'
  <2>1. /\ wpc[w] = "lookup" /\ UNCHANGED <<db, missed>>
        /\ \A x \in Writers \ {w} : wpc'[x] = wpc[x] /\ target'[x] = target[x]
        /\ store'[k] = store[k]
    BY <1>1, <1>3, <1>16 DEF InvalidateLookup, Return, Resume, TypeOK
  <2> QED
    BY <1>2, <1>3, <2>1
<1>17. ASSUME NEW w \in Writers, FailUpdate(w) PROVE Good(store[k], db)'
  <2>1. /\ UNCHANGED <<db, store>> /\ missed' = missed \cup {target[w]}
        /\ \A x \in Writers \ {w} : wpc'[x] = wpc[x] /\ target'[x] = target[x]
    BY <1>1, <1>17 DEF FailUpdate, Return, Resume, TypeOK
  <2> QED
    BY <1>2, <1>3, <2>1
<1>18. ASSUME UNCHANGED vars PROVE Good(store[k], db)'
  BY <1>4, <1>18 DEF vars, writerVars
<1>19. Good(store[k], db)'
  <2> HIDE DEF Good
  <2> QED
    BY <1>5, <1>6, <1>7, <1>8, <1>10, <1>11, <1>12, <1>13, <1>14, <1>15, <1>16, <1>17,
       <1>18 DEF Next, Evaluate, Finish
<1> QED
  BY <1>19

(* An answer is given for the datum of the thread's stage: what is         *)
(* evaluated comes from the configuration of the request, what is refused  *)
(* from the database as it is.                                             *)
LEMMA AnswerStep ==
  ASSUME IInv, [Next]_vars
  PROVE  AnswerScoped' /\ RefusalsAreCurrent'
<1> DEFINE Scoped(t) == answer[t].status = "evaluated" =>
             answer[t].of = ConfigDatum(<<KeyOrg[key[t]], flagKey[t]>>, KeyEnv[key[t]])
           Recent(t) ==
             /\ answer[t].status = "unauthorized"     => answer[t].version >= floor[t].auth
             /\ answer[t].status = "not_found"        => answer[t].version >= floor[t].lookup
             /\ answer[t].status = "evaluation_error" => answer[t].version >= floor[t].config
           Good(t) == answer[t] # NONE => Scoped(t) /\ Recent(t)
<1>1. /\ TypeOK /\ HeldInv /\ StageInv /\ FloorInv
      /\ AnswerScoped /\ RefusalsAreCurrent
  BY DEF IInv
<1>2. SUFFICES ASSUME NEW t \in Threads PROVE Good(t)'
  BY DEF AnswerScoped, RefusalsAreCurrent
<1>3. Good(t)
  BY <1>1 DEF AnswerScoped, RefusalsAreCurrent
<1>4. ASSUME UNCHANGED <<key[t], flagKey[t], floor[t], answer[t]>> PROVE Good(t)'
  BY <1>3, <1>4
<1>5. ASSUME NEW u \in Threads,
             Evaluate(u) \/ \E k \in ApiKeys, f \in FlagKeys : Begin(u, k, f), t # u
      PROVE  Good(t)'
  BY <1>1, <1>4, <1>5, OthersUntouched
<1>6. ASSUME answer'[t] = NONE PROVE Good(t)'
  BY <1>6
<1>7. ASSUME NEW k \in ApiKeys, NEW f \in FlagKeys, Begin(t, k, f) PROVE Good(t)'
  BY <1>1, <1>6, <1>7 DEF Begin, TypeOK
<1>8. ASSUME pc[t] # "idle", NEW value \in Value, value.of = Datum(t), Obtain(t, value),
             UNCHANGED <<key, flagKey, floor>>
      PROVE  Good(t)'
  <2>1. CASE stage[t] = "config"
    <3>1. value.of = ConfigDatum(<<KeyOrg[key[t]], flagKey[t]>>, KeyEnv[key[t]])
      BY <1>1, <1>8, <2>1, StageDatum
    <3>2. answer' = [answer EXCEPT ![t] = [status |-> "evaluated", of |-> value.of,
                                           version |-> value.version]]
      BY <1>8, <2>1 DEF Obtain, Reply, Value
    <3>3. /\ answer'[t].status = "evaluated" /\ answer'[t].of = value.of
          /\ UNCHANGED <<key[t], flagKey[t]>>
      BY <1>1, <1>8, <3>2 DEF TypeOK
    <3> QED
      BY <3>1, <3>3
  <2>2. CASE stage[t] # "config"
    BY <1>4, <1>8, <2>2 DEF Obtain
  <2> QED
    BY <2>1, <2>2
<1>9. ASSUME Fetch(t) PROVE Good(t)'
  BY <1>4, <1>9 DEF Fetch
<1>10. ASSUME Check(t) PROVE Good(t)'
  <2>1. held[t] \in Value /\ held[t].of = Datum(t) /\ pc[t] = "check"
    BY <1>1, <1>10 DEF Check, HeldInv, Sound
  <2>2. CASE Obtain(t, held[t])
    BY <1>8, <1>10, <2>1, <2>2 DEF Check
  <2>3. CASE ~Obtain(t, held[t])
    BY <1>4, <1>10, <2>3 DEF Check
  <2> QED
    BY <2>2, <2>3
<1>11. ASSUME Delete(t) PROVE Good(t)'
  <2>1. CASE Reply(t, [status |-> "key_error"])
    <3>1. answer'[t] = [status |-> "key_error"]
      BY <1>1, <2>1 DEF Reply, TypeOK
    <3>2. answer'[t].status = "key_error"
      BY <3>1
    <3> QED
      BY <3>2
  <2>2. CASE ~Reply(t, [status |-> "key_error"])
    BY <1>4, <1>11, <2>2 DEF Delete
  <2> QED
    BY <2>1, <2>2
<1>12. ASSUME Query(t) PROVE Good(t)'
  <2>1. CASE db[Datum(t)].state = "usable"
    BY <1>4, <1>12, <2>1 DEF Query
  <2>2. CASE db[Datum(t)].state # "usable"
    <3> DEFINE refused == [status |-> Refusal(t), of |-> Datum(t), version |-> db[Datum(t)].version]
    <3>1. answer'[t] = refused /\ UNCHANGED <<key[t], flagKey[t], floor[t]>> /\ pc[t] # "idle"
      <4>1. /\ answer' = [answer EXCEPT ![t] = refused] /\ pc[t] = "query"
            /\ UNCHANGED <<key, flagKey, floor>>
        BY <1>12, <2>2 DEF Query, Refuse, Reply
      <4> HIDE DEF refused
      <4> QED
        BY <1>1, <4>1 DEF TypeOK
    <3>2. answer'[t].status = Refusal(t) /\ answer'[t].version = db[Datum(t)].version
      BY <3>1
    <3>3. /\ floor[t].auth <= db[KeyDatum(key[t])].version
          /\ floor[t].lookup <= db[LookupDatum(KeyOrg[key[t]], flagKey[t])].version
          /\ floor[t].config <=
               db[ConfigDatum(<<KeyOrg[key[t]], flagKey[t]>>, KeyEnv[key[t]])].version
      BY <1>1, <3>1 DEF FloorInv
    <3>4. stage[t] \in Stages
      BY <1>1 DEF TypeOK
    <3>5. /\ floor[t].auth \in Nat /\ floor[t].lookup \in Nat /\ floor[t].config \in Nat
          /\ db[Datum(t)].version \in Nat
      <4>1. Datum(t) \in Data
        BY <1>1, <3>1, StageDatum
      <4>2. db[Datum(t)].version \in 0..MaxVersion
        BY <1>1, <4>1 DEF TypeOK
      <4>3. floor[t] \in [Stages -> 0..MaxVersion]
        BY <1>1 DEF TypeOK
      <4> QED
        BY <4>2, <4>3, TimeAssumption DEF Stages
    <3>6. CASE stage[t] = "auth"
      <4>1. Refusal(t) = "unauthorized" /\ Datum(t) = KeyDatum(key[t])
        BY <1>1, <3>1, <3>6, StageDatum DEF Refusal
      <4> QED
        BY <3>1, <3>2, <3>3, <3>5, <4>1
    <3>7. CASE stage[t] = "lookup"
      <4>1. Refusal(t) = "not_found" /\ Datum(t) = LookupDatum(KeyOrg[key[t]], flagKey[t])
        BY <1>1, <3>1, <3>7, StageDatum DEF Refusal
      <4> QED
        BY <3>1, <3>2, <3>3, <3>5, <4>1
    <3>8. CASE stage[t] = "config"
      <4>1. /\ Refusal(t) = "evaluation_error"
            /\ Datum(t) = ConfigDatum(<<KeyOrg[key[t]], flagKey[t]>>, KeyEnv[key[t]])
        BY <1>1, <3>1, <3>8, StageDatum DEF Refusal
      <4> QED
        BY <3>1, <3>2, <3>3, <3>5, <4>1
    <3> QED
      BY <3>4, <3>6, <3>7, <3>8 DEF Stages
  <2> QED
    BY <2>1, <2>2
<1>13. ASSUME Set(t) PROVE Good(t)'
  <2>1. held[t] \in Value /\ held[t].of = Datum(t) /\ pc[t] = "set"
    BY <1>1, <1>13 DEF Set, HeldInv, Sound
  <2> QED
    BY <1>8, <1>13, <2>1 DEF Set
<1>14. ASSUME Restart PROVE Good(t)'
  BY <1>6, <1>14 DEF Restart
<1>15. ASSUME Tick \/ UNCHANGED threadVars PROVE Good(t)'
  BY <1>4, <1>15 DEF Tick, threadVars
<1> HIDE DEF Good
<1> QED
  BY <1>5, <1>7, <1>9, <1>10, <1>11, <1>12, <1>13, <1>14, <1>15, WritersApart
     DEF Next, Evaluate, vars

LEMMA InitIInv == Init => IInv
<1> SUFFICES ASSUME Init PROVE IInv
  OBVIOUS
<1>0. PICK created \in SUBSET LookupData :
        \E torn \in SUBSET {d \in ConfigData : LookupDatum(d[2][1], d[2][2]) \in created} :
          db = [d \in Data |-> [version |-> 0, state |-> InitialState(d, created, torn)]]
  BY DEF Init
<1>1. PICK torn \in SUBSET {d \in ConfigData : LookupDatum(d[2][1], d[2][2]) \in created} :
        db = [d \in Data |-> [version |-> 0, state |-> InitialState(d, created, torn)]]
  BY <1>0
<1>2. db \in [Data -> [version : 0..MaxVersion, state : {"usable", "malformed", "absent"}]]
  BY <1>1, TimeAssumption DEF InitialState
<1>3. TypeOK
  BY <1>2, TimeAssumption DEF Init, TypeOK, Steps, Stages
<1>4. WriterInv /\ StoreInv /\ HeldInv /\ StageInv /\ FloorInv
  BY DEF Init, WriterInv, StoreInv, HeldInv, StageInv, FloorInv
<1>5. StaleOnlyByOverlap /\ AnswerScoped /\ RefusalsAreCurrent
  BY DEF Init, StaleOnlyByOverlap, AnswerScoped, RefusalsAreCurrent
<1> QED
  BY <1>3, <1>4, <1>5 DEF IInv

(* The inductive invariant holds in every state of every behaviour of the  *)
(* evaluating threads, the writers, the clock and the restarts of          *)
(* evaluation_service.py, cache.py, flag_service.py and api_key_service.py.*)
THEOREM CacheInvariant == Spec => []IInv
<1>1. IInv /\ [Next]_vars => IInv'
  BY TypeStep, WriterStep, StoreStep, HeldStep, StageStep, FloorStep, StaleStep, AnswerStep
     DEF IInv
<1> QED
  BY InitIInv, <1>1, PTL DEF Spec

(* Every variable keeps its type: in particular only usable data, never a  *)
(* missing flag or a torn rule, is held on its way into the cache.         *)
THEOREM CacheTypes == Spec => []TypeOK
<1>1. IInv => TypeOK
  BY DEF IInv
<1> QED
  BY CacheInvariant, <1>1, PTL

(* No entry outlives the change that superseded it by more than the TTL    *)
(* and the time its value took to be stored, however SimpleTTLCache.set    *)
(* and the invalidations of the writers interleave.                        *)
THEOREM CacheStalenessBounded == Spec => []StalenessBounded
<1>1. IInv => StalenessBounded
  BY DEF IInv, StoreInv, StalenessBounded
<1> QED
  BY CacheInvariant, <1>1, PTL

(* An entry is stale only with an invalidation pending or skipped, or from *)
(* a load that overlapped the change.                                      *)
THEOREM CacheStaleOnlyByOverlap == Spec => []StaleOnlyByOverlap
<1>1. IInv => StaleOnlyByOverlap
  BY DEF IInv
<1> QED
  BY CacheInvariant, <1>1, PTL

(* The cache keys keep organizations and environments apart in what        *)
(* EvaluationService.evaluate answers.                                     *)
THEOREM CacheAnswerScoped == Spec => []AnswerScoped
<1>1. IInv => AnswerScoped
  BY DEF IInv
<1> QED
  BY CacheInvariant, <1>1, PTL

(* Refusals are never answered from the past: what evaluate and            *)
(* get_api_key_context do not find is not cached.                          *)
THEOREM CacheRefusalsAreCurrent == Spec => []RefusalsAreCurrent
<1>1. IInv => RefusalsAreCurrent
  BY DEF IInv
<1> QED
  BY CacheInvariant, <1>1, PTL
=============================================================================
