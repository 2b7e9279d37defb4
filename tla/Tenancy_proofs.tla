--------------------------- MODULE Tenancy_proofs ---------------------------
EXTENDS Tenancy, Naturals, TLAPS

USE DEF tables

-----------------------------------------------------------------------------
(* The tables. *)

LEMMA ClashFacts ==
  ASSUME NEW x, NEW y
  PROVE  Clash(x, y) <=> x.table = y.table /\ x.of = y.of /\ x.key = y.key
BY DEF Clash, UniqueKey

LEMMA TableFacts ==
  /\ Table["signup"] = "user"
  /\ Table["create_organization"] = "organization"
  /\ Table["invite_member"] = "membership"
  /\ Table["create_project"] = "project"
  /\ Table["create_flag"] = "flag"
  /\ Table["create_api_key"] = "api_key"
  /\ Table["revoke_api_key"] = "api_key"
BY DEF Table

LEMMA BlankFacts == Blank \notin Ids \cup Environments
BY SchemaAssumption

LEMMA AllEmpty == All(<< >>) = {}
BY DEF All

(* What is left to write is the next flush and the rest. *)
LEMMA AllSplits ==
  ASSUME NEW s \in Seq(SUBSET Row), s # << >>
  PROVE  /\ Head(s) \in SUBSET Row
         /\ Tail(s) \in Seq(SUBSET Row)
         /\ All(s) = Head(s) \cup All(Tail(s))
<1>1. Head(s) \in SUBSET Row /\ Tail(s) \in Seq(SUBSET Row) /\ Head(s) = s[1]
  OBVIOUS
<1>2. /\ DOMAIN s = 1..Len(s) /\ DOMAIN Tail(s) = 1..(Len(s) - 1)
      /\ Len(s) \in Nat /\ Len(s) >= 1
  OBVIOUS
<1>3. \A i \in 1..(Len(s) - 1) : Tail(s)[i] = s[i + 1]
  OBVIOUS
<1>4. ASSUME NEW x \in All(s) PROVE x \in Head(s) \cup All(Tail(s))
  <2>1. PICK i \in 1..Len(s) : x \in s[i]
    BY <1>2, <1>4 DEF All
  <2>2. CASE i = 1
    BY <1>1, <2>1, <2>2
  <2>3. CASE i # 1
    <3>1. i - 1 \in 1..(Len(s) - 1) /\ (i - 1) + 1 = i
      BY <1>2, <2>3
    <3>2. x \in Tail(s)[i - 1]
      BY <1>3, <2>1, <3>1
    <3> QED
      BY <1>2, <3>1, <3>2 DEF All
  <2> QED
    BY <2>2, <2>3
<1>5. ASSUME NEW x \in Head(s) PROVE x \in All(s)
  <2>1. 1 \in DOMAIN s
    BY <1>2
  <2> QED
    BY <1>1, <1>5, <2>1 DEF All
<1>6. ASSUME NEW x \in All(Tail(s)) PROVE x \in All(s)
  <2>1. PICK i \in 1..(Len(s) - 1) : x \in Tail(s)[i]
    BY <1>2, <1>6 DEF All
  <2>2. i + 1 \in DOMAIN s /\ x \in s[i + 1]
    BY <1>2, <1>3, <2>1
  <2> QED
    BY <2>2 DEF All
<1> QED
  BY <1>1, <1>4, <1>5, <1>6

(* What is written together with a row. *)
LEMMA Bundles ==
  ASSUME NEW x
  PROVE  /\ x.table = "organization" => Bundle(x) = {x, Owner(x)}
         /\ x.table = "flag" =>
              Bundle(x) = {x} \cup {Config(x, e) : e \in Environments} \cup {Audit(x)}
         /\ x.table \notin {"organization", "flag"} => Bundle(x) = {x}
<1>1. ASSUME NEW a, NEW b, NEW c
      PROVE  /\ All(<<a>>) = a /\ All(<<a, b>>) = a \cup b
             /\ All(<<a, b, c>>) = a \cup b \cup c
  BY DEF All
<1>2. CASE x.table = "organization"
  <2>1. Flushes(x) = << {x}, {Owner(x)} >>
    BY <1>2 DEF Flushes
  <2>2. All(<< {x}, {Owner(x)} >>) = {x} \cup {Owner(x)}
    BY <1>1, Zenon
  <2> QED
    BY <1>2, <2>1, <2>2 DEF Bundle
<1>3. CASE x.table = "flag"
  <2> DEFINE C == {Config(x, e) : e \in Environments}
  <2>1. Flushes(x) = << {x}, C, {Audit(x)} >>
    BY <1>3 DEF Flushes
  <2>2. All(<< {x}, C, {Audit(x)} >>) = ({x} \cup C) \cup {Audit(x)}
    <3> HIDE DEF C
    <3> QED
      BY DEF All
  <2>3. Bundle(x) = {x} \cup C \cup {Audit(x)}
    <3> HIDE DEF C
    <3> QED
      BY <2>1, <2>2 DEF Bundle
  <2> QED
    BY <1>3, <2>3
<1>4. CASE x.table \notin {"organization", "flag"}
  BY <1>1, <1>4 DEF Bundle, Flushes
<1> QED
  BY <1>2, <1>3, <1>4

(* The row of a request, and what comes with it. *)
LEMMA MainFacts ==
  ASSUME NEW some \in SUBSET Row, NEW r \in Requests, NEW b \in Bodies,
         NEW o \in Ids \cup {NONE}, NEW k \in KeysFor(some, b, r)
  PROVE  LET x == MainRow(r, b, o, k)
         IN  /\ x \in Row /\ x.id = r /\ x.of = o /\ x.key = k /\ x.by = b.actor
             /\ x.table = Table[b.op]
             /\ x.table = "flag" => x.info = b.of
             /\ x.table # "user" => x.by \in Ids
<1> DEFINE x == MainRow(r, b, o, k)
<1>1. b \in Body /\ r \in Ids
  BY BodiesAssumption, SchemaAssumption
<1>2. k \in Keys \cup {Blank} \cup Ids /\ (k = Blank => b.op = "signup")
  <2> USE SchemaAssumption
  <2>1. CASE b.op = "invite_member"
    BY <2>1 DEF KeysFor, Row
  <2>2. CASE b.op = "create_api_key"
    BY <1>1, <2>2 DEF KeysFor
  <2>3. CASE b.op \in {"create_organization", "create_project", "create_flag"}
    <3>1. /\ b.text \in Texts
          /\ Table[b.op] \in {"organization", "project", "flag"}
      BY <2>3, TableFacts, BodiesAssumption
    <3>2. Normal[Table[b.op]][b.text] \in Keys \cup {Blank, Generated}
      BY <3>1
    <3> DEFINE n == Normal[Table[b.op]][b.text]
    <3>3. k \in IF n = Generated THEN Slugs ELSE {n} \ {Blank}
      BY <2>3 DEF KeysFor
    <3> HIDE DEF n
    <3> QED
      BY <3>2, <3>3 DEF n
  <2>4. CASE b.op = "revoke_api_key"
    BY <2>4 DEF KeysFor
  <2>5. CASE b.op = "signup"
    <3>1. b.text \in Texts
      BY <2>5, BodiesAssumption
    <3>2. Normal["user"][b.text] \in Keys \cup {Blank}
      BY <3>1
    <3> QED
      BY <2>5, <3>2 DEF KeysFor
  <2> QED
    BY <1>1, <2>1, <2>2, <2>3, <2>4, <2>5 DEF Body, Ops
<1>3. Table[b.op] \in Tables
  BY <1>1, TableFacts DEF Body, Ops, Tables
<1>4. x.id = r /\ x.of = o /\ x.key = k /\ x.by = b.actor /\ x.table = Table[b.op]
  BY DEF MainRow
<1>5. b.op = "create_flag" <=> Table[b.op] = "flag"
  BY <1>1, TableFacts DEF Body, Ops
<1>6. b.op = "signup" <=> Table[b.op] = "user"
  BY <1>1, TableFacts DEF Body, Ops
<1>7. x.table = "flag" => x.info = b.of
  BY <1>4, <1>5 DEF MainRow
<1>8. x.table # "user" => x.by \in Ids
  BY <1>4, <1>6, BodiesAssumption
<1>9. x \in Row
  <2>1. x \in [table : Tables, id : Ids, of : Ids \cup {NONE},
                key : Keys \cup {Blank} \cup Ids \cup Environments,
                info : {"owner", "member"} \cup Environments \cup Ids \cup {NONE},
                by : Ids \cup {NONE}]
    BY <1>1, <1>2, <1>3 DEF MainRow, Body
  <2> QED
    BY <1>2, <1>4, <2>1, TableFacts DEF Row
<1> QED
  BY <1>4, <1>7, <1>8, <1>9

(* The rows that come with `x' are of `x' and only of it. *)
LEMMA BundleFacts ==
  ASSUME NEW x \in Row, x.table # "user" => x.by \in Ids
  PROVE  /\ x \in Bundle(x)
         /\ Bundle(x) \in SUBSET Row
         /\ \A y \in Bundle(x) : y.id = x.id
         /\ \A y \in Bundle(x) : y = x \/ ( /\ y.table \in {"membership", "config", "audit"}
                                         /\ y.of = x.id /\ y.by = x.by )
         /\ \A y \in Bundle(x) : y # x /\ y.table = "membership" =>
                                 x.table = "organization"
         /\ \A y \in Bundle(x) : y # x /\ y.table \in {"config", "audit"} =>
                                 x.table = "flag"
         /\ \A y, z \in Bundle(x) : Clash(y, z) => y = z
         /\ \A y \in Bundle(x) : Bundle(y) \subseteq Bundle(x)
<1>1. CASE x.table = "organization"
  <2>1. Bundle(x) = {x, Owner(x)}
    BY <1>1, Bundles
  <2>2. /\ Owner(x) \in Row /\ Owner(x).table = "membership" /\ Owner(x).of = x.id
        /\ Owner(x).id = x.id /\ Owner(x).by = x.by
    BY <1>1, BlankFacts DEF Owner, Row, Tables
  <2>3. Bundle(Owner(x)) = {Owner(x)}
    BY <2>2, Bundles
  <2>4. ~Clash(x, Owner(x)) /\ ~Clash(Owner(x), x)
    BY <1>1, <2>2, ClashFacts
  <2> QED
    BY <1>1, <2>1, <2>2, <2>3, <2>4
<1>2. CASE x.table = "flag"
  <2> DEFINE C == {Config(x, e) : e \in Environments}
  <2>1. Bundle(x) = {x} \cup C \cup {Audit(x)}
    BY <1>2, Bundles
  <2>2. \A e \in Environments : /\ Config(x, e) \in Row /\ Config(x, e).table = "config"
                                /\ Config(x, e).of = x.id /\ Config(x, e).id = x.id
                                /\ Config(x, e).by = x.by /\ Config(x, e).key = e
    BY <1>2, BlankFacts DEF Config, Row, Tables
  <2>3. /\ Audit(x) \in Row /\ Audit(x).table = "audit" /\ Audit(x).of = x.id
        /\ Audit(x).id = x.id /\ Audit(x).by = x.by
    BY <1>2, BlankFacts DEF Audit, Row, Tables
  <2>4. \A y \in C : /\ y \in Row /\ y.table = "config" /\ y.of = x.id
                     /\ y.id = x.id /\ y.by = x.by /\ y = Config(x, y.key)
    BY <2>2
  <2>5. \A y \in Bundle(x) : y # x => Bundle(y) = {y}
    <3> HIDE DEF C
    <3> QED
      BY <2>1, <2>3, <2>4, Bundles
  <2>6. \A y, z \in Bundle(x) : Clash(y, z) => y = z
    <3> HIDE DEF C
    <3>1. SUFFICES ASSUME NEW y \in Bundle(x), NEW z \in Bundle(x),
                          y.table = z.table, y.key = z.key
                   PROVE  y = z
      BY ClashFacts
    <3> QED
      BY <1>2, <2>1, <2>3, <2>4, <3>1
  <2> HIDE DEF C
  <2> QED
    BY <1>2, <2>1, <2>3, <2>4, <2>5, <2>6
<1>3. CASE x.table \notin {"organization", "flag"}
  BY <1>3, Bundles
<1> QED
  BY <1>1, <1>2, <1>3

(* The flushes of a row are sets of rows. *)
LEMMA FlushesType ==
  ASSUME NEW x \in Row, x.table # "user" => x.by \in Ids
  PROVE  Flushes(x) \in Seq(SUBSET Row)
<1> DEFINE C == {Config(x, e) : e \in Environments}
<1>1. CASE x.table = "organization"
  <2>1. {x} \in SUBSET Row /\ {Owner(x)} \in SUBSET Row
    BY <1>1, BlankFacts DEF Owner, Row, Tables
  <2> QED
    BY <1>1, <2>1 DEF Flushes
<1>2. CASE x.table = "flag"
  <2>1. {x} \in SUBSET Row /\ C \in SUBSET Row /\ {Audit(x)} \in SUBSET Row
    BY <1>2, BlankFacts DEF Config, Audit, Row, Tables
  <2>2. Flushes(x) = << {x}, C, {Audit(x)} >>
    BY <1>2 DEF Flushes
  <2> HIDE DEF C
  <2> QED
    BY <2>1, <2>2
<1>3. CASE x.table \notin {"organization", "flag"}
  BY <1>3 DEF Flushes
<1> QED
  BY <1>1, <1>2, <1>3

-----------------------------------------------------------------------------
(* The queries find no less when there are more rows. *)
LEMMA Monotone ==
  ASSUME NEW some, NEW more, some \subseteq more, NEW b, NEW o, NEW r
  PROVE  /\ Users(some) \subseteq Users(more)
         /\ Members(some, o) \subseteq Members(more, o)
         /\ Owners(some, o) \subseteq Owners(more, o)
         /\ Scopes(some, b) \subseteq Scopes(more, b)
         /\ Allowed(some, b, o) => Allowed(more, b, o)
         /\ KeysFor(some, b, r) \subseteq KeysFor(more, b, r)
         /\ ApiKeys(some, b) \subseteq ApiKeys(more, b)
<1>1. /\ Users(some) \subseteq Users(more)
      /\ Members(some, o) \subseteq Members(more, o)
      /\ Owners(some, o) \subseteq Owners(more, o)
  BY DEF Users, Members, Owners
<1>2. Scopes(some, b) \subseteq Scopes(more, b)
  BY DEF Scopes
<1>3. Allowed(some, b, o) => Allowed(more, b, o)
  BY <1>1 DEF Allowed
<1>4. KeysFor(some, b, r) \subseteq KeysFor(more, b, r)
  BY DEF KeysFor
<1>5. ApiKeys(some, b) \subseteq ApiKeys(more, b)
  BY DEF ApiKeys
<1> QED
  BY <1>1, <1>2, <1>3, <1>4, <1>5

-----------------------------------------------------------------------------
(* The inductive invariant. *)

(* What a request has done so far: it writes exactly what belongs to its   *)
(* row, for a user who may, and what it answers with is in the tables.     *)
Local(r) ==
  /\ pc[r] # "idle" => body[r] \in Bodies
  /\ pc[r] # "writing" => pending[r] = {} /\ todo[r] = << >>
  /\ pc[r] \in {"authorized", "writing", "conflict", "marking"} =>
       scope[r] \in Scopes(rows, body[r]) /\ Allowed(rows, body[r], scope[r])
  /\ pc[r] = "writing" =>
       \E k \in KeysFor(rows, body[r], r) :
         pending[r] \cup All(todo[r]) = Bundle(MainRow(r, body[r], scope[r], k))
  /\ pc[r] = "conflict" =>
       \E k \in KeysFor(rows, body[r], r), x \in rows :
         x.id # r /\ Clash(x, MainRow(r, body[r], scope[r], k))
  /\ pc[r] \in {"committed", "created"} =>
       \E x \in rows : x.id = r /\ x.table = Table[body[r].op]
  /\ pc[r] = "marking" => body[r].op = "revoke_api_key" /\ ApiKeys(rows, body[r]) # {}
  /\ pc[r] \in {"marked", "revoked"} =>
       body[r].info \in Ids /\ revoked_at[body[r].info] # NONE

LocalInv == \A r \in Requests : Local(r)

(* A request has rows in the tables only once it has committed. *)
WrittenInv ==
  \A x \in rows : x.id \in Requests => pc[x.id] \in {"committed", "created", "failed"}

(* A request has marked an API key only once it has committed that. *)
RevokedInv ==
  \A i \in Ids : revoked_at[i] # NONE => pc[revoked_at[i].id] \in {"marked", "revoked", "failed"}

(* What is inserted and not committed clashes with nothing that is, and    *)
(* with nothing another request has inserted.                              *)
FreshInv ==
  \A r \in Requests : \A x \in pending[r] :
    /\ \A y \in rows : ~Clash(x, y)
    /\ \A q \in Requests \ {r} : \A y \in pending[q] : ~Clash(x, y)

IInv ==
  /\ TypeOK /\ LocalInv /\ WrittenInv /\ RevokedInv /\ FreshInv
  /\ UniqueKeys /\ WholeOrNothing /\ OwnersOnly

LEMMA InitInv == Init => IInv
<1> SUFFICES ASSUME Init PROVE IInv
  OBVIOUS
<1>1. TypeOK
  BY SchemaAssumption DEF Init, TypeOK
<1>2. LocalInv
  BY DEF Init, LocalInv, Local
<1>3. WrittenInv /\ RevokedInv /\ FreshInv
  BY SchemaAssumption DEF Init, WrittenInv, RevokedInv, FreshInv
<1>4. UniqueKeys /\ WholeOrNothing /\ OwnersOnly
  BY SeedAssumption DEF Init, UniqueKeys, WholeOrNothing, OwnersOnly
<1> QED
  BY <1>1, <1>2, <1>3, <1>4 DEF IInv

-----------------------------------------------------------------------------
(* Nothing is ever deleted. *)
LEMMA RowsGrow ==
  ASSUME [Next]_vars
  PROVE  /\ rows \subseteq rows'
         /\ rows' = rows \/ \E r \in Requests : Commit(r)
BY DEF Next, Step, Finished, vars, Begin, Authorize, Deny, Check, Reject, Insert,
       Answer, FindKey, CommitRevocation, Invalidate, Fail, Commit

(* A step of one request leaves the others as they are. *)
LEMMA OthersUntouched ==
  ASSUME TypeOK, NEW q \in Requests, NEW r \in Requests, q # r,
         Step(q) \/ Fail(q) \/ \E b \in Bodies : Begin(q, b)
  PROVE  UNCHANGED <<pc[r], pending[r], todo[r], body[r], scope[r]>>
<1>1. ASSUME Authorize(q) \/ Deny(q) \/ Check(q) \/ Reject(q) \/ Commit(q) \/ Answer(q)
             \/ Fail(q) \/ \E b \in Bodies : Begin(q, b)
      PROVE  UNCHANGED <<pc[r], pending[r], todo[r], body[r], scope[r]>>
  BY <1>1 DEF TypeOK, Authorize, Deny, Check, Reject, Commit, Answer, Fail, Begin, Goto, Rollback
<1>3. ASSUME FindKey(q) \/ CommitRevocation(q) \/ Invalidate(q)
      PROVE  UNCHANGED <<pc[r], pending[r], todo[r], body[r], scope[r]>>
  BY <1>3 DEF TypeOK, FindKey, CommitRevocation, Invalidate, Goto
<1>2. ASSUME Insert(q)
      PROVE  UNCHANGED <<pc[r], pending[r], todo[r], body[r], scope[r]>>
  BY <1>2 DEF TypeOK, Insert, Goto, Rollback
<1> QED
  BY <1>1, <1>2, <1>3 DEF Step

(* The row of a request whose key has been looked for. *)
LEMMA MainOf ==
  ASSUME IInv, NEW r \in Requests, pc[r] \in {"authorized", "writing"},
         NEW k \in KeysFor(rows, body[r], r)
  PROVE  LET x == MainRow(r, body[r], scope[r], k)
         IN  /\ x \in Row /\ x.id = r /\ x.of = scope[r] /\ x.key = k
             /\ x.by = body[r].actor /\ x.table = Table[body[r].op]
             /\ x.table = "flag" => x.info = body[r].of
             /\ x.table # "user" => x.by \in Ids
<1>1. /\ rows \in SUBSET Row /\ scope[r] \in Ids \cup {NONE} /\ body[r] \in Bodies
  BY DEF IInv, TypeOK, LocalInv, Local
<1> QED
  BY <1>1, MainFacts

LEMMA ScopesType ==
  ASSUME TypeOK, NEW b \in Bodies
  PROVE  Scopes(rows, b) \subseteq Ids \cup {NONE}
<1>1. b \in Body
  BY BodiesAssumption
<1> QED
  BY <1>1 DEF TypeOK, Scopes, Row, Body

(* Who is about to mark an API key owns the organization it is of. *)
LEMMA MarkingFacts ==
  ASSUME IInv, NEW r \in Requests, pc[r] = "marking"
  PROVE  /\ body[r].info \in Ids
         /\ [id |-> r, by |-> body[r].actor] \in Revocation
         /\ \E x \in rows : /\ x.table = "api_key" /\ x.id = body[r].info
                            /\ body[r].actor \in Owners(rows, x.of)
<1>1. /\ body[r] \in Bodies /\ body[r].op = "revoke_api_key"
      /\ scope[r] \in Scopes(rows, body[r]) /\ Allowed(rows, body[r], scope[r])
      /\ ApiKeys(rows, body[r]) # {}
  BY DEF IInv, LocalInv, Local
<1>2. body[r].info \in Ids /\ body[r].actor \in Ids
  BY <1>1, BodiesAssumption
<1>3. scope[r] = body[r].of /\ body[r].actor \in Owners(rows, body[r].of)
  BY <1>1 DEF Scopes, Allowed
<1> QED
  BY <1>1, <1>2, <1>3 DEF ApiKeys, Revocation

(* Nor is a revocation undone. *)
LEMMA RevocationsStand ==
  ASSUME IInv, [Next]_vars
  PROVE  /\ \A i \in Ids : revoked_at[i] # NONE => revoked_at'[i] # NONE
         /\ revoked_at' = revoked_at \/ \E r \in Requests : CommitRevocation(r)
<1>1. ASSUME NEW r \in Requests, CommitRevocation(r)
      PROVE  \A i \in Ids : revoked_at[i] # NONE => revoked_at'[i] # NONE
  <2>1. [id |-> r, by |-> body[r].actor] # NONE
    BY <1>1, MarkingFacts, SchemaAssumption DEF CommitRevocation
  <2> QED
    BY <1>1, <2>1 DEF CommitRevocation, IInv, TypeOK
<1>2. revoked_at' = revoked_at \/ \E r \in Requests : CommitRevocation(r)
  BY DEF Next, Step, Finished, vars, Begin, Authorize, Deny, Check, Reject, Insert,
         Answer, FindKey, CommitRevocation, Invalidate, Fail, Commit
<1> QED
  BY <1>1, <1>2

LEMMA TypeStep == IInv /\ [Next]_vars => TypeOK'
<1> SUFFICES ASSUME IInv, [Next]_vars PROVE TypeOK'
  OBVIOUS
<1> USE DEF TypeOK, Begun, Answered
<1>1. ASSUME NEW r \in Requests, NEW step \in Answered, Rollback(r, step),
             UNCHANGED <<tables, body, scope>>
      PROVE  TypeOK'
  <2>1. << >> \in Seq(SUBSET Row) /\ {} \in SUBSET Row
    OBVIOUS
  <2> QED
    BY <1>1, <2>1 DEF Rollback, Goto, IInv
<1>2. ASSUME NEW r \in Requests, NEW b \in Bodies, Begin(r, b) PROVE TypeOK'
  BY <1>2 DEF Begin, Goto, IInv
<1>3. ASSUME NEW r \in Requests, Authorize(r) PROVE TypeOK'
  <2>1. Scopes(rows, body[r]) \subseteq Ids \cup {NONE}
    BY <1>3, ScopesType DEF IInv, LocalInv, Local, Authorize
  <2> QED
    BY <1>3, <2>1 DEF Authorize, Goto, IInv
<1>4. ASSUME NEW r \in Requests, Deny(r) \/ Reject(r) \/ Answer(r) PROVE TypeOK'
  BY <1>4 DEF Deny, Reject, Answer, Goto, IInv
<1>5. ASSUME NEW r \in Requests, Check(r) PROVE TypeOK'
  <2>1. PICK k \in KeysFor(rows, body[r], r) :
          LET x == MainRow(r, body[r], scope[r], k)
          IN  \/ Goto(r, "conflict") /\ UNCHANGED todo
              \/ Goto(r, "writing") /\ todo' = [todo EXCEPT ![r] = Flushes(x)]
    BY <1>5 DEF Check
  <2>2. Flushes(MainRow(r, body[r], scope[r], k)) \in Seq(SUBSET Row)
    BY <1>5, MainOf, FlushesType DEF Check
  <2>3. todo' \in [Requests -> Seq(SUBSET Row)]
    <3> HIDE DEF TypeOK
    <3>1. todo \in [Requests -> Seq(SUBSET Row)]
      BY DEF IInv, TypeOK
    <3> QED
      BY <2>1, <2>2, <3>1
  <2>4. pc' \in [Requests -> {"idle"} \cup Begun \cup Answered]
    BY <2>1 DEF Goto, IInv
  <2> QED
    BY <1>5, <2>3, <2>4 DEF Check, IInv
<1>6. ASSUME NEW r \in Requests, Insert(r) PROVE TypeOK'
  <2>1. todo[r] \in Seq(SUBSET Row) /\ todo[r] # << >>
    BY <1>6 DEF Insert, IInv
  <2>2. Head(todo[r]) \in SUBSET Row /\ Tail(todo[r]) \in Seq(SUBSET Row)
    BY <2>1, AllSplits
  <2>3. CASE Rollback(r, "conflict")
    BY <1>6, <1>1, <2>3 DEF Insert
  <2>4. CASE /\ pending' = [pending EXCEPT ![r] = @ \cup Head(todo[r])]
             /\ todo' = [todo EXCEPT ![r] = Tail(@)]
             /\ UNCHANGED pc
    <3>1. pending[r] \cup Head(todo[r]) \in SUBSET Row
      BY <2>2 DEF IInv
    <3>2. pending' \in [Requests -> SUBSET Row] /\ todo' \in [Requests -> Seq(SUBSET Row)]
      BY <2>2, <2>4, <3>1 DEF IInv
    <3> QED
      BY <1>6, <2>4, <3>2 DEF Insert, IInv
  <2> QED
    BY <1>6, <2>3, <2>4 DEF Insert
<1>7. ASSUME NEW r \in Requests, Commit(r) PROVE TypeOK'
  BY <1>7 DEF Commit, Goto, IInv
<1>8. ASSUME NEW r \in Requests, Fail(r) PROVE TypeOK'
  BY <1>1, <1>8 DEF Fail
<1>9. CASE UNCHANGED vars
  BY <1>9 DEF vars, IInv
<1>10. ASSUME NEW r \in Requests, FindKey(r) \/ Invalidate(r) PROVE TypeOK'
  BY <1>10 DEF FindKey, Invalidate, Goto, IInv
<1>11. ASSUME NEW r \in Requests, CommitRevocation(r) PROVE TypeOK'
  <2>1. [id |-> r, by |-> body[r].actor] \in Revocation
    BY <1>11, MarkingFacts DEF CommitRevocation, IInv
  <2> QED
    BY <1>11, <2>1 DEF CommitRevocation, Goto, IInv
<1> QED
  BY <1>2, <1>3, <1>4, <1>5, <1>6, <1>7, <1>8, <1>9, <1>10, <1>11 DEF Next, Step, Finished

-----------------------------------------------------------------------------
(* What a request has done so far stays so when others write. *)
LEMMA LocalKept ==
  ASSUME NEW r \in Requests, Local(r), rows \subseteq rows',
         \A i \in Ids : revoked_at[i] # NONE => revoked_at'[i] # NONE,
         UNCHANGED <<pc[r], pending[r], todo[r], body[r], scope[r]>>
  PROVE  Local(r)'
<1>1. /\ Scopes(rows, body[r]) \subseteq Scopes(rows', body[r])
      /\ Allowed(rows, body[r], scope[r]) => Allowed(rows', body[r], scope[r])
      /\ KeysFor(rows, body[r], r) \subseteq KeysFor(rows', body[r], r)
      /\ ApiKeys(rows, body[r]) \subseteq ApiKeys(rows', body[r])
  BY Monotone
<1> QED
  BY <1>1, BodiesAssumption DEF Local

(* The row a request writes is not of another request's making, nor is     *)
(* anything in the tables of its.                                          *)
LEMMA NothingYet ==
  ASSUME IInv, NEW r \in Requests, pc[r] \in {"idle", "begun", "authorized", "writing"}
  PROVE  \A x \in rows : x.id # r
BY DEF IInv, WrittenInv

(* A flush that fails on a committed key fails on that of the main row. *)
LEMMA ConflictIsMain ==
  ASSUME IInv, NEW r \in Requests, pc[r] = "writing", NEW x \in All(todo[r]),
         NEW y \in rows, Clash(x, y)
  PROVE  \E k \in KeysFor(rows, body[r], r) :
           y.id # r /\ Clash(y, MainRow(r, body[r], scope[r], k))
<1>1. PICK k \in KeysFor(rows, body[r], r) :
        pending[r] \cup All(todo[r]) = Bundle(MainRow(r, body[r], scope[r], k))
  BY DEF IInv, LocalInv, Local
<1> DEFINE m == MainRow(r, body[r], scope[r], k)
<1>2. m \in Row /\ m.id = r /\ (m.table # "user" => m.by \in Ids)
  BY MainOf
<1>3. x \in Bundle(m) /\ y.table = x.table /\ y.of = x.of /\ y.key = x.key
  BY <1>1, ClashFacts
<1>4. y.id # r
  BY NothingYet
<1>5. CASE x = m
  BY <1>3, <1>4, <1>5, ClashFacts
<1>6. CASE x # m
  <2> HIDE DEF m
  <2>1. x.table \in {"membership", "config", "audit"} /\ x.of = r
    BY <1>2, <1>3, <1>6, BundleFacts
  <2>2. \E z \in rows : z.id = r
    BY <1>3, <2>1 DEF IInv, OwnersOnly, Proper
  <2> QED
    BY <2>2, NothingYet
<1> QED
  BY <1>5, <1>6

LEMMA LocalStep == IInv /\ [Next]_vars => LocalInv'
<1> SUFFICES ASSUME IInv, [Next]_vars, NEW r \in Requests PROVE Local(r)'
  BY DEF LocalInv
<1>0. /\ TypeOK /\ Local(r) /\ rows \subseteq rows'
      /\ \A i \in Ids : revoked_at[i] # NONE => revoked_at'[i] # NONE
  BY RowsGrow, RevocationsStand DEF IInv, LocalInv
<1>1. CASE UNCHANGED vars
  BY <1>0, <1>1, LocalKept DEF vars
<1>2. ASSUME NEW q \in Requests, q # r,
             Step(q) \/ Fail(q) \/ \E b \in Bodies : Begin(q, b)
      PROVE  Local(r)'
  BY <1>0, <1>2, OthersUntouched, LocalKept
<1>3. ASSUME NEW b \in Bodies, Begin(r, b) PROVE Local(r)'
  BY <1>0, <1>3 DEF Begin, Goto, TypeOK, Local
<1>4. CASE Authorize(r)
  BY <1>0, <1>4 DEF Authorize, Goto, TypeOK, Local
<1>5. CASE Deny(r) \/ Reject(r)
  BY <1>0, <1>5 DEF Deny, Reject, Goto, TypeOK, Local
<1>6. CASE Check(r)
  <2>1. PICK k \in KeysFor(rows, body[r], r) :
          LET x == MainRow(r, body[r], scope[r], k)
          IN  \/ /\ \E y \in rows : Clash(x, y)
                 /\ Goto(r, "conflict")
                 /\ UNCHANGED todo
              \/ /\ Goto(r, "writing")
                 /\ todo' = [todo EXCEPT ![r] = Flushes(x)]
    BY <1>6 DEF Check
  <2> DEFINE x == MainRow(r, body[r], scope[r], k)
  <2>2. /\ pc[r] = "authorized" /\ UNCHANGED <<rows, pending, body, scope>>
        /\ pending[r] = {} /\ todo[r] = << >> /\ body[r] \in Bodies
        /\ scope[r] \in Scopes(rows, body[r]) /\ Allowed(rows, body[r], scope[r])
    BY <1>0, <1>6 DEF Check, Local
  <2>3. CASE Goto(r, "conflict") /\ UNCHANGED todo /\ \E y \in rows : Clash(x, y)
    <3>1. PICK y \in rows : Clash(y, x)
      BY <2>3, ClashFacts
    <3>2. y.id # r
      BY <2>2, NothingYet
    <3>3. pc'[r] = "conflict"
      BY <1>0, <2>3 DEF Goto, TypeOK
    <3> HIDE DEF x
    <3>4. \E j \in KeysFor(rows, body[r], r), z \in rows :
            z.id # r /\ Clash(z, MainRow(r, body[r], scope[r], j))
      BY <3>1, <3>2 DEF x
    <3> QED
      BY <2>2, <2>3, <3>3, <3>4 DEF Local
  <2>4. CASE Goto(r, "writing") /\ todo' = [todo EXCEPT ![r] = Flushes(x)]
    <3>1. pc'[r] = "writing" /\ todo'[r] = Flushes(x)
      BY <1>0, <2>4 DEF Goto, TypeOK
    <3>2. pending[r] \cup All(todo'[r]) = Bundle(x)
      BY <2>2, <3>1 DEF Bundle
    <3> QED
      BY <2>2, <3>1, <3>2 DEF Local
  <2> QED
    BY <2>1, <2>3, <2>4
<1>7. CASE Insert(r)
  <2>1. /\ pc[r] = "writing" /\ UNCHANGED <<rows, body, scope>>
        /\ todo[r] \in Seq(SUBSET Row) /\ todo[r] # << >>
    BY <1>0, <1>7 DEF Insert, TypeOK
  <2>2. All(todo[r]) = Head(todo[r]) \cup All(Tail(todo[r]))
    BY <2>1, AllSplits
  <2>3. CASE Rollback(r, "conflict") /\ \E x \in Head(todo[r]), y \in rows : Clash(x, y)
    <3>1. \E k \in KeysFor(rows, body[r], r), y \in rows :
            y.id # r /\ Clash(y, MainRow(r, body[r], scope[r], k))
      BY <2>1, <2>2, <2>3, ConflictIsMain
    <3>2. pc'[r] = "conflict" /\ pending'[r] = {} /\ todo'[r] = << >>
      BY <1>0, <2>3 DEF Rollback, Goto, TypeOK
    <3> QED
      BY <1>0, <2>1, <3>1, <3>2 DEF Local
  <2>4. CASE /\ pending' = [pending EXCEPT ![r] = @ \cup Head(todo[r])]
             /\ todo' = [todo EXCEPT ![r] = Tail(@)]
             /\ UNCHANGED pc
    <3>1. pending'[r] = pending[r] \cup Head(todo[r]) /\ todo'[r] = Tail(todo[r])
      BY <1>0, <2>4 DEF TypeOK
    <3>2. pending'[r] \cup All(todo'[r]) = pending[r] \cup All(todo[r])
      BY <2>2, <3>1
    <3> QED
      BY <1>0, <2>1, <2>4, <3>2 DEF Local
  <2> QED
    BY <1>7, <2>3, <2>4 DEF Insert
<1>8. CASE Commit(r)
  <2>1. /\ pc[r] = "writing" /\ todo[r] = << >> /\ UNCHANGED <<todo, body, scope>>
        /\ rows' = rows \cup pending[r] /\ pc'[r] = "committed" /\ pending'[r] = {}
    BY <1>0, <1>8 DEF Commit, Goto, TypeOK
  <2>2. PICK k \in KeysFor(rows, body[r], r) :
          pending[r] \cup All(todo[r]) = Bundle(MainRow(r, body[r], scope[r], k))
    BY <1>0, <2>1 DEF Local
  <2> DEFINE x == MainRow(r, body[r], scope[r], k)
  <2>3. /\ x \in Row /\ x.id = r /\ x.table = Table[body[r].op]
        /\ x.table # "user" => x.by \in Ids
    BY <2>1, MainOf
  <2>4. x \in Bundle(x)
    <3> HIDE DEF x
    <3> QED
      BY <2>3, BundleFacts
  <2>5. x \in rows'
    BY <2>1, <2>2, <2>4, AllEmpty
  <2>6. \E y \in rows' : y.id = r /\ y.table = Table[body[r].op]
    BY <2>3, <2>5
  <2> QED
    BY <1>0, <2>1, <2>6 DEF Local
<1>9. CASE Answer(r)
  BY <1>0, <1>9 DEF Answer, Goto, TypeOK, Local
<1>10. CASE Fail(r)
  BY <1>0, <1>10 DEF Fail, Rollback, Goto, TypeOK, Begun, Local
<1>11. CASE FindKey(r)
  <2>1. body[r].info \in Ids
    BY <1>0, <1>11, BodiesAssumption DEF FindKey, Local
  <2> QED
    BY <1>0, <1>11, <2>1 DEF FindKey, Goto, TypeOK, Local
<1>12. CASE CommitRevocation(r)
  <2>1. body[r].info \in Ids /\ [id |-> r, by |-> body[r].actor] \in Revocation
    BY <1>12, MarkingFacts DEF CommitRevocation
  <2>2. revoked_at'[body[r].info] # NONE
    BY <1>0, <1>12, <2>1, SchemaAssumption DEF CommitRevocation, TypeOK
  <2> QED
    BY <1>0, <1>12, <2>1, <2>2 DEF CommitRevocation, Goto, TypeOK, Local
<1>13. CASE Invalidate(r)
  BY <1>0, <1>13 DEF Invalidate, Goto, TypeOK, Local
<1> QED
  BY <1>1, <1>2, <1>3, <1>4, <1>5, <1>6, <1>7, <1>8, <1>9, <1>10, <1>11, <1>12, <1>13
  DEF Next, Step, Finished

-----------------------------------------------------------------------------
(* What a commit adds: everything that belongs to the request's row, all   *)
(* of it new.                                                              *)
LEMMA CommitFacts ==
  ASSUME IInv, NEW r \in Requests, Commit(r)
  PROVE  \E k \in KeysFor(rows, body[r], r) :
           LET x == MainRow(r, body[r], scope[r], k)
           IN  /\ x \in Row /\ x.id = r /\ x.of = scope[r] /\ x.by = body[r].actor
               /\ x.table = Table[body[r].op]
               /\ x.table = "flag" => x.info = body[r].of
               /\ x.table # "user" => x.by \in Ids
               /\ pending[r] = Bundle(x) /\ rows' = rows \cup Bundle(x)
               /\ \A y \in Bundle(x), z \in rows : ~Clash(y, z)
<1>1. pc[r] = "writing" /\ todo[r] = << >> /\ rows' = rows \cup pending[r]
  BY DEF Commit
<1>2. PICK k \in KeysFor(rows, body[r], r) :
        pending[r] \cup All(todo[r]) = Bundle(MainRow(r, body[r], scope[r], k))
  BY <1>1 DEF IInv, LocalInv, Local
<1> DEFINE x == MainRow(r, body[r], scope[r], k)
<1>3. /\ x \in Row /\ x.id = r /\ x.of = scope[r] /\ x.by = body[r].actor
      /\ x.table = Table[body[r].op]
      /\ x.table = "flag" => x.info = body[r].of
      /\ x.table # "user" => x.by \in Ids
  BY <1>1, MainOf
<1>4. pending[r] = Bundle(x)
  BY <1>1, <1>2, AllEmpty
<1>5. \A y \in Bundle(x), z \in rows : ~Clash(y, z)
  BY <1>4 DEF IInv, FreshInv
<1> QED
  BY <1>1, <1>3, <1>4, <1>5

LEMMA WrittenStep == IInv /\ [Next]_vars => WrittenInv'
<1> SUFFICES ASSUME IInv, [Next]_vars, NEW x \in rows', x.id \in Requests
             PROVE  pc'[x.id] \in {"committed", "created", "failed"}
  BY DEF WrittenInv
<1> DEFINE Ended == {"committed", "created", "failed"}
<1>0. pc \in [Requests -> {"idle"} \cup Begun \cup Answered]
  BY DEF IInv, TypeOK
<1>1. ASSUME NEW r \in Requests, pc[r] \in Ended PROVE pc'[r] \in Ended
  <2>1. ASSUME NEW q \in Requests, NEW b \in Bodies, Begin(q, b) PROVE pc'[r] \in Ended
    BY <1>0, <1>1, <2>1 DEF Begin, Goto
  <2>2. ASSUME NEW q \in Requests, Authorize(q) \/ Deny(q) \/ Check(q) \/ Reject(q)
        PROVE  pc'[r] \in Ended
    BY <1>0, <1>1, <2>2 DEF Authorize, Deny, Check, Reject, Goto
  <2>3. ASSUME NEW q \in Requests, Insert(q) PROVE pc'[r] \in Ended
    BY <1>0, <1>1, <2>3 DEF Insert, Rollback, Goto
  <2>4. ASSUME NEW q \in Requests, Commit(q) \/ Answer(q) \/ Fail(q) PROVE pc'[r] \in Ended
    BY <1>0, <1>1, <2>4 DEF Commit, Answer, Fail, Rollback, Goto
  <2>5. ASSUME NEW q \in Requests, FindKey(q) \/ CommitRevocation(q) \/ Invalidate(q)
        PROVE  pc'[r] \in Ended
    BY <1>0, <1>1, <2>5 DEF FindKey, CommitRevocation, Invalidate, Goto
  <2> QED
    BY <1>1, <2>1, <2>2, <2>3, <2>4, <2>5 DEF Next, Step, Finished, vars
<1>2. CASE x \in rows
  BY <1>1, <1>2 DEF IInv, WrittenInv
<1>3. CASE x \notin rows
  <2>1. PICK r \in Requests : Commit(r)
    BY <1>3, RowsGrow
  <2>2. PICK k \in KeysFor(rows, body[r], r) :
          LET m == MainRow(r, body[r], scope[r], k)
          IN  /\ m \in Row /\ m.id = r /\ (m.table # "user" => m.by \in Ids)
              /\ rows' = rows \cup Bundle(m)
    BY <2>1, CommitFacts
  <2>3. x.id = r
    BY <1>3, <2>2, BundleFacts
  <2>4. pc'[r] = "committed"
    BY <1>0, <2>1 DEF Commit, Goto
  <2> QED
    BY <2>3, <2>4
<1> QED
  BY <1>2, <1>3

LEMMA RevokedStep == IInv /\ [Next]_vars => RevokedInv'
<1> SUFFICES ASSUME IInv, [Next]_vars, NEW i \in Ids, revoked_at'[i] # NONE
             PROVE  pc'[revoked_at'[i].id] \in {"marked", "revoked", "failed"}
  BY DEF RevokedInv
<1> DEFINE Ended == {"marked", "revoked", "failed"}
<1>0. /\ pc \in [Requests -> {"idle"} \cup Begun \cup Answered]
      /\ revoked_at \in [Ids -> Revocation \cup {NONE}]
  BY DEF IInv, TypeOK
<1>1. ASSUME NEW r \in Requests, pc[r] \in Ended PROVE pc'[r] \in Ended
  <2>1. ASSUME NEW q \in Requests, NEW b \in Bodies, Begin(q, b) PROVE pc'[r] \in Ended
    BY <1>0, <1>1, <2>1 DEF Begin, Goto
  <2>2. ASSUME NEW q \in Requests, Authorize(q) \/ Deny(q) \/ Check(q) \/ Reject(q)
        PROVE  pc'[r] \in Ended
    BY <1>0, <1>1, <2>2 DEF Authorize, Deny, Check, Reject, Goto
  <2>3. ASSUME NEW q \in Requests, Insert(q) PROVE pc'[r] \in Ended
    BY <1>0, <1>1, <2>3 DEF Insert, Rollback, Goto
  <2>4. ASSUME NEW q \in Requests, Commit(q) \/ Answer(q) \/ Fail(q) PROVE pc'[r] \in Ended
    BY <1>0, <1>1, <2>4 DEF Commit, Answer, Fail, Rollback, Goto
  <2>5. ASSUME NEW q \in Requests, FindKey(q) \/ CommitRevocation(q) \/ Invalidate(q)
        PROVE  pc'[r] \in Ended
    BY <1>0, <1>1, <2>5 DEF FindKey, CommitRevocation, Invalidate, Goto
  <2> QED
    BY <1>1, <2>1, <2>2, <2>3, <2>4, <2>5 DEF Next, Step, Finished, vars
<1>2. CASE revoked_at'[i] = revoked_at[i]
  <2>1. revoked_at[i].id \in Requests
    BY <1>0, <1>2 DEF Revocation
  <2> QED
    BY <1>1, <1>2, <2>1 DEF IInv, RevokedInv
<1>3. CASE revoked_at'[i] # revoked_at[i]
  <2>1. PICK r \in Requests : CommitRevocation(r)
    BY <1>3, RevocationsStand
  <2>2. revoked_at'[i].id = r /\ pc'[r] = "marked"
    BY <1>0, <1>3, <2>1 DEF CommitRevocation, Goto
  <2> QED
    BY <2>2
<1> QED
  BY <1>2, <1>3

LEMMA FreshStep == IInv /\ [Next]_vars => FreshInv'
<1> SUFFICES ASSUME IInv, [Next]_vars PROVE FreshInv'
  OBVIOUS
<1>0. TypeOK /\ FreshInv
  BY DEF IInv
<1>1. CASE UNCHANGED <<rows, pending>>
  BY <1>0, <1>1 DEF FreshInv
<1>2. ASSUME NEW r \in Requests, pending' = [pending EXCEPT ![r] = {}], UNCHANGED rows
      PROVE  FreshInv'
  BY <1>0, <1>2 DEF FreshInv, TypeOK
<1>3. ASSUME NEW r \in Requests, Insert(r) PROVE FreshInv'
  <2>1. CASE Rollback(r, "conflict")
    BY <1>2, <1>3, <2>1 DEF Insert, Rollback
  <2>2. CASE /\ pending' = [pending EXCEPT ![r] = @ \cup Head(todo[r])]
             /\ \A x \in Head(todo[r]), y \in rows : ~Clash(x, y)
    <3>1. /\ pending'[r] = pending[r] \cup Head(todo[r])
          /\ \A q \in Requests \ {r} : pending'[q] = pending[q]
          /\ rows' = rows
      BY <1>0, <1>3, <2>2 DEF TypeOK, Insert
    <3>2. \A q \in Requests \ {r} : \A x \in Head(todo[r]), y \in pending[q] :
            ~Clash(x, y) /\ ~Clash(y, x)
      BY <1>3, ClashFacts DEF Insert
    <3> QED
      BY <1>0, <2>2, <3>1, <3>2 DEF FreshInv
  <2> QED
    BY <1>3, <2>1, <2>2 DEF Insert
<1>4. ASSUME NEW r \in Requests, Commit(r) PROVE FreshInv'
  <2>1. /\ rows' = rows \cup pending[r] /\ pending'[r] = {}
        /\ \A q \in Requests \ {r} : pending'[q] = pending[q]
    BY <1>0, <1>4 DEF Commit, TypeOK
  <2> QED
    BY <1>0, <2>1 DEF FreshInv
<1>5. ASSUME NEW r \in Requests, Fail(r) PROVE FreshInv'
  BY <1>2, <1>5 DEF Fail, Rollback
<1>6. ASSUME NEW r \in Requests,
             \/ Authorize(r) \/ Deny(r) \/ Check(r) \/ Reject(r) \/ Answer(r)
             \/ \E b \in Bodies : Begin(r, b)
      PROVE  FreshInv'
  BY <1>1, <1>6 DEF Authorize, Deny, Check, Reject, Answer, Begin
<1>8. ASSUME NEW r \in Requests, FindKey(r) \/ CommitRevocation(r) \/ Invalidate(r)
      PROVE  FreshInv'
  BY <1>1, <1>8 DEF FindKey, CommitRevocation, Invalidate
<1>7. CASE UNCHANGED vars
  BY <1>1, <1>7 DEF vars
<1> QED
  BY <1>3, <1>4, <1>5, <1>6, <1>7, <1>8 DEF Next, Step, Finished

LEMMA UniqueStep == IInv /\ [Next]_vars => UniqueKeys'
<1> SUFFICES ASSUME IInv, [Next]_vars PROVE UniqueKeys'
  OBVIOUS
<1>1. CASE rows' = rows
  BY <1>1 DEF IInv, UniqueKeys, Unique
<1>2. ASSUME NEW r \in Requests, Commit(r) PROVE UniqueKeys'
  <2>1. PICK k \in KeysFor(rows, body[r], r) :
          LET m == MainRow(r, body[r], scope[r], k)
          IN  /\ m \in Row /\ (m.table # "user" => m.by \in Ids)
              /\ rows' = rows \cup Bundle(m)
              /\ \A y \in Bundle(m), z \in rows : ~Clash(y, z)
    BY <1>2, CommitFacts
  <2> DEFINE m == MainRow(r, body[r], scope[r], k)
  <2> HIDE DEF m
  <2>2. \A y \in Bundle(m), z \in rows : ~Clash(y, z) /\ ~Clash(z, y)
    BY <2>1, ClashFacts DEF m
  <2>3. \A y, z \in Bundle(m) : Clash(y, z) => y = z
    BY <2>1, BundleFacts DEF m
  <2>4. rows' = rows \cup Bundle(m)
    BY <2>1 DEF m
  <2> QED
    BY <2>2, <2>3, <2>4 DEF IInv, UniqueKeys, Unique
<1> QED
  BY <1>1, <1>2, RowsGrow

LEMMA WholeStep == IInv /\ [Next]_vars => WholeOrNothing'
<1> SUFFICES ASSUME IInv, [Next]_vars PROVE WholeOrNothing'
  OBVIOUS
<1>1. CASE rows' = rows
  BY <1>1 DEF IInv, WholeOrNothing, Whole
<1>2. ASSUME NEW r \in Requests, Commit(r) PROVE WholeOrNothing'
  <2>1. PICK k \in KeysFor(rows, body[r], r) :
          LET m == MainRow(r, body[r], scope[r], k)
          IN  /\ m \in Row /\ (m.table # "user" => m.by \in Ids)
              /\ rows' = rows \cup Bundle(m)
    BY <1>2, CommitFacts
  <2> DEFINE m == MainRow(r, body[r], scope[r], k)
  <2> HIDE DEF m
  <2>2. \A y \in Bundle(m) : Bundle(y) \subseteq Bundle(m)
    BY <2>1, BundleFacts DEF m
  <2>3. rows' = rows \cup Bundle(m)
    BY <2>1 DEF m
  <2> QED
    BY <2>2, <2>3 DEF IInv, WholeOrNothing, Whole
<1> QED
  BY <1>1, <1>2, RowsGrow

(* Whoever has a role in an organization has it in one that exists. *)
LEMMA MembersOfSomething ==
  ASSUME IInv, NEW o, Members(rows, o) # {}
  PROVE  \E y \in rows : y.table = "organization" /\ y.id = o
<1>1. PICK x \in rows : x.table = "membership" /\ x.of = o
  BY DEF Members
<1> QED
  BY <1>1 DEF IInv, OwnersOnly, Proper

LEMMA ProperStep == IInv /\ [Next]_vars => Proper(rows')
<1> SUFFICES ASSUME IInv, [Next]_vars PROVE Proper(rows')
  OBVIOUS
<1>0. rows \subseteq rows' /\ Proper(rows)
  BY RowsGrow DEF IInv, OwnersOnly
<1>1. CASE rows' = rows
  BY <1>0, <1>1 DEF Proper
<1>2. ASSUME NEW r \in Requests, Commit(r) PROVE Proper(rows')
  <2> DEFINE b == body[r]
             o == scope[r]
  <2>1. PICK k \in KeysFor(rows, b, r) :
          LET m == MainRow(r, b, o, k)
          IN  /\ m \in Row /\ m.id = r /\ m.of = o /\ m.by = b.actor
              /\ m.table = Table[b.op]
              /\ m.table = "flag" => m.info = b.of
              /\ m.table # "user" => m.by \in Ids
              /\ rows' = rows \cup Bundle(m)
    BY <1>2, CommitFacts
  <2> DEFINE m == MainRow(r, b, o, k)
  <2> HIDE DEF m
  <2>2. /\ m \in Row /\ m.id = r /\ m.of = o /\ m.by = b.actor /\ m.table = Table[b.op]
        /\ m.table = "flag" => m.info = b.of
        /\ m.table # "user" => m.by \in Ids
        /\ rows' = rows \cup Bundle(m)
    BY <2>1 DEF m
  <2>3. b \in Bodies /\ b \in Body /\ o \in Scopes(rows, b) /\ Allowed(rows, b, o)
    BY <1>2, BodiesAssumption DEF Commit, IInv, LocalInv, Local
  <2>4. \A p : /\ Members(rows, p) \subseteq Members(rows', p)
               /\ Owners(rows, p) \subseteq Owners(rows', p)
    BY <1>0, Monotone
  <2>5. Owners(rows, o) \subseteq Members(rows, o)
    BY DEF Owners, Members
  <2> HIDE DEF b, o
  <2>6. ASSUME NEW x \in rows
        PROVE  /\ x.table = "membership" => x.id = x.of \/ x.by \in Owners(rows', x.of)
               /\ x.table = "api_key" => x.by \in Owners(rows', x.of)
               /\ x.table \in {"project", "flag"} => x.by \in Members(rows', x.of)
               /\ x.table = "flag" =>
                    \E y \in rows' : y.table = "project" /\ y.id = x.info /\ y.of = x.of
               /\ x.table \in {"membership", "api_key", "project", "flag"} =>
                    \E y \in rows' : y.table = "organization" /\ y.id = x.of
               /\ x.table \in {"config", "audit"} =>
                    \E y \in rows' : y.table = "flag" /\ y.id = x.of
    BY <1>0, <2>4, <2>6 DEF Proper
  <2>7. /\ m.table = "membership" => m.by \in Owners(rows', m.of)
        /\ m.table = "api_key" => m.by \in Owners(rows', m.of)
        /\ m.table \in {"project", "flag"} => m.by \in Members(rows', m.of)
    BY <2>2, <2>3, <2>4, TableFacts DEF Allowed, Body, Ops
  <2>8. m.table = "flag" =>
          \E y \in rows' : y.table = "project" /\ y.id = m.info /\ y.of = m.of
    <3>1. SUFFICES ASSUME m.table = "flag"
                   PROVE  \E y \in rows' : y.table = "project" /\ y.id = m.info /\ y.of = m.of
      OBVIOUS
    <3>2. b.op = "create_flag"
      BY <2>2, <2>3, <3>1, TableFacts DEF Body, Ops
    <3>3. PICK y \in rows : y.table = "project" /\ y.id = b.of /\ y.of = o
      BY <2>3, <3>2 DEF Scopes
    <3> QED
      BY <1>0, <2>2, <3>1, <3>3
  <2>9. m.table \in {"membership", "api_key", "project", "flag"} =>
          \E y \in rows' : y.table = "organization" /\ y.id = m.of
    <3>1. SUFFICES ASSUME m.table \in {"membership", "api_key", "project", "flag"}
                   PROVE  \E y \in rows' : y.table = "organization" /\ y.id = m.of
      OBVIOUS
    <3>2. b.actor \in Members(rows, o)
      BY <2>2, <2>3, <2>5, <3>1, TableFacts DEF Allowed, Body, Ops
    <3>3. \E y \in rows : y.table = "organization" /\ y.id = o
      BY <3>2, MembersOfSomething
    <3> QED
      BY <1>0, <2>2, <3>3
  <2>10. m \in rows' /\ m.table \notin {"config", "audit"}
    BY <2>2, <2>3, BundleFacts, TableFacts DEF Body, Ops
  <2>11. ASSUME NEW x \in Bundle(m), x # m
         PROVE  /\ x.table \in {"membership", "config", "audit"} /\ x.of = m.id /\ x.id = m.id
                /\ x.table = "membership" => m.table = "organization"
                /\ x.table \in {"config", "audit"} => m.table = "flag"
    BY <2>2, <2>11, BundleFacts
  <2>12. ASSUME NEW x \in rows'
         PROVE  /\ x.table = "membership" => x.id = x.of \/ x.by \in Owners(rows', x.of)
                /\ x.table = "api_key" => x.by \in Owners(rows', x.of)
                /\ x.table \in {"project", "flag"} => x.by \in Members(rows', x.of)
                /\ x.table = "flag" =>
                     \E y \in rows' : y.table = "project" /\ y.id = x.info /\ y.of = x.of
                /\ x.table \in {"membership", "api_key", "project", "flag"} =>
                     \E y \in rows' : y.table = "organization" /\ y.id = x.of
                /\ x.table \in {"config", "audit"} =>
                     \E y \in rows' : y.table = "flag" /\ y.id = x.of
    <3>1. CASE x \in rows
      BY <2>6, <3>1
    <3>2. CASE x = m
      BY <2>7, <2>8, <2>9, <2>10, <3>2
    <3>3. CASE x \in Bundle(m) /\ x # m
      BY <2>10, <2>11, <3>3
    <3> QED
      BY <2>2, <3>1, <3>2, <3>3
  <2> QED
    BY <2>12 DEF Proper
<1> QED
  BY <1>1, <1>2, RowsGrow

LEMMA OwnersStep == IInv /\ [Next]_vars => OwnersOnly'
<1> SUFFICES ASSUME IInv, [Next]_vars, NEW i \in Ids, revoked_at'[i] # NONE
             PROVE  \E x \in rows' : /\ x.table = "api_key" /\ x.id = i
                                     /\ revoked_at'[i].by \in Owners(rows', x.of)
  BY ProperStep DEF OwnersOnly
<1>1. SUFFICES \E x \in rows : /\ x.table = "api_key" /\ x.id = i
                                /\ revoked_at'[i].by \in Owners(rows, x.of)
  <2>1. rows \subseteq rows' /\ \A o : Owners(rows, o) \subseteq Owners(rows', o)
    BY RowsGrow, Monotone
  <2> QED
    BY <2>1
<1>2. CASE revoked_at'[i] = revoked_at[i]
  BY <1>2 DEF IInv, OwnersOnly
<1>3. CASE revoked_at'[i] # revoked_at[i]
  <2>1. PICK r \in Requests : CommitRevocation(r)
    BY <1>3, RevocationsStand
  <2>2. i = body[r].info /\ revoked_at'[i].by = body[r].actor
    BY <1>3, <2>1 DEF CommitRevocation, IInv, TypeOK
  <2> QED
    BY <2>1, <2>2, MarkingFacts DEF CommitRevocation
<1> QED
  BY <1>2, <1>3

-----------------------------------------------------------------------------
(* The invariant holds throughout. *)
THEOREM Invariance == Spec => []IInv
<1>1. IInv /\ [Next]_vars => IInv'
  BY TypeStep, LocalStep, WrittenStep, RevokedStep, FreshStep, UniqueStep, WholeStep, OwnersStep DEF IInv
<1> QED
  BY <1>1, InitInv, PTL DEF Spec

(* Nothing but a user's email is ever blank.                               *)
OnlyEmailsBlank == \A x \in rows : x.key = Blank => x.table = "user"

(* The tables and the requests' local state keep their types, whatever the *)
(* bodies and however the requests interleave.  A slug, a project's key    *)
(* and a flag's key are never stored blank; an email is, if it was sent so.*)
THEOREM TypeCorrectness == Spec => [](TypeOK /\ OnlyEmailsBlank)
<1>1. IInv => TypeOK /\ OnlyEmailsBlank
  BY DEF IInv, TypeOK, OnlyEmailsBlank, Row
<1> QED
  BY <1>1, Invariance, PTL

(* Two requests that both found a key free never both commit a row with    *)
(* it, for any number of requests and any normalisation of the names.      *)
THEOREM KeysStayUnique == Spec => []UniqueKeys
<1>1. IInv => UniqueKeys
  BY DEF IInv
<1> QED
  BY <1>1, Invariance, PTL

(* An organization is never there without its owner, nor a flag without    *)
(* its configurations and its audit entry, whatever failed.                *)
THEOREM NothingInPart == Spec => []WholeOrNothing
<1>1. IInv => WholeOrNothing
  BY DEF IInv
<1> QED
  BY <1>1, Invariance, PTL

(* Every row was written by a user entitled to it, in an organization that *)
(* exists.                                                                 *)
THEOREM OnlyTheEntitledWrite == Spec => []OwnersOnly
<1>1. IInv => OwnersOnly
  BY DEF IInv
<1> QED
  BY <1>1, Invariance, PTL

(* What a request is answered is so: `created' is committed, `conflict' is *)
(* with a row of another's, and neither a refusal nor a conflict leaves    *)
(* anything behind.                                                        *)
THEOREM AnswersAreTrue == Spec => []AnswersTrue
<1>1. IInv => AnswersTrue
  BY DEF IInv, LocalInv, Local, WrittenInv, RevokedInv, AnswersTrue
<1> QED
  BY <1>1, Invariance, PTL

-----------------------------------------------------------------------------
(* The registry's operators are the tables'. *)
LEMMA SameOperators ==
  ASSUME NEW some, NEW b, NEW o, NEW r, NEW x, NEW y, NEW k
  PROVE  /\ Register!Scopes(some, b) = Scopes(some, b)
         /\ Register!Allowed(some, b, o) <=> Allowed(some, b, o)
         /\ Register!KeysFor(some, b, r) = KeysFor(some, b, r)
         /\ Register!MainRow(r, b, o, k) = MainRow(r, b, o, k)
         /\ Register!Bundle(x) = Bundle(x)
         /\ Register!Clash(x, y) <=> Clash(x, y)
         /\ Register!ApiKeys(some, b) = ApiKeys(some, b)
BY DEF Register!ApiKeys, ApiKeys,
       Register!Scopes, Scopes, Register!Allowed, Allowed, Register!Users, Users,
       Register!Members, Members, Register!Owners, Owners, Register!KeysFor, KeysFor,
       Register!Table, Table, Register!MainRow, MainRow, Register!Bundle, Bundle,
       Register!All, All, Register!Flushes, Flushes, Register!Owner, Owner,
       Register!Config, Config, Register!Audit, Audit, Register!Clash, Clash,
       Register!UniqueKey, UniqueKey, Register!Environments, Environments

(* The requests implement the registry: what a request creates appears in  *)
(* one step, once, under a key that is free, for a user who may create it  *)
(* at that moment; an API key is marked by an owner of its organization    *)
(* and never unmarked; every other step changes no table.                  *)
THEOREM RequestsImplementRegistry == Spec => ImplementsRegistry
<1>1. Init => Register!Init
  BY DEF Init, Register!Init
<1>2. ASSUME IInv, NEW r \in Requests, Commit(r) PROVE Register!Next
  <2>1. Commit(r) /\ UNCHANGED revoked_at
    BY <1>2 DEF Commit
  <2>2. PICK k \in KeysFor(rows, body[r], r) :
          LET x == MainRow(r, body[r], scope[r], k)
          IN  /\ rows' = rows \cup Bundle(x)
              /\ \A y \in Bundle(x), z \in rows : ~Clash(y, z)
    BY <1>2, CommitFacts
  <2>3. /\ body[r] \in Bodies /\ scope[r] \in Scopes(rows, body[r])
        /\ Allowed(rows, body[r], scope[r])
    BY <1>2 DEF Commit, IInv, LocalInv, Local
  <2>4. \A y \in rows : y.id # r
    BY <1>2, NothingYet DEF Commit
  <2>5. Register!Create(r, body[r])
    <3> DEFINE b == body[r]
               o == scope[r]
               x == MainRow(r, b, o, k)
               X == Register!MainRow(r, b, o, k)
    <3>1. o \in Register!Scopes(rows, b) /\ Register!Allowed(rows, b, o)
      BY <2>3, SameOperators
    <3>2. k \in Register!KeysFor(rows, b, r)
      BY <2>2, SameOperators
    <3>3. X = x /\ Register!Bundle(X) = Bundle(x)
      BY SameOperators
    <3>4. \A y, z : Register!Clash(y, z) <=> Clash(y, z)
      BY SameOperators
    <3>5. /\ \A y \in Register!Bundle(X), z \in rows : ~Register!Clash(y, z)
          /\ rows' = rows \cup Register!Bundle(X)
      BY <2>2, <3>3, <3>4
    <3> HIDE DEF b, o
    <3> QED
      BY <2>1, <2>4, <3>1, <3>2, <3>5 DEF Register!Create, b, o
  <2> QED
    BY <2>3, <2>5 DEF Register!Next
<1>3. ASSUME IInv, NEW r \in Requests, CommitRevocation(r) PROVE Register!Next
  <2>1. /\ body[r] \in Bodies /\ body[r].op = "revoke_api_key"
        /\ scope[r] \in Scopes(rows, body[r]) /\ Allowed(rows, body[r], scope[r])
        /\ ApiKeys(rows, body[r]) # {}
    BY <1>3 DEF CommitRevocation, IInv, LocalInv, Local
  <2>2. scope[r] = body[r].of
    BY <2>1 DEF Scopes
  <2>3. Register!Allowed(rows, body[r], body[r].of) /\ Register!ApiKeys(rows, body[r]) # {}
    BY <2>1, <2>2, SameOperators
  <2>4. Register!Revoke(r, body[r])
    BY <1>3, <2>1, <2>3 DEF CommitRevocation, Register!Revoke
  <2> QED
    BY <2>1, <2>4 DEF Register!Next
<1>4. IInv /\ [Next]_vars => [Register!Next]_<<rows, revoked_at>>
  BY <1>2, <1>3, RowsGrow, RevocationsStand
<1> QED
  BY <1>1, <1>4, Invariance, PTL DEF Spec, ImplementsRegistry, Register!Spec
=============================================================================
